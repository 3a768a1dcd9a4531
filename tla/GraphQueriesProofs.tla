----------------------- MODULE GraphQueriesProofs -----------------------
(***************************************************************************)
(* The two queries of a graph, for every graph and every choice of         *)
(* relations.  An answer of the breadth-first search is a path, and an     *)
(* empty answer means that there is none; the dependents found walking the *)
(* edges backwards are exactly the ids whose forward closure holds the     *)
(* target.                                                                 *)
(***************************************************************************)
EXTENDS GraphQueries, SequenceTheorems

Queued(n) == \E k \in DOMAIN queue : queue[k].node = n

Ahead(e) == phase = "edges" /\ \E k \in DOMAIN rest : rest[k] = e

\* The entries of the queue were reached by their paths.
EntriesLead == \A k \in DOMAIN queue : Leads(queue[k].path, Pair[1], queue[k].node)

\* So was the entry whose edges are followed, and they are its own.
CurrentLeads ==
    phase = "edges" =>
        /\ Leads(current.path, Pair[1], current.node)
        /\ \A k \in DOMAIN rest : rest[k] \in EdgesOf(request) /\ rest[k].from = current.node

\* An edge that leaves the visited ids is still to be followed: it is ahead, or its
\* start waits in the queue.
NothingForgotten ==
    \A e \in EdgesOf(request) :
        e.relation \in request.relations /\ e.from \in visited
            => e.to \in visited \/ Queued(e.from) \/ Ahead(e)

Search ==
    /\ Pair[1] \in Ids /\ Pair[2] \in Ids /\ Pair[1] # Pair[2]
    /\ Pair[1] \in visited /\ Pair[2] \notin visited
    /\ EntriesLead
    /\ CurrentLeads
    /\ NothingForgotten

IInv == TypeOK /\ AnswersExplain /\ (phase # "next" => Search)

-----------------------------------------------------------------------------
\* The adjacency list of an id holds the edges that start there.
LEMMA EdgesListed ==
    ASSUME IsRequest(request)
    PROVE  /\ EdgesOf(request) \subseteq Edge
           /\ \A e \in EdgesOf(request) :
                \E k \in DOMAIN request.outgoing[e.from] : request.outgoing[e.from][k] = e
           /\ \A id \in Ids : \A k \in DOMAIN request.outgoing[id] :
                request.outgoing[id][k] \in EdgesOf(request) /\ request.outgoing[id][k].from = id
  <1>1. ASSUME NEW id \in Ids, NEW k \in DOMAIN request.outgoing[id]
        PROVE  /\ request.outgoing[id][k] \in Edge
               /\ request.outgoing[id][k] \in EdgesOf(request)
               /\ request.outgoing[id][k].from = id
    <2>1. request.outgoing \in [Ids -> Seq(Edge)]
      BY DEF IsRequest, Request
    <2>2. request.outgoing[id] \in Seq(Edge)
      BY <2>1
    <2>3. request.outgoing[id][k] \in Edge
      BY <2>2
    <2>4. request.outgoing[id][k] \in EdgesOf(request)
      BY DEF EdgesOf
    <2> QED
      BY <2>3, <2>4 DEF IsRequest
  <1>2. ASSUME NEW e \in EdgesOf(request)
        PROVE  e \in Edge /\ \E k \in DOMAIN request.outgoing[e.from] : request.outgoing[e.from][k] = e
    <2>1. PICK id \in Ids : \E k \in DOMAIN request.outgoing[id] : e = request.outgoing[id][k]
      BY DEF EdgesOf
    <2> QED
      BY <2>1, <1>1
  <1> QED
    BY <1>1, <1>2

\* A path and an edge that goes on from its end make a path.
LEMMA LeadsOn ==
    ASSUME NEW path \in Path, NEW from, NEW edge \in EdgesOf(request),
           IsRequest(request), edge.relation \in request.relations,
           Leads(path, from, edge.from)
    PROVE  Append(path, edge) \in Path /\ Leads(Append(path, edge), from, edge.to)
  <1>1. edge \in Edge
    BY EdgesListed
  <1>2. /\ Append(path, edge) \in Seq(Edge) /\ Append(path, edge) # <<>>
        /\ Len(Append(path, edge)) = Len(path) + 1
        /\ \A k \in 1..Len(path) : Append(path, edge)[k] = path[k]
        /\ Append(path, edge)[Len(path) + 1] = edge
    BY <1>1 DEF Path
  <1>3. CASE path = <<>>
    BY <1>2, <1>3 DEF Leads, Path
  <1>4. CASE path # <<>>
    <2>1. Len(path) \in Nat /\ Len(path) >= 1
      BY <1>4 DEF Path
    <2>2. /\ path[1].from = from /\ path[Len(path)].to = edge.from
          /\ \A k \in 1..Len(path) - 1 : path[k].to = path[k + 1].from
          /\ \A k \in DOMAIN path : path[k] \in EdgesOf(request) /\ path[k].relation \in request.relations
      BY <1>4 DEF Leads
    <2>3. Append(path, edge)[1].from = from
      BY <1>2, <2>1, <2>2
    <2>4. ASSUME NEW k \in 1..(Len(path) + 1) - 1
          PROVE  Append(path, edge)[k].to = Append(path, edge)[k + 1].from
      <3>1. CASE k = Len(path)
        BY <1>2, <2>1, <2>2, <3>1
      <3>2. CASE k # Len(path)
        BY <1>2, <2>1, <2>2, <3>2
      <3> QED
        BY <3>1, <3>2
    <2>5. ASSUME NEW k \in DOMAIN Append(path, edge)
          PROVE  /\ Append(path, edge)[k] \in EdgesOf(request)
                 /\ Append(path, edge)[k].relation \in request.relations
      <3>1. k \in 1..Len(path) + 1 /\ DOMAIN path = 1..Len(path)
        BY <1>2 DEF Path
      <3>2. CASE k = Len(path) + 1
        BY <1>2, <3>2
      <3>3. CASE k # Len(path) + 1
        BY <1>2, <2>1, <2>2, <3>1, <3>3
      <3> QED
        BY <3>2, <3>3
    <2> QED
      BY <1>2, <2>3, <2>4, <2>5 DEF Leads, Path
  <1> QED
    BY <1>3, <1>4

\* An answer that explains the next pair keeps every answer explained.
LEMMA AnswerKeeps ==
    ASSUME IInv, NEW path \in Path, Answer(path), Len(answers) < Len(request.pairs),
           Explains(path, Pair[1], Pair[2])
    PROVE  IInv'
  <1>1. request.pairs \in Seq(Names \X Names) /\ answers \in Seq(Path)
    BY DEF IInv, TypeOK, IsRequest, Request
  <1>2. TypeOK'
    BY <1>1 DEF IInv, TypeOK, Answer, Path, Entry
  <1>3. ASSUME NEW k \in DOMAIN answers'
        PROVE  Explains(answers'[k], request.pairs[k][1], request.pairs[k][2])
    <2>1. /\ answers' = Append(answers, path) /\ DOMAIN answers' = 1..Len(answers) + 1
          /\ DOMAIN answers = 1..Len(answers)
      BY <1>1 DEF Answer
    <2>2. CASE k = Len(answers) + 1
      BY <1>1, <2>1, <2>2 DEF Pair
    <2>3. CASE k # Len(answers) + 1
      <3>1. k \in DOMAIN answers /\ answers'[k] = answers[k]
        BY <1>1, <2>1, <2>3
      <3> QED
        BY <3>1 DEF IInv, AnswersExplain
    <2> QED
      BY <2>2, <2>3
  <1>4. request' = request /\ phase' = "next"
    BY DEF Answer
  <1>5. AnswersExplain'
    BY <1>3, <1>4 DEF AnswersExplain, Explains, Leads
  <1> QED
    BY <1>2, <1>4, <1>5 DEF IInv

\* What a search step leaves alone: the pair and the answers given.
LEMMA SearchStep ==
    ASSUME IInv, UNCHANGED <<request, answers>>
    PROVE  Pair' = Pair /\ AnswersExplain'
  BY DEF IInv, AnswersExplain, Pair, Explains, Leads

-----------------------------------------------------------------------------
LEMMA BeginKeeps ==
    ASSUME IInv, Begin
    PROVE  IInv'
  <1>1. Pair' = Pair /\ AnswersExplain'
    BY SearchStep DEF Begin
  <1> DEFINE entry == [node |-> Pair[1], path |-> <<>>]
  <1>2. entry \in Entry /\ queue' = <<entry>> /\ <<entry>> \in Seq(Entry)
    BY DEF Begin, Entry, Path
  <1>3. TypeOK'
    BY <1>2 DEF IInv, TypeOK, Begin, Asked
  <1>4. \A k \in DOMAIN queue' : queue'[k].path = <<>> /\ queue'[k].node = Pair[1]
    BY <1>2
  <1>5. Search'
    <2>1. EntriesLead'
      BY <1>1, <1>4 DEF EntriesLead, Leads
    <2>2. CurrentLeads' /\ ~(phase' = "edges")
      BY DEF CurrentLeads, Begin
    <2>3. Queued(Pair[1])'
      <3>1. 1 \in DOMAIN queue' /\ queue'[1].node = Pair[1]
        BY <1>2
      <3> QED
        BY <1>1, <3>1 DEF Queued
    <2>4. visited' = {Pair[1]} /\ Pair' = Pair
      BY <1>1 DEF Begin
    <2>5. NothingForgotten'
      BY <2>3, <2>4 DEF NothingForgotten
    <2> QED
      BY <1>1, <2>1, <2>2, <2>5 DEF Search, Begin
  <1> QED
    BY <1>1, <1>3, <1>5 DEF IInv

LEMMA ShiftKeeps ==
    ASSUME IInv, Shift
    PROVE  IInv'
  <1>1. Pair' = Pair /\ AnswersExplain' /\ request' = request
    BY SearchStep DEF Shift
  <1>2. Search /\ TypeOK /\ IsRequest(request) /\ queue \in Seq(Entry) /\ queue # <<>>
    BY DEF IInv, TypeOK, Shift
  <1>3. /\ Head(queue) \in Entry /\ Tail(queue) \in Seq(Entry) /\ Head(queue) = queue[1]
        /\ \A k \in DOMAIN Tail(queue) : k + 1 \in DOMAIN queue /\ Tail(queue)[k] = queue[k + 1]
        /\ \A k \in DOMAIN queue : k = 1 \/ (k - 1 \in DOMAIN Tail(queue) /\ Tail(queue)[k - 1] = queue[k])
        /\ 1 \in DOMAIN queue
    BY <1>2
  <1>4. Head(queue).node \in Ids /\ rest' \in Path
    BY <1>2, <1>3 DEF Shift, Entry, IsRequest, Request, Path
  <1>5. TypeOK'
    BY <1>2, <1>3, <1>4 DEF TypeOK, Shift
  <1>6. EntriesLead'
    BY <1>1, <1>2, <1>3 DEF Search, EntriesLead, Shift, Leads
  <1>7. CurrentLeads'
    <2>1. Leads(Head(queue).path, Pair[1], Head(queue).node)
      BY <1>2, <1>3 DEF Search, EntriesLead
    <2>2. \A k \in DOMAIN rest' : rest'[k] \in EdgesOf(request) /\ rest'[k].from = Head(queue).node
      BY <1>2, <1>4, EdgesListed DEF Shift
    <2> QED
      BY <1>1, <2>1, <2>2 DEF CurrentLeads, Shift, Leads
  <1>8. NothingForgotten'
    <2> SUFFICES ASSUME NEW e \in EdgesOf(request), e.relation \in request.relations,
                        e.from \in visited, e.to \notin visited
                 PROVE  Queued(e.from)' \/ Ahead(e)'
      BY <1>1 DEF NothingForgotten, Shift
    <2>1. PICK k \in DOMAIN queue : queue[k].node = e.from
      BY <1>2 DEF Search, NothingForgotten, Queued, Ahead, Shift
    <2>2. CASE k = 1
      <3>1. \E j \in DOMAIN rest' : rest'[j] = e
        BY <1>2, <1>3, <2>1, <2>2, EdgesListed DEF Shift
      <3> QED
        BY <3>1 DEF Ahead, Shift
    <2>3. CASE k # 1
      BY <1>3, <2>1, <2>3 DEF Queued, Shift
    <2> QED
      BY <2>2, <2>3
  <1> QED
    BY <1>1, <1>2, <1>5, <1>6, <1>7, <1>8 DEF IInv, Search, Shift

\* What a step takes off the edges still to follow.
LEMMA RestOnly ==
    ASSUME IInv, rest # <<>>
    PROVE  /\ Head(rest) \in Edge /\ Tail(rest) \in Path /\ Head(rest) = rest[1] /\ 1 \in DOMAIN rest
           /\ \A k \in DOMAIN Tail(rest) : k + 1 \in DOMAIN rest /\ Tail(rest)[k] = rest[k + 1]
           /\ \A k \in DOMAIN rest :
                rest[k] = Head(rest) \/ \E j \in DOMAIN Tail(rest) : Tail(rest)[j] = rest[k]
  <1>1. rest \in Seq(Edge)
    BY DEF IInv, TypeOK, Path
  <1>2. \A k \in DOMAIN rest : k = 1 \/ (k - 1 \in DOMAIN Tail(rest) /\ Tail(rest)[k - 1] = rest[k])
    BY <1>1
  <1> QED
    BY <1>1, <1>2 DEF Path

LEMMA SkipEdgeKeeps ==
    ASSUME IInv, SkipEdge
    PROVE  IInv'
  <1>1. Pair' = Pair /\ AnswersExplain' /\ request' = request
    BY SearchStep DEF SkipEdge
  <1>2. Search /\ TypeOK
    BY DEF IInv, SkipEdge
  <1>3. TypeOK'
    BY <1>2, RestOnly DEF TypeOK, SkipEdge
  <1>4. EntriesLead'
    BY <1>1, <1>2 DEF Search, EntriesLead, SkipEdge, Leads
  <1>5. CurrentLeads'
    BY <1>1, <1>2, RestOnly DEF Search, CurrentLeads, SkipEdge, Leads
  <1>6. NothingForgotten'
    <2> SUFFICES ASSUME NEW e \in EdgesOf(request), e.relation \in request.relations,
                        e.from \in visited, e.to \notin visited
                 PROVE  Queued(e.from)' \/ Ahead(e)'
      BY <1>1 DEF NothingForgotten, SkipEdge
    <2>1. Queued(e.from) \/ Ahead(e)
      BY <1>2 DEF Search, NothingForgotten
    <2>2. e # Head(rest)
      BY DEF SkipEdge, Followed
    <2>3. ASSUME Ahead(e)
          PROVE  Ahead(e)'
      BY <2>2, <2>3, RestOnly DEF Ahead, SkipEdge
    <2>4. ASSUME Queued(e.from)
          PROVE  Queued(e.from)'
      BY <2>4 DEF Queued, SkipEdge
    <2> QED
      BY <2>1, <2>3, <2>4
  <1> QED
    BY <1>1, <1>2, <1>3, <1>4, <1>5, <1>6 DEF IInv, Search, SkipEdge

LEMMA FollowEdgeKeeps ==
    ASSUME IInv, FollowEdge
    PROVE  IInv'
  <1> DEFINE edge == Head(rest)
             entry == NextEntry(edge)
  <1>1. Pair' = Pair /\ AnswersExplain' /\ request' = request
    BY SearchStep DEF FollowEdge
  <1>2. Search /\ TypeOK /\ phase = "edges" /\ current \in Entry /\ IsRequest(request)
    BY DEF IInv, FollowEdge, TypeOK
  <1>3. /\ edge \in Edge /\ edge \in EdgesOf(request) /\ edge.from = current.node
        /\ edge.relation \in request.relations
    BY <1>2, RestOnly DEF Search, CurrentLeads, FollowEdge, Followed
  <1>4. entry \in Entry /\ Leads(entry.path, Pair[1], entry.node)
    <2>1. Append(current.path, edge) \in Path /\ Leads(Append(current.path, edge), Pair[1], edge.to)
      BY <1>2, <1>3, LeadsOn DEF Search, CurrentLeads, Entry
    <2> QED
      BY <1>3, <2>1 DEF NextEntry, Entry, Edge
  <1>5. /\ queue \in Seq(Entry) /\ queue' = Append(queue, entry) /\ queue' \in Seq(Entry)
        /\ \A k \in DOMAIN queue' : queue'[k] = entry \/ (k \in DOMAIN queue /\ queue'[k] = queue[k])
        /\ \A k \in DOMAIN queue : k \in DOMAIN queue' /\ queue'[k] = queue[k]
        /\ \E k \in DOMAIN queue' : queue'[k] = entry
    <2>1. queue \in Seq(Entry) /\ queue' = Append(queue, entry)
      BY <1>2 DEF TypeOK, FollowEdge
    <2>2. queue' \in Seq(Entry) /\ DOMAIN queue' = 1..Len(queue) + 1 /\ DOMAIN queue = 1..Len(queue)
      BY <1>4, <2>1
    <2>3. queue'[Len(queue) + 1] = entry /\ \A k \in 1..Len(queue) : queue'[k] = queue[k]
      BY <1>4, <2>1
    <2>4. Len(queue) \in Nat /\ Len(queue) + 1 \in DOMAIN queue'
      BY <2>1, <2>2
    <2>5. \A k \in DOMAIN queue' : k = Len(queue) + 1 \/ k \in DOMAIN queue
      BY <2>2, <2>4
    <2>6. \A k \in DOMAIN queue : k \in DOMAIN queue'
      BY <2>2, <2>4
    <2> QED
      BY <2>1, <2>2, <2>3, <2>4, <2>5, <2>6
  <1>6. TypeOK'
    BY <1>2, <1>3, <1>5, RestOnly DEF TypeOK, FollowEdge, Edge
  <1>7. EntriesLead'
    <2> SUFFICES ASSUME NEW k \in DOMAIN queue'
                 PROVE  Leads(queue'[k].path, Pair[1], queue'[k].node)
      BY <1>1 DEF EntriesLead, Leads
    <2> QED
      BY <1>2, <1>4, <1>5 DEF Search, EntriesLead
  <1>8. CurrentLeads'
    BY <1>1, <1>2, RestOnly DEF Search, CurrentLeads, FollowEdge, Leads
  <1>9. NothingForgotten'
    <2> SUFFICES ASSUME NEW e \in EdgesOf(request), e.relation \in request.relations,
                        e.from \in visited', e.to \notin visited'
                 PROVE  Queued(e.from)' \/ Ahead(e)'
      BY <1>1 DEF NothingForgotten
    <2>1. visited' = visited \cup {edge.to}
      BY DEF FollowEdge
    <2>2. CASE e.from = edge.to
      BY <1>5, <2>2 DEF Queued, NextEntry
    <2>3. CASE e.from \in visited
      <3>1. Queued(e.from) \/ Ahead(e)
        BY <1>2, <2>1, <2>3 DEF Search, NothingForgotten
      <3>2. e # edge
        BY <2>1
      <3>3. ASSUME Ahead(e)
            PROVE  Ahead(e)'
        BY <3>2, <3>3, RestOnly DEF Ahead, FollowEdge
      <3>4. ASSUME Queued(e.from)
            PROVE  Queued(e.from)'
        BY <1>5, <3>4 DEF Queued
      <3> QED
        BY <3>1, <3>3, <3>4
    <2> QED
      BY <2>1, <2>2, <2>3
  <1> QED
    BY <1>1, <1>2, <1>6, <1>7, <1>8, <1>9 DEF IInv, Search, FollowEdge, Followed

LEMMA EndEdgesKeeps ==
    ASSUME IInv, EndEdges
    PROVE  IInv'
  <1>1. Pair' = Pair /\ AnswersExplain' /\ request' = request
    BY SearchStep DEF EndEdges
  <1>2. Search /\ TypeOK
    BY DEF IInv, EndEdges
  <1>3. TypeOK'
    BY <1>2 DEF TypeOK, EndEdges
  <1>4. EntriesLead'
    BY <1>1, <1>2 DEF Search, EntriesLead, EndEdges, Leads
  <1>5. CurrentLeads'
    BY DEF CurrentLeads, EndEdges
  <1>6. NothingForgotten'
    BY <1>1, <1>2 DEF Search, NothingForgotten, EndEdges, Queued, Ahead
  <1> QED
    BY <1>1, <1>2, <1>3, <1>4, <1>5, <1>6 DEF IInv, Search, EndEdges

\* An empty queue means that the visited ids are all there is to reach.
LEMMA GiveUpKeeps ==
    ASSUME IInv, GiveUp
    PROVE  IInv'
  <1>1. Search /\ TypeOK /\ queue = <<>> /\ phase = "search"
    BY DEF IInv, GiveUp
  <1>2. Closed(visited, EdgePairs(request))
    <2> SUFFICES ASSUME NEW e \in EdgesOf(request), e.relation \in request.relations,
                        e.from \in visited
                 PROVE  e.to \in visited
      BY DEF Closed, EdgePairs
    <2> QED
      BY <1>1 DEF Search, NothingForgotten, Queued, Ahead
  <1>3. Reach({Pair[1]}, EdgePairs(request)) \subseteq visited
    BY <1>1, <1>2, ReachLeast DEF Search
  <1>4. Explains(<<>>, Pair[1], Pair[2])
    BY <1>1, <1>3 DEF Explains, Search
  <1>5. Len(answers) < Len(request.pairs) /\ <<>> \in Path
    BY <1>1 DEF TypeOK, Path
  <1> QED
    BY <1>4, <1>5, AnswerKeeps DEF GiveUp

LEMMA ArriveKeeps ==
    ASSUME IInv, Arrive
    PROVE  IInv'
  <1>1. /\ Search /\ TypeOK /\ phase = "edges" /\ current \in Entry /\ IsRequest(request)
        /\ Len(answers) < Len(request.pairs)
    BY DEF IInv, Arrive, TypeOK
  <1>2. /\ Head(rest) \in EdgesOf(request) /\ Head(rest).from = current.node
        /\ Head(rest).relation \in request.relations
    BY <1>1, RestOnly DEF Search, CurrentLeads, Arrive, Followed
  <1>3. /\ Append(current.path, Head(rest)) \in Path
        /\ Leads(Append(current.path, Head(rest)), Pair[1], Pair[2])
    BY <1>1, <1>2, LeadsOn DEF Search, CurrentLeads, Entry, Arrive
  <1>4. Append(current.path, Head(rest)) # <<>>
    <2>1. current.path \in Seq(Edge) /\ Head(rest) \in Edge
      BY <1>1, <1>2, EdgesListed DEF Entry, Path
    <2>2. Len(Append(current.path, Head(rest))) = Len(current.path) + 1 /\ Len(current.path) \in Nat
      BY <2>1
    <2> QED
      BY <2>2
  <1>5. Explains(Append(current.path, Head(rest)), Pair[1], Pair[2])
    BY <1>3, <1>4 DEF Explains
  <1> QED
    BY <1>1, <1>3, <1>5, AnswerKeeps DEF Arrive

LEMMA AnswerTriviallyKeeps ==
    ASSUME IInv, AnswerTrivially
    PROVE  IInv'
  <1>1. Explains(<<>>, Pair[1], Pair[2]) /\ Len(answers) < Len(request.pairs) /\ <<>> \in Path
    BY DEF AnswerTrivially, Asked, Explains, Path
  <1> QED
    BY <1>1, AnswerKeeps DEF AnswerTrivially

-----------------------------------------------------------------------------
THEOREM Inductive == Spec => []IInv
  <1>1. Init => IInv
    <2> SUFFICES ASSUME Init PROVE IInv
      OBVIOUS
    <2>1. IsRequest(request) /\ Len(request.pairs) \in Nat
      BY RequestsAssumption DEF Init, IsRequest, Request
    <2> QED
      BY <2>1 DEF Init, IInv, TypeOK, AnswersExplain, Path, Entry
  <1>2. IInv /\ [Next]_vars => IInv'
    <2> SUFFICES ASSUME IInv, [Next]_vars PROVE IInv'
      OBVIOUS
    <2>1. CASE UNCHANGED vars
      <3>1. Pair' = Pair /\ AnswersExplain' /\ TypeOK' /\ phase' = phase
        BY <2>1, SearchStep DEF vars, IInv, TypeOK
      <3>2. EntriesLead' = EntriesLead /\ CurrentLeads' = CurrentLeads
        BY <2>1, <3>1 DEF vars, EntriesLead, CurrentLeads, Leads
      <3>3. NothingForgotten' = NothingForgotten
        BY <2>1 DEF vars, NothingForgotten, Queued, Ahead
      <3>4. Search' = Search
        BY <2>1, <3>1, <3>2, <3>3 DEF vars, Search
      <3> QED
        BY <3>1, <3>4 DEF IInv
    <2>2. CASE Next
      BY <2>2, AnswerTriviallyKeeps, BeginKeeps, ShiftKeeps, GiveUpKeeps, SkipEdgeKeeps,
         ArriveKeeps, FollowEdgeKeeps, EndEdgesKeeps DEF Next
    <2> QED
      BY <2>1, <2>2
  <1> QED
    BY <1>1, <1>2, PTL DEF Spec

\* Every state of a batch of explanations is well typed.
THEOREM TypeCorrect == Spec => []TypeOK
  <1>1. IInv => TypeOK
    BY DEF IInv
  <1> QED
    BY <1>1, Inductive, PTL

\* Whatever the graph, an answer of explainPath is a path of the relations asked
\* for, and an empty answer means that there is none.
THEOREM ExplanationsHold == Spec => []AnswersExplain
  <1>1. IInv => AnswersExplain
    BY DEF IInv
  <1> QED
    BY <1>1, Inductive, PTL

-----------------------------------------------------------------------------
(***************************************************************************)
(* The least of the shortest paths.  The search takes up ids in the order  *)
(* of their least paths: every entry carries the least path to its node,   *)
(* and the queue is sorted by them.                                        *)
(***************************************************************************)

\* The walks of n edges of the relations from one id to another.
Walks(r, n, from, to) ==
    {p \in [1..n -> Followable(r)] :
        /\ n = 0 => from = to
        /\ n > 0 => p[1].from = from /\ p[n].to = to
        /\ \A k \in 1..n - 1 : p[k].to = p[k + 1].from}

NoBetter(path, q, n) == Len(path) <= n /\ (n = Len(path) => ~Precedes(q, path))

Least(r, path, from, to) == \A n \in Nat : \A q \in Walks(r, n, from, to) : NoBetter(path, q, n)

\* Shorter, or of one length and first in the order of the edges.
Sooner(p, q) == Len(p) < Len(q) \/ (Len(p) = Len(q) /\ Precedes(p, q))

\* An entry goes on from the current path or one before it, by an edge that was passed.
Begotten(entry) ==
    \E p \in Path, e \in Edge :
        /\ entry.path = Append(p, e) /\ e.to = entry.node
        /\ p = current.path \/ Sooner(p, current.path)
        /\ phase = "edges" /\ p = current.path => \A k \in DOMAIN rest : ~EdgeBefore(rest[k], e)

QueueOrdered ==
    /\ \A k \in DOMAIN queue :
        Least(request, queue[k].path, Pair[1], queue[k].node) /\ queue[k].node \in visited
    /\ \A j, k \in DOMAIN queue : j < k => Sooner(queue[j].path, queue[k].path)

RestOrdered == \A j, k \in DOMAIN rest : j < k => ~EdgeBefore(rest[k], rest[j])

\* Before the first id is taken up the queue holds it alone.
CurrentOrdered ==
    /\ phase = "edges" => Least(request, current.path, Pair[1], current.node) /\ RestOrdered
    /\ current = <<>> => phase = "search" /\ \A j, k \in DOMAIN queue : j = k
    /\ current # <<>> => \A k \in DOMAIN queue :
                            Sooner(current.path, queue[k].path) /\ Begotten(queue[k])

AnswersLeast ==
    \A k \in DOMAIN answers : answers[k] # <<>> =>
        Least(request, answers[k], request.pairs[k][1], request.pairs[k][2])

Ordered ==
    /\ AnswersLeast
    /\ phase = "next" => current = <<>>
    /\ phase # "next" => QueueOrdered /\ CurrentOrdered

-----------------------------------------------------------------------------
\* The first edge in which two paths of one length differ decides between them.
LEMMA PrecedesTransitive ==
    ASSUME NEW n \in Nat, NEW p \in [1..n -> Edge], NEW q \in [1..n -> Edge], NEW r \in [1..n -> Edge],
           Precedes(p, q), Precedes(q, r)
    PROVE  Precedes(p, r)
  <1>1. PICK i \in 1..n : (\A j \in 1..i - 1 : p[j] = q[j]) /\ EdgeBefore(p[i], q[i])
    BY DEF Precedes
  <1>2. PICK k \in 1..n : (\A j \in 1..k - 1 : q[j] = r[j]) /\ EdgeBefore(q[k], r[k])
    BY DEF Precedes
  <1>3. CASE i < k
    <2>1. i \in 1..k - 1 /\ q[i] = r[i]
      BY <1>2, <1>3
    <2>2. \A j \in 1..i - 1 : j \in 1..k - 1
      BY <1>3
    <2>3. \A j \in 1..i - 1 : p[j] = r[j]
      BY <1>1, <1>2, <2>2
    <2> QED
      BY <1>1, <2>1, <2>3 DEF Precedes
  <1>4. CASE k < i
    <2>1. k \in 1..i - 1 /\ p[k] = q[k]
      BY <1>1, <1>4
    <2>2. \A j \in 1..k - 1 : j \in 1..i - 1
      BY <1>4
    <2>3. \A j \in 1..k - 1 : p[j] = r[j]
      BY <1>1, <1>2, <2>2
    <2> QED
      BY <1>2, <2>1, <2>3 DEF Precedes
  <1>5. CASE i = k
    <2>1. p[i] \in Edge /\ q[i] \in Edge /\ r[i] \in Edge
      OBVIOUS
    <2>2. EdgeBefore(p[i], r[i])
      BY <1>1, <1>2, <1>5, <2>1, EdgeOrderAssumption
    <2>3. \A j \in 1..i - 1 : p[j] = r[j]
      BY <1>1, <1>2, <1>5
    <2> QED
      BY <2>2, <2>3 DEF Precedes
  <1> QED
    BY <1>3, <1>4, <1>5

LEMMA SoonerTransitive ==
    ASSUME NEW p \in Path, NEW q \in Path, NEW r \in Path, Sooner(p, q), Sooner(q, r)
    PROVE  Sooner(p, r)
  <1>1. /\ Len(p) \in Nat /\ Len(q) \in Nat /\ Len(r) \in Nat
        /\ p \in [1..Len(p) -> Edge] /\ q \in [1..Len(q) -> Edge] /\ r \in [1..Len(r) -> Edge]
    BY DEF Path
  <1>2. CASE Len(p) = Len(q) /\ Len(q) = Len(r)
    BY <1>1, <1>2, PrecedesTransitive DEF Sooner
  <1>3. CASE ~(Len(p) = Len(q) /\ Len(q) = Len(r))
    <2>1. Len(p) \in Nat /\ Len(q) \in Nat /\ Len(r) \in Nat
      BY <1>1
    <2>2. Len(p) <= Len(q) /\ Len(q) <= Len(r)
      BY <2>1 DEF Sooner
    <2>3. Len(p) < Len(r)
      BY <1>3, <2>1, <2>2
    <2> QED
      BY <2>3 DEF Sooner
  <1> QED
    BY <1>2, <1>3

LEMMA NotSoonerItself == ASSUME NEW p \in Path, Sooner(p, p) PROVE FALSE
  <1>1. Len(p) \in Nat /\ p \in [1..Len(p) -> Edge]
    BY DEF Path
  <1>2. PICK k \in 1..Len(p) : EdgeBefore(p[k], p[k])
    BY <1>1 DEF Sooner, Precedes
  <1> QED
    BY <1>1, <1>2, EdgeOrderAssumption

\* A path is sooner than what goes on from it.
LEMMA AppendLater ==
    ASSUME NEW p \in Path, NEW e \in Edge
    PROVE  /\ Append(p, e) \in Path /\ Len(Append(p, e)) = Len(p) + 1 /\ Len(p) \in Nat
           /\ \A i \in 1..Len(p) : Append(p, e)[i] = p[i]
           /\ Append(p, e)[Len(p) + 1] = e
           /\ Sooner(p, Append(p, e))
  <1>1. /\ Append(p, e) \in Path /\ Len(Append(p, e)) = Len(p) + 1 /\ Len(p) \in Nat
        /\ \A i \in 1..Len(p) : Append(p, e)[i] = p[i]
        /\ Append(p, e)[Len(p) + 1] = e
    BY DEF Path
  <1> QED
    BY <1>1 DEF Sooner

\* What goes on from the sooner path, or from the same by the edge before, is sooner.
LEMMA AppendSooner ==
    ASSUME NEW p \in Path, NEW q \in Path, NEW e \in Edge, NEW f \in Edge,
           Sooner(p, q) \/ (p = q /\ EdgeBefore(e, f))
    PROVE  Sooner(Append(p, e), Append(q, f))
  <1> DEFINE v == Append(p, e)
             w == Append(q, f)
  <1>1. /\ Len(v) = Len(p) + 1 /\ \A i \in 1..Len(p) : v[i] = p[i]
        /\ v[Len(p) + 1] = e /\ Len(p) \in Nat /\ v \in Path
    BY AppendLater
  <1>2. /\ Len(w) = Len(q) + 1 /\ \A i \in 1..Len(q) : w[i] = q[i]
        /\ w[Len(q) + 1] = f /\ Len(q) \in Nat
    BY AppendLater
  <1>3. DOMAIN v = 1..Len(p) + 1 /\ DOMAIN p = 1..Len(p)
    BY <1>1 DEF Path
  <1> HIDE DEF v, w
  <1>4. CASE Len(p) < Len(q)
    BY <1>1, <1>2, <1>4 DEF Sooner, v, w
  <1>5. CASE p = q /\ EdgeBefore(e, f)
    <2>1. Len(p) + 1 \in DOMAIN v /\ EdgeBefore(v[Len(p) + 1], w[Len(p) + 1])
      BY <1>1, <1>2, <1>3, <1>5
    <2>2. \A j \in 1..(Len(p) + 1) - 1 : v[j] = w[j]
      BY <1>1, <1>2, <1>5
    <2>3. Precedes(v, w)
      BY <2>1, <2>2 DEF Precedes
    <2> QED
      BY <1>1, <1>2, <1>5, <2>3 DEF Sooner, v, w
  <1>6. CASE Len(p) = Len(q) /\ Precedes(p, q)
    <2>1. PICK k \in 1..Len(p) : (\A j \in 1..k - 1 : p[j] = q[j]) /\ EdgeBefore(p[k], q[k])
      BY <1>3, <1>6 DEF Precedes
    <2>2. k \in DOMAIN v /\ EdgeBefore(v[k], w[k])
      BY <1>1, <1>2, <1>3, <1>6, <2>1
    <2>3. \A j \in 1..k - 1 : j \in 1..Len(p)
      BY <1>1, <2>1
    <2>4. \A j \in 1..k - 1 : v[j] = w[j]
      BY <1>1, <1>2, <1>6, <2>1, <2>3
    <2>5. Precedes(v, w)
      BY <2>2, <2>4 DEF Precedes
    <2> QED
      BY <1>1, <1>2, <1>6, <2>5 DEF Sooner, v, w
  <1> QED
    BY <1>4, <1>5, <1>6 DEF Sooner

-----------------------------------------------------------------------------
\* A walk to an id not visited leaves the visited ids at some edge.
LEMMA FirstCrossing ==
    ASSUME NEW n \in Nat, NEW to, to \notin visited, Pair[1] \in visited, NEW q \in Walks(request, n, Pair[1], to)
    PROVE  \E k \in 1..n :
              /\ q[k] \in Followable(request) /\ q[k].from \in visited /\ q[k].to \notin visited
              /\ [i \in 1..k - 1 |-> q[i]] \in Walks(request, k - 1, Pair[1], q[k].from)
  <1> DEFINE T == {i \in 1..n : q[i].to \notin visited}
  <1>1. /\ q \in [1..n -> Followable(request)] /\ n > 0
        /\ q[1].from = Pair[1] /\ q[n].to = to
        /\ \A k \in 1..n - 1 : q[k].to = q[k + 1].from
    BY DEF Walks
  <1>2. n \in T /\ T \in SUBSET Nat
    BY <1>1
  <1>3. PICK k \in T : \A j \in T : k <= j
    BY <1>2, LeastNatural
  <1>4. k \in 1..n /\ q[k].to \notin visited /\ \A j \in 1..k - 1 : q[j].to \in visited
    BY <1>3
  <1>5. q[k].from \in visited /\ (k > 1 => q[k - 1].to = q[k].from) /\ (k = 1 => q[k].from = Pair[1])
    <2>1. CASE k = 1
      BY <1>1, <2>1
    <2>2. CASE k # 1
      <3>1. k - 1 \in 1..n - 1 /\ (k - 1) + 1 = k /\ k - 1 \in 1..k - 1
        BY <1>4, <2>2
      <3> QED
        BY <1>1, <1>4, <2>2, <3>1
    <2> QED
      BY <2>1, <2>2
  <1> DEFINE r == [i \in 1..k - 1 |-> q[i]]
  <1>6. r \in Walks(request, k - 1, Pair[1], q[k].from)
    <2>1. \A i \in 1..k - 1 : i \in 1..n
      BY <1>4
    <2>2. r \in [1..k - 1 -> Followable(request)]
      BY <1>1, <2>1
    <2>3. k - 1 > 0 => r[1].from = Pair[1] /\ r[k - 1].to = q[k].from
      <3> SUFFICES ASSUME k - 1 > 0 PROVE r[1].from = Pair[1] /\ r[k - 1].to = q[k].from
        OBVIOUS
      <3>1. 1 \in 1..k - 1 /\ k - 1 \in 1..k - 1 /\ k > 1
        BY <1>4
      <3> QED
        BY <1>1, <1>5, <3>1
    <2>4. k - 1 = 0 => Pair[1] = q[k].from
      BY <1>4, <1>5
    <2>5. ASSUME NEW j \in 1..(k - 1) - 1 PROVE r[j].to = r[j + 1].from
      <3>1. j \in 1..k - 1 /\ j + 1 \in 1..k - 1 /\ j \in 1..n - 1
        BY <1>4
      <3> QED
        BY <1>1, <3>1
    <2> HIDE DEF r
    <2> QED
      BY <2>2, <2>3, <2>4, <2>5 DEF Walks
  <1> QED
    BY <1>1, <1>4, <1>5, <1>6

\* The path that goes on by the first edge still to follow is the least to its end, if
\* that was not visited.
LEMMA NextLeast ==
    ASSUME IInv, Ordered, phase = "edges", rest # <<>>, Followed(Head(rest))
    PROVE  Least(request, Append(current.path, Head(rest)), Pair[1], Head(rest).to)
  <1> DEFINE cp == current.path
             m == Len(cp)
             e == Head(rest)
             p == Append(cp, e)
  <1>1. /\ Search /\ TypeOK /\ IsRequest(request) /\ current \in Entry /\ current # <<>>
        /\ Pair[1] \in visited /\ e.to \notin visited
    <2>1. TypeOK /\ Search
      BY DEF IInv
    <2>2. current \in Entry
      BY <2>1 DEF TypeOK
    <2>3. current # <<>>
      BY <2>2 DEF Entry
    <2> QED
      BY <2>1, <2>2, <2>3 DEF TypeOK, Search, Followed
  <1>2. /\ cp \in Path /\ e \in Edge /\ m \in Nat /\ cp \in [1..m -> Edge]
        /\ e = rest[1] /\ 1 \in DOMAIN rest
    BY <1>1, RestOnly DEF Entry, Path
  <1>3. Len(p) = m + 1 /\ p[m + 1] = e /\ \A i \in 1..m : p[i] = cp[i]
    BY <1>2, AppendLater
  <1>4. Least(request, cp, Pair[1], current.node) /\ RestOrdered
    BY DEF Ordered, CurrentOrdered
  <1> HIDE DEF cp, m, e, p
  <1> SUFFICES ASSUME NEW n \in Nat, NEW q \in Walks(request, n, Pair[1], e.to)
               PROVE  NoBetter(p, q, n)
    BY DEF Least, p, cp, e
  <1>5. PICK k \in 1..n :
           /\ q[k] \in Followable(request) /\ q[k].from \in visited /\ q[k].to \notin visited
           /\ [i \in 1..k - 1 |-> q[i]] \in Walks(request, k - 1, Pair[1], q[k].from)
    BY <1>1, FirstCrossing
  <1> DEFINE f == q[k]
             r == [i \in 1..k - 1 |-> q[i]]
  <1>6. /\ f \in EdgesOf(request) /\ f.relation \in request.relations /\ f \in Edge
        /\ k - 1 \in Nat /\ r \in [1..k - 1 -> Edge]
    <2>1. Followable(request) \subseteq EdgesOf(request) /\ EdgesOf(request) \subseteq Edge
      BY <1>1, EdgesListed DEF Followable
    <2>2. r \in [1..k - 1 -> Followable(request)]
      BY <1>5 DEF Walks
    <2> QED
      BY <1>5, <2>1, <2>2 DEF Followable
  <1>7. Queued(f.from) \/ Ahead(f)
    BY <1>1, <1>5, <1>6 DEF Search, NothingForgotten
  <1> HIDE DEF f, r
  \* The walk is no shorter up to there; nor is it before.
  <1>8. /\ m <= k - 1
        /\ k - 1 = m => ~Precedes(r, cp)
        /\ k - 1 = m /\ (\A i \in 1..m : r[i] = cp[i]) => ~EdgeBefore(f, e)
    <2>1. CASE Ahead(f)
      <3>1. PICK j \in DOMAIN rest : rest[j] = f
        BY <2>1 DEF Ahead
      <3>2. f.from = current.node
        BY <1>1, <3>1 DEF Search, CurrentLeads
      <3>3. NoBetter(cp, r, k - 1)
        BY <1>4, <1>5, <1>6, <3>2 DEF Least, f, r
      <3>4. ~EdgeBefore(f, e)
        <4>1. CASE j = 1
          BY <1>2, <1>6, <3>1, <4>1, EdgeOrderAssumption
        <4>2. CASE j # 1
          <5>1. 1 < j
            <6>1. rest \in Seq(Edge)
              BY <1>1 DEF TypeOK, Path
            <6> QED
              BY <4>2, <6>1
          <5> QED
            BY <1>2, <1>4, <3>1, <5>1 DEF RestOrdered
        <4> QED
          BY <4>1, <4>2
      <3> QED
        BY <1>2, <1>6, <3>3, <3>4 DEF NoBetter, m
    <2>2. CASE Queued(f.from)
      <3>1. PICK j \in DOMAIN queue : queue[j].node = f.from
        BY <2>2 DEF Queued
      <3> DEFINE w == queue[j].path
      <3>2. w \in Path /\ Least(request, w, Pair[1], f.from) /\ Sooner(cp, w)
        <4>1. queue[j] \in Entry
          BY <1>1 DEF TypeOK
        <4>2. QueueOrdered /\ CurrentOrdered
          BY DEF Ordered
        <4> QED
          BY <1>1, <3>1, <4>1, <4>2 DEF Entry, QueueOrdered, CurrentOrdered, cp
      <3> HIDE DEF w
      <3>3. NoBetter(w, r, k - 1)
        BY <1>5, <1>6, <3>2 DEF Least, f, r
      <3>4. Len(w) \in Nat /\ w \in [1..Len(w) -> Edge] /\ m <= Len(w) /\ Len(w) <= k - 1
        BY <1>2, <3>2, <3>3 DEF Path, NoBetter, Sooner, m
      <3>5. ASSUME k - 1 = m
            PROVE  ~Precedes(r, cp) /\ ~\A i \in 1..m : r[i] = cp[i]
        <4>1. Len(w) = m /\ Len(w) = k - 1
          <5>1. Len(w) \in Nat /\ m \in Nat /\ m <= Len(w) /\ Len(w) <= k - 1
            BY <1>2, <3>4
          <5> QED
            BY <3>5, <5>1
        <4>2. Precedes(cp, w) /\ ~Precedes(r, w)
          BY <1>2, <3>2, <3>3, <4>1 DEF NoBetter, Sooner, m
        <4>3. r \in [1..m -> Edge] /\ w \in [1..m -> Edge]
          BY <1>6, <3>4, <3>5, <4>1
        <4>4. ~Precedes(r, cp)
          BY <1>2, <4>2, <4>3, PrecedesTransitive
        <4>5. ASSUME \A i \in 1..m : r[i] = cp[i] PROVE FALSE
          <5>1. r = cp
            BY <1>2, <4>3, <4>5
          <5> QED
            BY <4>2, <5>1
        <4> QED
          BY <4>4, <4>5
      <3> QED
        BY <1>2, <1>6, <3>4, <3>5
    <2> QED
      BY <1>7, <2>1, <2>2
  <1>9. Len(p) <= n
    BY <1>2, <1>3, <1>6, <1>8
  <1>10. ASSUME n = Len(p), Precedes(q, p) PROVE FALSE
    <2>1. k = n /\ k - 1 = m /\ n = m + 1
      BY <1>2, <1>3, <1>6, <1>8, <1>10
    <2>2. q \in [1..n -> Followable(request)]
      BY DEF Walks
    <2>3. PICK i \in 1..n : (\A j \in 1..i - 1 : q[j] = p[j]) /\ EdgeBefore(q[i], p[i])
      BY <1>10, <2>2 DEF Precedes
    <2>4. \A j \in 1..m : r[j] = q[j]
      BY <2>1 DEF r
    <2>5. CASE i = m + 1
      <3>1. \A j \in 1..m : r[j] = cp[j]
        BY <1>2, <1>3, <2>3, <2>4, <2>5
      <3>2. EdgeBefore(f, e)
        BY <1>3, <2>1, <2>3, <2>5 DEF f
      <3> QED
        BY <1>8, <2>1, <3>1, <3>2
    <2>6. CASE i # m + 1
      <3>1. i \in 1..m /\ \A j \in 1..i - 1 : j \in 1..m
        BY <1>2, <2>1, <2>3, <2>6
      <3>2. \A j \in 1..i - 1 : r[j] = cp[j]
        BY <1>3, <2>3, <2>4, <3>1
      <3>3. EdgeBefore(r[i], cp[i])
        BY <1>3, <2>3, <2>4, <3>1
      <3>4. i \in DOMAIN r
        BY <1>6, <2>1, <3>1
      <3>5. Precedes(r, cp)
        BY <3>2, <3>3, <3>4 DEF Precedes
      <3> QED
        BY <1>8, <2>1, <3>5
    <2> QED
      BY <2>5, <2>6
  <1> QED
    BY <1>9, <1>10 DEF NoBetter

-----------------------------------------------------------------------------
LEMMA AnswerOrdered ==
    ASSUME IInv, AnswersLeast, NEW path \in Path, Answer(path),
           path # <<>> => Least(request, path, Pair[1], Pair[2])
    PROVE  Ordered'
  <1>1. request.pairs \in Seq(Names \X Names) /\ answers \in Seq(Path)
    BY DEF IInv, TypeOK, IsRequest, Request
  <1>2. request' = request /\ phase' = "next" /\ current' = <<>> /\ answers' = Append(answers, path)
    BY DEF Answer
  <1>3. ASSUME NEW k \in DOMAIN answers', answers'[k] # <<>>
        PROVE  Least(request, answers'[k], request.pairs[k][1], request.pairs[k][2])
    <2>1. DOMAIN answers' = 1..Len(answers) + 1 /\ DOMAIN answers = 1..Len(answers) /\ Len(answers) \in Nat
      BY <1>1, <1>2
    <2>2. CASE k = Len(answers) + 1
      BY <1>1, <1>2, <1>3, <2>2 DEF Pair
    <2>3. CASE k # Len(answers) + 1
      <3>1. k \in DOMAIN answers /\ answers'[k] = answers[k]
        BY <1>1, <1>2, <2>1, <2>3
      <3> QED
        BY <1>3, <3>1 DEF AnswersLeast
    <2> QED
      BY <2>2, <2>3
  <1>4. AnswersLeast'
    BY <1>2, <1>3 DEF AnswersLeast
  <1> QED
    BY <1>2, <1>4 DEF Ordered

\* The answers given and the pair are left alone by the steps of a search.
LEMMA SearchOrdered ==
    ASSUME Ordered, UNCHANGED <<request, answers>>
    PROVE  AnswersLeast' /\ Pair' = Pair
  BY DEF Ordered, AnswersLeast, Pair

LEMMA BeginOrdered ==
    ASSUME IInv, Ordered, Begin
    PROVE  Ordered'
  <1> DEFINE entry == [node |-> Pair[1], path |-> <<>>]
  <1>1. /\ queue' = <<entry>> /\ phase = "next" /\ phase' = "search" /\ current' = current
        /\ visited' = {Pair[1]} /\ request' = request /\ answers' = answers
    BY DEF Begin, Asked
  <1>2. AnswersLeast' /\ Pair' = Pair
    BY <1>1, SearchOrdered
  <1>3. DOMAIN queue' = {1} /\ queue'[1].path = <<>> /\ queue'[1].node = Pair[1]
    BY <1>1
  <1>4. Least(request, <<>>, Pair[1], Pair[1])
    <2> SUFFICES ASSUME NEW n \in Nat, NEW q \in Walks(request, n, Pair[1], Pair[1])
                 PROVE  NoBetter(<<>>, q, n)
      BY DEF Least
    <2>1. q \in [1..n -> Followable(request)]
      BY DEF Walks
    <2>2. Len(<<>>) = 0
      OBVIOUS
    <2>3. n = 0 => DOMAIN q = {}
      BY <2>1
    <2>4. n = 0 => ~Precedes(q, <<>>)
      BY <2>3 DEF Precedes
    <2> QED
      BY <2>2, <2>4 DEF NoBetter
  <1>5. QueueOrdered'
    <2>1. \A k \in DOMAIN queue' :
             Least(request', queue'[k].path, Pair'[1], queue'[k].node) /\ queue'[k].node \in visited'
      BY <1>1, <1>2, <1>3, <1>4
    <2>2. \A j, k \in DOMAIN queue' : ~(j < k)
      BY <1>3
    <2> QED
      BY <2>1, <2>2 DEF QueueOrdered
  <1>6. current' = <<>>
    BY <1>1 DEF Ordered
  <1>7. CurrentOrdered'
    BY <1>1, <1>3, <1>6 DEF CurrentOrdered
  <1> QED
    BY <1>1, <1>2, <1>5, <1>7 DEF Ordered

LEMMA ShiftOrdered ==
    ASSUME IInv, Ordered, Shift
    PROVE  Ordered'
  <1>1. /\ queue # <<>> /\ queue' = Tail(queue) /\ phase = "search" /\ phase' = "edges"
        /\ current' = Head(queue) /\ rest' = request.outgoing[Head(queue).node]
        /\ UNCHANGED <<request, visited, answers>>
    BY DEF Shift
  <1>2. AnswersLeast' /\ Pair' = Pair
    BY <1>1, SearchOrdered
  <1>3. queue \in Seq(Entry) /\ IsRequest(request) /\ current \in Entry \cup {<<>>}
    BY DEF IInv, TypeOK
  <1>4. /\ Head(queue) = queue[1] /\ 1 \in DOMAIN queue /\ queue[1] \in Entry /\ DOMAIN queue' \subseteq Nat
        /\ \A k \in DOMAIN queue' : k + 1 \in DOMAIN queue /\ queue'[k] = queue[k + 1] /\ k + 1 > 1
    BY <1>1, <1>3
  <1>5. QueueOrdered /\ CurrentOrdered
    BY <1>1 DEF Ordered
  <1>6. QueueOrdered'
    <2>1. \A k \in DOMAIN queue' :
             Least(request', queue'[k].path, Pair'[1], queue'[k].node) /\ queue'[k].node \in visited'
      BY <1>1, <1>2, <1>4, <1>5 DEF QueueOrdered
    <2>2. ASSUME NEW j \in DOMAIN queue', NEW k \in DOMAIN queue', j < k
          PROVE  Sooner(queue'[j].path, queue'[k].path)
      <3>1. j + 1 < k + 1
        BY <1>4, <2>2
      <3> QED
        BY <1>4, <1>5, <3>1 DEF QueueOrdered
    <2> QED
      BY <2>1, <2>2 DEF QueueOrdered
  <1>7. Least(request', current'.path, Pair'[1], current'.node)
    BY <1>1, <1>2, <1>4, <1>5 DEF QueueOrdered
  <1>8. RestOrdered'
    <2>1. /\ Head(queue).node \in Ids /\ request.outgoing[Head(queue).node] \in Seq(Edge)
      BY <1>3, <1>4 DEF Entry, IsRequest, Request
    <2>2. ASSUME NEW j \in DOMAIN rest', NEW k \in DOMAIN rest', j < k
          PROVE  ~EdgeBefore(rest'[k], rest'[j])
      <3>1. j \in 1..k - 1
        BY <1>1, <2>1, <2>2
      <3> QED
        BY <1>1, <1>3, <2>1, <3>1 DEF IsRequest
    <2> QED
      BY <2>2 DEF RestOrdered
  <1>9. ASSUME NEW k \in DOMAIN queue'
        PROVE  Sooner(current'.path, queue'[k].path) /\ Begotten(queue[k])'
    <2>1. k + 1 \in DOMAIN queue /\ queue'[k] = queue[k + 1] /\ 1 < k + 1
      BY <1>4
    <2>2. Sooner(queue[1].path, queue[k + 1].path)
      BY <1>4, <1>5, <2>1 DEF QueueOrdered
    <2>3. current # <<>> /\ current \in Entry
      BY <1>3, <1>4, <1>5, <2>1 DEF CurrentOrdered
    <2>4. Sooner(current.path, queue[1].path) /\ Begotten(queue[k + 1])
      BY <1>4, <1>5, <2>1, <2>3 DEF CurrentOrdered
    <2>5. PICK p \in Path, e \in Edge :
             /\ queue[k + 1].path = Append(p, e) /\ e.to = queue[k + 1].node
             /\ p = current.path \/ Sooner(p, current.path)
      BY <2>4 DEF Begotten
    <2>6. current.path \in Path /\ queue[1].path \in Path
      BY <1>4, <2>3 DEF Entry
    <2>7. Sooner(p, queue[1].path)
      BY <2>4, <2>5, <2>6, SoonerTransitive
    <2>8. p # queue[1].path
      BY <2>6, <2>7, NotSoonerItself
    <2>9. Begotten(queue[k])'
      BY <1>1, <1>4, <2>1, <2>5, <2>7, <2>8 DEF Begotten
    <2> QED
      BY <1>1, <1>4, <2>1, <2>2, <2>9
  <1>10. current' # <<>>
    BY <1>1, <1>4 DEF Entry
  <1>11. CurrentOrdered'
    BY <1>1, <1>4, <1>7, <1>8, <1>9, <1>10 DEF CurrentOrdered
  <1> QED
    BY <1>1, <1>2, <1>6, <1>11 DEF Ordered

LEMMA SkipEdgeOrdered ==
    ASSUME IInv, Ordered, SkipEdge
    PROVE  Ordered'
  <1>1. /\ phase = "edges" /\ phase' = "edges" /\ rest # <<>> /\ rest' = Tail(rest)
        /\ UNCHANGED <<request, visited, queue, current, answers>>
    BY DEF SkipEdge
  <1>2. AnswersLeast' /\ Pair' = Pair
    BY <1>1, SearchOrdered
  <1>3. QueueOrdered /\ CurrentOrdered
    BY <1>1 DEF Ordered
  <1>4. QueueOrdered'
    BY <1>1, <1>2, <1>3 DEF QueueOrdered
  <1>5. /\ DOMAIN rest' \subseteq Nat
        /\ \A k \in DOMAIN rest' : k + 1 \in DOMAIN rest /\ rest'[k] = rest[k + 1]
    BY <1>1 DEF IInv, TypeOK, Path
  <1>6. RestOrdered'
    <2>1. ASSUME NEW j \in DOMAIN rest', NEW k \in DOMAIN rest', j < k
          PROVE  ~EdgeBefore(rest'[k], rest'[j])
      <3>1. j + 1 < k + 1
        BY <1>5, <2>1
      <3> QED
        BY <1>1, <1>3, <1>5, <3>1 DEF CurrentOrdered, RestOrdered
    <2> QED
      BY <2>1 DEF RestOrdered
  <1>7. \A k \in DOMAIN queue : Begotten(queue[k]) => Begotten(queue[k])'
    BY <1>1, <1>5 DEF Begotten
  <1>8. CurrentOrdered'
    BY <1>1, <1>2, <1>3, <1>6, <1>7 DEF CurrentOrdered
  <1> QED
    BY <1>1, <1>2, <1>4, <1>8 DEF Ordered

LEMMA EndEdgesOrdered ==
    ASSUME IInv, Ordered, EndEdges
    PROVE  Ordered'
  <1>1. /\ phase = "edges" /\ phase' = "search"
        /\ UNCHANGED <<request, visited, queue, current, rest, answers>>
    BY DEF EndEdges
  <1>2. AnswersLeast' /\ Pair' = Pair
    BY <1>1, SearchOrdered
  <1>3. QueueOrdered /\ CurrentOrdered
    BY <1>1 DEF Ordered
  <1>4. QueueOrdered'
    BY <1>1, <1>2, <1>3 DEF QueueOrdered
  <1>5. \A k \in DOMAIN queue : Begotten(queue[k]) => Begotten(queue[k])'
    BY <1>1 DEF Begotten
  <1>6. CurrentOrdered'
    BY <1>1, <1>3, <1>5 DEF CurrentOrdered
  <1> QED
    BY <1>1, <1>2, <1>4, <1>6 DEF Ordered

\* An entry that goes on from the current path came by an edge before the next one.
LEMMA FollowEdgeOrdered ==
    ASSUME IInv, Ordered, FollowEdge
    PROVE  Ordered'
  <1> DEFINE cp == current.path
             e == Head(rest)
             p == Append(cp, e)
  <1>1. /\ phase = "edges" /\ phase' = "edges" /\ rest # <<>> /\ rest' = Tail(rest)
        /\ Followed(e) /\ visited' = visited \cup {e.to}
        /\ queue' = Append(queue, [node |-> e.to, path |-> p])
        /\ UNCHANGED <<request, current, answers>>
    BY DEF FollowEdge, NextEntry
  <1>2. AnswersLeast' /\ Pair' = Pair
    BY <1>1, SearchOrdered
  <1>3. QueueOrdered /\ CurrentOrdered
    BY <1>1 DEF Ordered
  <1>4. /\ current \in Entry /\ current # <<>> /\ rest \in Seq(Edge) /\ queue \in Seq(Entry)
        /\ e.to \notin visited
    <2>1. current \in Entry /\ rest \in Seq(Edge) /\ queue \in Seq(Entry)
      BY <1>1 DEF IInv, TypeOK, Path
    <2>2. current \in Entry => current # <<>>
      BY DEF Entry
    <2> QED
      BY <1>1, <2>1, <2>2 DEF Followed
  <1>5. /\ cp \in Path /\ e \in Edge /\ e = rest[1] /\ 1 \in DOMAIN rest
        /\ DOMAIN rest' \subseteq Nat
        /\ \A k \in DOMAIN rest' : k + 1 \in DOMAIN rest /\ rest'[k] = rest[k + 1] /\ 1 < k + 1
    BY <1>1, <1>4 DEF Entry
  <1>6. Least(request, p, Pair[1], e.to)
    BY <1>1, NextLeast
  <1>7. p \in Path /\ Sooner(cp, p)
    BY <1>5, AppendLater
  <1>8. /\ Len(queue) \in Nat /\ DOMAIN queue = 1..Len(queue) /\ DOMAIN queue' = 1..Len(queue) + 1
        /\ \A k \in DOMAIN queue : queue'[k] = queue[k] /\ queue[k] \in Entry
        /\ queue'[Len(queue) + 1].node = e.to /\ queue'[Len(queue) + 1].path = p
    <2> DEFINE entry == [node |-> e.to, path |-> p]
    <2>1. entry \in Entry /\ entry.node = e.to /\ entry.path = p
      BY <1>5, <1>7 DEF Entry, Edge
    <2> HIDE DEF entry
    <2>2. queue' = Append(queue, entry)
      BY <1>1 DEF entry
    <2> QED
      BY <1>4, <2>1, <2>2
  <1> HIDE DEF p, e, cp
  <1>9. ASSUME NEW k \in DOMAIN queue
        PROVE  Sooner(queue[k].path, p) /\ Begotten(queue[k]) /\ queue[k].node \in visited
    <2>1. Begotten(queue[k]) /\ queue[k].node \in visited
      BY <1>3, <1>4 DEF CurrentOrdered, QueueOrdered
    <2>2. PICK q \in Path, f \in Edge :
             /\ queue[k].path = Append(q, f) /\ f.to = queue[k].node
             /\ q = cp \/ Sooner(q, cp)
             /\ q = cp => \A i \in DOMAIN rest : ~EdgeBefore(rest[i], f)
      BY <1>1, <2>1 DEF Begotten, cp
    <2>3. q = cp => EdgeBefore(f, e)
      BY <1>4, <1>5, <2>1, <2>2, EdgeOrderAssumption
    <2>4. Sooner(Append(q, f), Append(cp, e))
      BY <1>5, <2>2, <2>3, AppendSooner
    <2> QED
      BY <2>1, <2>2, <2>4 DEF p
  <1>10. ASSUME NEW k \in DOMAIN queue' PROVE k \in DOMAIN queue \/ k = Len(queue) + 1
    BY <1>8
  <1>11. QueueOrdered'
    <2>1. ASSUME NEW k \in DOMAIN queue'
          PROVE  Least(request', queue'[k].path, Pair'[1], queue'[k].node) /\ queue'[k].node \in visited'
      <3>1. CASE k \in DOMAIN queue
        BY <1>1, <1>2, <1>3, <1>8, <3>1 DEF QueueOrdered
      <3>2. CASE k = Len(queue) + 1
        BY <1>1, <1>2, <1>6, <1>8, <3>2 DEF e
      <3> QED
        BY <1>10, <3>1, <3>2
    <2>2. ASSUME NEW j \in DOMAIN queue', NEW k \in DOMAIN queue', j < k
          PROVE  Sooner(queue'[j].path, queue'[k].path)
      <3>1. j \in DOMAIN queue
        BY <1>8, <2>2
      <3>2. CASE k \in DOMAIN queue
        BY <1>3, <1>8, <2>2, <3>1, <3>2 DEF QueueOrdered
      <3>3. CASE k = Len(queue) + 1
        BY <1>8, <1>9, <3>1, <3>3
      <3> QED
        BY <1>10, <3>2, <3>3
    <2> QED
      BY <2>1, <2>2 DEF QueueOrdered
  <1>12. RestOrdered' /\ \A k \in DOMAIN rest' : ~EdgeBefore(rest'[k], e)
    <2>1. ASSUME NEW j \in DOMAIN rest', NEW k \in DOMAIN rest', j < k
          PROVE  ~EdgeBefore(rest'[k], rest'[j])
      <3>1. j + 1 < k + 1
        BY <1>5, <2>1
      <3> QED
        BY <1>1, <1>3, <1>5, <3>1 DEF CurrentOrdered, RestOrdered
    <2> QED
      BY <1>1, <1>3, <1>5, <2>1 DEF CurrentOrdered, RestOrdered
  <1>13. ASSUME NEW k \in DOMAIN queue'
         PROVE  Sooner(cp, queue'[k].path) /\ Begotten(queue[k])'
    <2>1. CASE k \in DOMAIN queue
      <3>1. PICK q \in Path, f \in Edge :
               /\ queue[k].path = Append(q, f) /\ f.to = queue[k].node
               /\ q = current.path \/ Sooner(q, current.path)
               /\ q = current.path => \A i \in DOMAIN rest : ~EdgeBefore(rest[i], f)
        BY <1>1, <1>9, <2>1 DEF Begotten
      <3>2. q = current.path => \A i \in DOMAIN rest' : ~EdgeBefore(rest'[i], f)
        BY <1>5, <3>1
      <3>3. Begotten(queue[k])'
        BY <1>1, <1>8, <2>1, <3>1, <3>2 DEF Begotten
      <3> QED
        BY <1>3, <1>4, <1>8, <2>1, <3>3 DEF CurrentOrdered, cp
    <2>2. CASE k = Len(queue) + 1
      <3>1. queue'[k].path = Append(cp, e) /\ e.to = queue'[k].node
        BY <1>8, <2>2 DEF p
      <3>2. Begotten(queue[k])'
        BY <1>1, <1>5, <1>12, <3>1 DEF Begotten, cp
      <3> QED
        BY <1>7, <1>8, <2>2, <3>2
    <2> QED
      BY <1>10, <2>1, <2>2
  <1>14. CurrentOrdered'
    BY <1>1, <1>2, <1>3, <1>4, <1>12, <1>13 DEF CurrentOrdered, cp
  <1> QED
    BY <1>1, <1>2, <1>11, <1>14 DEF Ordered

LEMMA ArriveOrdered ==
    ASSUME IInv, Ordered, Arrive
    PROVE  Ordered'
  <1> DEFINE p == Append(current.path, Head(rest))
  <1>1. /\ phase = "edges" /\ rest # <<>> /\ Followed(Head(rest)) /\ Head(rest).to = Pair[2]
        /\ Answer(p)
    BY DEF Arrive
  <1>2. Least(request, p, Pair[1], Pair[2])
    BY <1>1, NextLeast
  <1>3. current.path \in Path /\ Head(rest) \in Edge
    BY <1>1 DEF IInv, TypeOK, Entry, Path
  <1>4. p \in Path
    BY <1>3, AppendLater
  <1>5. AnswersLeast
    BY DEF Ordered
  <1> HIDE DEF p
  <1> QED
    BY <1>1, <1>2, <1>4, <1>5, AnswerOrdered

\* An empty answer says nothing of paths.
LEMMA EmptyOrdered ==
    ASSUME IInv, Ordered, Answer(<<>>)
    PROVE  Ordered'
  <1>1. AnswersLeast /\ <<>> \in Path
    BY DEF Ordered, Path
  <1> QED
    BY <1>1, AnswerOrdered

-----------------------------------------------------------------------------
\* Every answer was least when it was given, in every behaviour.
LEMMA AlwaysOrdered == Spec => [](IInv /\ Ordered)
  <1>1. Init => Ordered
    BY DEF Init, Ordered, AnswersLeast
  <1>2. IInv /\ Ordered /\ [Next]_vars => Ordered'
    <2> SUFFICES ASSUME IInv, Ordered, [Next]_vars PROVE Ordered'
      OBVIOUS
    <2>1. CASE AnswerTrivially
      BY <2>1, EmptyOrdered DEF AnswerTrivially
    <2>2. CASE Begin
      BY <2>2, BeginOrdered
    <2>3. CASE Shift
      BY <2>3, ShiftOrdered
    <2>4. CASE GiveUp
      BY <2>4, EmptyOrdered DEF GiveUp
    <2>5. CASE SkipEdge
      BY <2>5, SkipEdgeOrdered
    <2>6. CASE Arrive
      BY <2>6, ArriveOrdered
    <2>7. CASE FollowEdge
      BY <2>7, FollowEdgeOrdered
    <2>8. CASE EndEdges
      BY <2>8, EndEdgesOrdered
    <2>9. CASE UNCHANGED vars
      BY <2>9 DEF vars, Ordered, AnswersLeast, QueueOrdered, CurrentOrdered, RestOrdered,
                  Begotten, Pair
    <2> QED
      BY <2>1, <2>2, <2>3, <2>4, <2>5, <2>6, <2>7, <2>8, <2>9 DEF Next
  <1> QED
    BY <1>1, <1>2, Inductive, PTL DEF Spec

\* No answer could have been shorter, nor have taken an earlier edge at the first node
\* where it differs from another path of its length: what is explained depends on the
\* graph alone.  (explainPath, sortEdges)
THEOREM ExplanationsAreLeast == Spec => []LeastOfShortest
  <1>1. ASSUME IInv, Ordered PROVE LeastOfShortest
    <2> SUFFICES ASSUME NEW k \in DOMAIN answers, answers[k] # <<>>
                 PROVE  LET p == answers[k]
                        IN  /\ \A n \in 1..Len(p) - 1 :
                                  PathsOf(request, n, p[1].from, p[Len(p)].to) = {}
                            /\ \A q \in PathsOf(request, Len(p), p[1].from, p[Len(p)].to) :
                                  ~Precedes(q, p)
      BY DEF LeastOfShortest
    <2> DEFINE p == answers[k]
    <2>1. /\ Least(request, p, request.pairs[k][1], request.pairs[k][2])
          /\ p[1].from = request.pairs[k][1] /\ p[Len(p)].to = request.pairs[k][2]
      BY <1>1 DEF Ordered, AnswersLeast, IInv, AnswersExplain, Explains, Leads
    <2>2. Len(p) \in Nat /\ Len(p) > 0
      BY <1>1 DEF IInv, TypeOK, Path
    <2> HIDE DEF p
    <2>3. ASSUME NEW n \in Nat, n > 0, NEW q \in PathsOf(request, n, p[1].from, p[Len(p)].to)
          PROVE  NoBetter(p, q, n)
      <3>1. q \in Walks(request, n, p[1].from, p[Len(p)].to)
        BY <2>3 DEF PathsOf, Walks
      <3> QED
        BY <2>1, <3>1 DEF Least
    <2> QED
      BY <2>2, <2>3 DEF NoBetter, p
  <1> QED
    BY <1>1, AlwaysOrdered, PTL

-----------------------------------------------------------------------------
(***************************************************************************)
(* The dependents of an id, walked for in variables of their own.          *)
(***************************************************************************)
Waiting(id) == \E k \in DOMAIN waiting : waiting[k] = id

AheadBack(id) ==
    /\ step = "edges"
    /\ \E k \in DOMAIN following :
        following[k].from = id /\ following[k].relation \in query.relations

\* An id met on the walk is the target or brings it along.
Met(id) == id = query.target \/ D!DependsOn(id)

OnlyMet ==
    /\ \A id \in seen : Met(id)
    /\ \A k \in DOMAIN waiting : Met(waiting[k])
    /\ step = "edges" =>
        \A k \in DOMAIN following : following[k].relation \in query.relations => Met(following[k].from)

\* The start of an edge to an expanded id is visited, waits to be, or its edge is
\* still to be followed.
NoneForgotten ==
    \A p \in D!EdgePairs(query) :
        p[2] \in seen /\ D!IsExpanded(p[2]) => p[1] \in seen \/ Waiting(p[1]) \/ AheadBack(p[1])

Walk ==
    /\ query.target \in seen \/ Waiting(query.target)
    /\ OnlyMet
    /\ NoneForgotten

WalkInv ==
    /\ D!TypeOK
    /\ step = "start" => seen = {}
    /\ step \in {"walk", "edges"} => Walk
    /\ step # "done" => found = {}
    /\ D!DependentsExact

-----------------------------------------------------------------------------
\* What is reached from an id's successor is reached from the id.
LEMMA ReachBackwards ==
    ASSUME NEW R, NEW p \in R, NEW x, x \in D!Reach({p[2]}, R)
    PROVE  x \in D!Reach({p[1]}, R)
  <1>1. p[2] \in D!Reach({p[1]}, R)
    BY D!ReachHoldsRoots, D!ReachStep
  <1> QED
    BY <1>1, D!ReachTransitive

\* The start of an edge to an expanded id brings the target along.
LEMMA MetBackwards ==
    ASSUME NEW p \in D!EdgePairs(query), Met(p[2]), D!IsExpanded(p[2])
    PROVE  Met(p[1])
  <1>1. CASE query.transitive
    <2>1. query.target \in D!Reach({p[2]}, D!EdgePairs(query))
      BY <1>1, D!ReachHoldsRoots DEF Met, D!DependsOn
    <2> QED
      BY <1>1, <2>1, ReachBackwards DEF Met, D!DependsOn
  <1>2. CASE ~query.transitive
    <2>1. p[2] = query.target /\ p = <<p[1], p[2]>>
      BY <1>2 DEF D!IsExpanded, D!EdgePairs
    <2>2. <<p[1], query.target>> \in D!EdgePairs(query)
      BY <2>1
    <2> QED
      BY <1>2, <2>2 DEF Met, D!DependsOn
  <1> QED
    BY <1>1, <1>2

\* An edge of the relations that is listed with an id pairs the two.
LEMMA IncomingListed ==
    ASSUME query \in D!Request, NEW id \in Ids
    PROVE  /\ query.incoming[id] \in Seq(D!Edge)
           /\ \A k \in DOMAIN query.incoming[id] :
                query.incoming[id][k].relation \in query.relations
                    => <<query.incoming[id][k].from, id>> \in D!EdgePairs(query)
           /\ \A p \in D!EdgePairs(query) :
                p[2] = id => \E k \in DOMAIN query.incoming[id] :
                    /\ query.incoming[id][k].from = p[1]
                    /\ query.incoming[id][k].relation \in query.relations
  <1>1. query.incoming[id] \in Seq(D!Edge)
    BY DEF D!Request
  <1>2. ASSUME NEW k \in DOMAIN query.incoming[id], query.incoming[id][k].relation \in query.relations
        PROVE  <<query.incoming[id][k].from, id>> \in D!EdgePairs(query)
    <2>1. query.incoming[id][k] \in D!Edge
      BY <1>1
    <2> QED
      BY <1>2, <2>1 DEF D!EdgePairs, D!Edge
  <1> QED
    BY <1>1, <1>2 DEF D!EdgePairs

\* What a step takes off a sequence.
LEMMA TailOnly ==
    ASSUME NEW S, NEW s \in Seq(S), s # <<>>
    PROVE  /\ Head(s) \in S /\ Tail(s) \in Seq(S) /\ Head(s) = s[1] /\ 1 \in DOMAIN s
           /\ \A k \in DOMAIN Tail(s) : k + 1 \in DOMAIN s /\ Tail(s)[k] = s[k + 1]
           /\ \A k \in DOMAIN s : s[k] = Head(s) \/ \E j \in DOMAIN Tail(s) : Tail(s)[j] = s[k]
  <1>1. \A k \in DOMAIN s : k = 1 \/ (k - 1 \in DOMAIN Tail(s) /\ Tail(s)[k - 1] = s[k])
    BY HeadTailProperties, LenProperties
  <1>2. /\ Head(s) \in S /\ Tail(s) \in Seq(S) /\ Head(s) = s[1] /\ 1 \in DOMAIN s
        /\ \A k \in DOMAIN Tail(s) : k + 1 \in DOMAIN s /\ Tail(s)[k] = s[k + 1]
    BY HeadTailProperties, LenProperties
  <1>3. \A k \in DOMAIN s : s[k] = Head(s) \/ \E j \in DOMAIN Tail(s) : Tail(s)[j] = s[k]
    BY <1>1, <1>2, Zenon
  <1> QED
    BY <1>2, <1>3

\* Before the answer is given it is not wrong.
LEMMA StillExact ==
    ASSUME step' # "done"
    PROVE  D!DependentsExact'
  BY DEF D!DependentsExact

-----------------------------------------------------------------------------
LEMMA StartKeeps ==
    ASSUME WalkInv, D!Start
    PROVE  WalkInv'
  <1>1. D!TypeOK'
    BY DEF WalkInv, D!TypeOK, D!Start
  <1>2. waiting' = <<query.target>> /\ seen' = {} /\ step' = "walk" /\ query' = query
    BY DEF WalkInv, D!Start
  <1>3. Walk'
    BY <1>2 DEF Walk, OnlyMet, NoneForgotten, Waiting, Met
  <1> QED
    BY <1>1, <1>2, <1>3, StillExact DEF WalkInv, D!Start

LEMMA SkipVisitedKeeps ==
    ASSUME WalkInv, D!SkipVisited
    PROVE  WalkInv'
  <1>1. D!TypeOK /\ Walk /\ waiting \in Seq(Ids) /\ waiting # <<>>
    BY DEF WalkInv, D!TypeOK, D!SkipVisited
  <1>2. D!TypeOK'
    BY <1>1, TailOnly DEF D!TypeOK, D!SkipVisited
  <1>3. \A id : Waiting(id) => id \in seen \/ Waiting(id)'
    BY <1>1, TailOnly DEF Waiting, D!SkipVisited
  <1>4. OnlyMet'
    <2>1. \A x : Met(x)' <=> Met(x)
      BY DEF Met, D!DependsOn, D!SkipVisited
    <2>2. \A k \in DOMAIN Tail(waiting) : k + 1 \in DOMAIN waiting /\ Tail(waiting)[k] = waiting[k + 1]
      BY <1>1, TailOnly
    <2> QED
      BY <1>1, <2>1, <2>2 DEF Walk, OnlyMet, D!SkipVisited
  <1>5. NoneForgotten'
    BY <1>1, <1>3 DEF Walk, NoneForgotten, D!IsExpanded, AheadBack, D!SkipVisited
  <1>6. Walk'
    BY <1>1, <1>3, <1>4, <1>5 DEF Walk, D!SkipVisited
  <1> QED
    BY <1>2, <1>6, StillExact DEF WalkInv, D!SkipVisited

LEMMA VisitKeeps ==
    ASSUME WalkInv, D!Visit
    PROVE  WalkInv'
  <1> DEFINE id == Head(waiting)
  <1>1. /\ D!TypeOK /\ Walk /\ waiting \in Seq(Ids) /\ waiting # <<>> /\ id \in Ids
        /\ query \in D!Request /\ step = "walk"
    BY TailOnly DEF WalkInv, D!TypeOK, D!Visit
  <1>2. /\ query' = query /\ seen' = seen \cup {id} /\ step' = "edges"
        /\ waiting' = Tail(waiting) /\ following' = IF D!IsExpanded(id) THEN query.incoming[id] ELSE <<>>
    BY DEF D!Visit
  <1>3. Met(id)
    BY <1>1, TailOnly DEF Walk, OnlyMet
  <1>4. D!TypeOK'
    BY <1>1, <1>2, TailOnly, IncomingListed DEF D!TypeOK, D!Visit
  <1>5. \A x : Waiting(x) => x = id \/ Waiting(x)'
    BY <1>1, <1>2, TailOnly DEF Waiting
  <1>6. OnlyMet'
    <2>1. \A x : Met(x)' <=> Met(x)
      BY <1>2 DEF Met, D!DependsOn
    <2>2. \A x \in seen' : Met(x)
      BY <1>1, <1>2, <1>3 DEF Walk, OnlyMet
    <2>3. \A k \in DOMAIN waiting' : Met(waiting'[k])
      BY <1>1, <1>2, TailOnly DEF Walk, OnlyMet
    <2>4. ASSUME NEW k \in DOMAIN following', following'[k].relation \in query.relations
          PROVE  Met(following'[k].from)
      <3>1. CASE D!IsExpanded(id)
        <4> DEFINE p == <<following'[k].from, id>>
        <4>1. p \in D!EdgePairs(query) /\ p[1] = following'[k].from /\ p[2] = id
          BY <1>1, <1>2, <2>4, <3>1, IncomingListed
        <4> QED
          BY <1>3, <3>1, <4>1, MetBackwards
      <3>2. CASE ~D!IsExpanded(id)
        BY <1>2, <3>2
      <3> QED
        BY <3>1, <3>2
    <2> QED
      BY <1>2, <2>1, <2>2, <2>3, <2>4 DEF OnlyMet
  <1>7. NoneForgotten'
    <2> SUFFICES ASSUME NEW p \in D!EdgePairs(query), p[2] \in seen', D!IsExpanded(p[2])
                 PROVE  p[1] \in seen' \/ Waiting(p[1])' \/ AheadBack(p[1])'
      BY <1>2 DEF NoneForgotten, D!IsExpanded
    <2>1. CASE p[2] = id
      BY <1>1, <1>2, <2>1, IncomingListed DEF AheadBack
    <2>2. CASE p[2] # id
      BY <1>1, <1>2, <1>5, <2>2 DEF Walk, NoneForgotten, AheadBack
    <2> QED
      BY <2>1, <2>2
  <1>8. Walk'
    BY <1>1, <1>2, <1>5, <1>6, <1>7 DEF Walk
  <1> QED
    BY <1>4, <1>8, StillExact DEF WalkInv, D!Visit

LEMMA SkipBackKeeps ==
    ASSUME WalkInv, D!SkipEdge
    PROVE  WalkInv'
  <1>1. D!TypeOK /\ Walk /\ following \in Seq(D!Edge) /\ following # <<>>
    BY DEF WalkInv, D!TypeOK, D!SkipEdge
  <1>2. D!TypeOK'
    BY <1>1, TailOnly DEF D!TypeOK, D!SkipEdge
  <1>3. OnlyMet'
    <2>1. \A x : Met(x)' <=> Met(x)
      BY DEF Met, D!DependsOn, D!SkipEdge
    <2>2. \A k \in DOMAIN Tail(following) : k + 1 \in DOMAIN following /\ Tail(following)[k] = following[k + 1]
      BY <1>1, TailOnly
    <2> QED
      BY <1>1, <2>1, <2>2 DEF Walk, OnlyMet, D!SkipEdge
  <1>4. \A id : AheadBack(id) => id \in seen \/ AheadBack(id)'
    BY <1>1, TailOnly DEF AheadBack, D!SkipEdge, D!Followed
  <1>5. NoneForgotten'
    BY <1>1, <1>4 DEF Walk, NoneForgotten, D!IsExpanded, Waiting, D!SkipEdge
  <1>6. Walk'
    BY <1>1, <1>3, <1>5 DEF Walk, Waiting, D!SkipEdge
  <1> QED
    BY <1>2, <1>6, StillExact DEF WalkInv, D!SkipEdge

LEMMA FollowBackKeeps ==
    ASSUME WalkInv, D!FollowEdge
    PROVE  WalkInv'
  <1> DEFINE edge == Head(following)
  <1>1. /\ D!TypeOK /\ Walk /\ following \in Seq(D!Edge) /\ following # <<>> /\ waiting \in Seq(Ids)
        /\ step = "edges" /\ edge.relation \in query.relations
    BY DEF WalkInv, D!TypeOK, D!FollowEdge, D!Followed
  <1>2. /\ query' = query /\ seen' = seen /\ step' = "edges"
        /\ waiting' = Append(waiting, edge.from) /\ following' = Tail(following)
    BY <1>1 DEF D!FollowEdge
  <1>3. edge \in D!Edge /\ edge.from \in Ids
    <2>1. edge \in D!Edge
      BY <1>1
    <2> QED
      BY <2>1 DEF D!Edge
  <1>4. D!TypeOK'
    BY <1>1, <1>2, <1>3, TailOnly DEF D!TypeOK, D!FollowEdge
  <1>5. /\ \A k \in DOMAIN waiting : k \in DOMAIN waiting' /\ waiting'[k] = waiting[k]
        /\ \A k \in DOMAIN waiting' : waiting'[k] = edge.from \/ (k \in DOMAIN waiting /\ waiting'[k] = waiting[k])
        /\ \E k \in DOMAIN waiting' : waiting'[k] = edge.from
    <2>1. /\ DOMAIN waiting = 1..Len(waiting) /\ Len(waiting) \in Nat /\ DOMAIN waiting' = 1..Len(waiting) + 1
          /\ waiting'[Len(waiting) + 1] = edge.from /\ \A k \in 1..Len(waiting) : waiting'[k] = waiting[k]
      BY <1>1, <1>2, <1>3
    <2>2. Len(waiting) + 1 \in DOMAIN waiting'
      BY <2>1
    <2>3. \A k \in DOMAIN waiting' : k = Len(waiting) + 1 \/ k \in DOMAIN waiting
      BY <2>1
    <2>4. \A k \in DOMAIN waiting : k \in DOMAIN waiting'
      BY <2>1
    <2> QED
      BY <2>1, <2>2, <2>3, <2>4
  <1>6. \A id : /\ Waiting(id) => Waiting(id)'
                /\ AheadBack(id) => Waiting(id)' \/ AheadBack(id)'
    <2>1. \A k \in DOMAIN following : following[k] = edge \/ \E j \in DOMAIN following' : following'[j] = following[k]
      BY <1>1, <1>2, TailOnly
    <2>2. \A id : Waiting(id) => Waiting(id)'
      BY <1>5 DEF Waiting
    <2>3. \A id : id = edge.from => Waiting(id)'
      BY <1>5 DEF Waiting
    <2>4. \A id : AheadBack(id) => Waiting(id)' \/ AheadBack(id)'
      BY <1>2, <2>1, <2>3 DEF AheadBack
    <2> QED
      BY <2>2, <2>4
  <1>7. OnlyMet'
    <2>1. \A x : Met(x)' <=> Met(x)
      BY <1>2 DEF Met, D!DependsOn
    <2>2. Met(edge.from)
      BY <1>1, TailOnly DEF Walk, OnlyMet
    <2>3. \A k \in DOMAIN waiting' : Met(waiting'[k])
      BY <1>1, <1>5, <2>2 DEF Walk, OnlyMet
    <2>4. \A k \in DOMAIN following' : following'[k].relation \in query.relations => Met(following'[k].from)
      BY <1>1, <1>2, TailOnly DEF Walk, OnlyMet
    <2> QED
      BY <1>1, <1>2, <2>1, <2>3, <2>4 DEF Walk, OnlyMet
  <1>8. NoneForgotten'
    BY <1>1, <1>2, <1>6 DEF Walk, NoneForgotten, D!IsExpanded
  <1>9. Walk'
    BY <1>1, <1>2, <1>6, <1>7, <1>8 DEF Walk
  <1> QED
    BY <1>4, <1>9, StillExact DEF WalkInv, D!FollowEdge

LEMMA EndBackKeeps ==
    ASSUME WalkInv, D!EndEdges
    PROVE  WalkInv'
  <1>1. D!TypeOK /\ Walk
    BY DEF WalkInv, D!EndEdges
  <1>2. D!TypeOK'
    BY <1>1 DEF D!TypeOK, D!EndEdges
  <1>3. OnlyMet'
    BY <1>1 DEF Walk, OnlyMet, Met, D!DependsOn, D!EndEdges
  <1>4. NoneForgotten'
    BY <1>1 DEF Walk, NoneForgotten, D!IsExpanded, Waiting, AheadBack, D!EndEdges
  <1>5. Walk'
    BY <1>1, <1>3, <1>4 DEF Walk, Waiting, D!EndEdges
  <1> QED
    BY <1>2, <1>5, StillExact DEF WalkInv, D!EndEdges

\* An id that was not visited when the queue ran empty reaches only such ids, and the
\* target is not one of them.
LEMMA FinishKeeps ==
    ASSUME WalkInv, D!Finish
    PROVE  WalkInv'
  <1>1. D!TypeOK /\ Walk /\ waiting = <<>> /\ step = "walk" /\ query.target \in Ids
    BY DEF WalkInv, D!TypeOK, D!Finish
  <1>2. D!TypeOK'
    BY <1>1 DEF D!TypeOK, D!Finish
  <1>3. query.target \in seen /\ seen \subseteq Ids
    BY <1>1 DEF Walk, Waiting, D!TypeOK
  <1>4. \A p \in D!EdgePairs(query) : p[2] \in seen /\ D!IsExpanded(p[2]) => p[1] \in seen
    BY <1>1 DEF Walk, NoneForgotten, Waiting, AheadBack
  <1>5. \A id \in seen : id # query.target => D!DependsOn(id)
    BY <1>1 DEF Walk, OnlyMet, Met
  <1>6. ASSUME NEW id \in Ids, D!DependsOn(id)
        PROVE  id \in seen
    <2>1. CASE query.transitive
      <3> DEFINE unseen == {x \in Ids : x \notin seen}
      <3>1. D!Closed(unseen, D!EdgePairs(query))
        BY <1>4, <2>1 DEF D!Closed, D!EdgePairs, D!IsExpanded
      <3>2. id \in unseen => D!Reach({id}, D!EdgePairs(query)) \subseteq unseen
        BY <3>1, D!ReachLeast
      <3>3. query.target \in D!Reach({id}, D!EdgePairs(query))
        BY <1>6, <2>1 DEF D!DependsOn
      <3> QED
        BY <1>3, <3>2, <3>3
    <2>2. CASE ~query.transitive
      BY <1>3, <1>4, <1>6, <2>2 DEF D!DependsOn, D!IsExpanded
    <2> QED
      BY <2>1, <2>2
  <1>7. seen \ {query.target}
            = {id \in Ids : query.target \in Ids /\ id # query.target /\ D!DependsOn(id)}
    BY <1>1, <1>3, <1>5, <1>6
  <1>8. query' = query /\ step' = "done" /\ found' = seen \ {query.target}
    BY DEF D!Finish
  <1>9. \A id : D!DependsOn(id)' <=> D!DependsOn(id)
    BY <1>8 DEF D!DependsOn
  <1>10. D!DependentsExact'
    BY <1>7, <1>8, <1>9 DEF D!DependentsExact
  <1> QED
    BY <1>2, <1>8, <1>10 DEF WalkInv

LEMMA RejectUnknownKeeps ==
    ASSUME WalkInv, D!RejectUnknown
    PROVE  WalkInv'
  <1>1. D!TypeOK' /\ D!DependentsExact' /\ step' = "done"
    BY DEF WalkInv, D!TypeOK, D!DependentsExact, D!RejectUnknown
  <1> QED
    BY <1>1 DEF WalkInv

-----------------------------------------------------------------------------
THEOREM WalkInductive == D!Spec => []WalkInv
  <1>1. D!Init => WalkInv
    <2> SUFFICES ASSUME D!Init PROVE WalkInv
      OBVIOUS
    <2>1. D!TypeOK /\ D!DependentsExact
      BY DEF D!Init, D!TypeOK, D!DependentsExact
    <2> QED
      BY <2>1 DEF D!Init, WalkInv
  <1>2. WalkInv /\ [D!Next]_(D!vars) => WalkInv'
    <2> SUFFICES ASSUME WalkInv, [D!Next]_(D!vars) PROVE WalkInv'
      OBVIOUS
    <2>1. CASE UNCHANGED D!vars
      <3>1. Walk' = Walk
        BY <2>1 DEF D!vars, Walk, OnlyMet, NoneForgotten, Met, D!DependsOn, D!IsExpanded, Waiting, AheadBack
      <3>2. D!TypeOK' = D!TypeOK /\ D!DependentsExact' = D!DependentsExact
        BY <2>1 DEF D!vars, D!TypeOK, D!DependentsExact, D!DependsOn
      <3> QED
        BY <2>1, <3>1, <3>2 DEF D!vars, WalkInv
    <2>2. CASE D!Next
      BY <2>2, RejectUnknownKeeps, StartKeeps, SkipVisitedKeeps, VisitKeeps, SkipBackKeeps,
         FollowBackKeeps, EndBackKeeps, FinishKeeps DEF D!Next
    <2> QED
      BY <2>1, <2>2
  <1> QED
    BY <1>1, <1>2, PTL DEF D!Spec

\* Every state of a search for dependents is well typed.
THEOREM DependentsTyped == D!Spec => []D!TypeOK
  <1>1. WalkInv => D!TypeOK
    BY DEF WalkInv
  <1> QED
    BY <1>1, WalkInductive, PTL

\* Walking backwards from an id finds exactly the ids whose own closure holds it: for
\* every graph getDependents and getTransitiveTargets agree.
THEOREM DependentsAreExact == D!Spec => []DependentsExact
  <1>1. WalkInv => DependentsExact
    BY DEF WalkInv, DependentsExact
  <1> QED
    BY <1>1, WalkInductive, PTL
=============================================================================
