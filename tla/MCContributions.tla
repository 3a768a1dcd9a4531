--------------------------- MODULE MCContributions ---------------------------
(***************************************************************************)
(* The owner 1 in two versions, of which the second offers another point,  *)
(* and the contributors 2 and 3.                                           *)
(***************************************************************************)
EXTENDS ContributionContract

MCCapabilities == 1..3
MCReleases == 1..2
MCPoints == 1..2
MCItems == 1..2
MCOrders == 0..1

Nobody == [x \in {} |-> {}]
ToOwner(points) == [o \in {1} |-> points]

Declaration(id, version, points, contributesTo, dependencies) ==
    [id |-> id, version |-> version, points |-> points, contributesTo |-> contributesTo,
     dependencies |-> dependencies]

OwnerVersions == {Declaration(1, 1, {1}, Nobody, Nobody), Declaration(1, 2, {1, 2}, Nobody, Nobody)}
Left(points, required) == Declaration(2, 1, {}, ToOwner(points), required)
Right == Declaration(3, 1, {}, ToOwner({1}), Nobody)

\* Both versions are filled; only the second is, by request; a point one version lacks;
\* two owners that fill each other; a contribution to oneself.
Catalogs ==
    {OwnerVersions \cup {Left({1}, Nobody), Right},
     OwnerVersions \cup {Left({1, 2}, ToOwner({2})), Right},
     OwnerVersions \cup {Left({2}, Nobody), Right},
     {Declaration(1, 1, {1}, [o \in {2} |-> {1}], Nobody), Right,
      Declaration(2, 1, {1}, ToOwner({1}), Nobody)},
     {Declaration(1, 1, {1}, ToOwner({1}), Nobody), Right}}

Selections ==
    {[id \in {1, 2, 3} |-> 1], [id \in {1, 2, 3} |-> IF id = 1 THEN 2 ELSE 1], [id \in {2, 3} |-> 1]}

Module(id, version, kind, points, contributions) ==
    [id |-> id, version |-> version, kind |-> kind, points |-> points, contributions |-> contributions]

Item(id, order) == [id |-> id, order |-> order]
Filling(target, items) == [target |-> target, items |-> items]

First == <<1, 1>>
Second == <<1, 2>>

OwnerModules ==
    {Module(1, v, "returns", points, <<>>) :
        v \in 1..2, points \in {<<>>, <<First>>, <<Second, First>>, <<First, First>>}}
    \cup {Module(1, 1, "returns", <<First>>, <<Filling(<<2, 1>>, <<Item(1, 0)>>)>>)}

LeftModules ==
    {Module(2, 1, "returns", <<>>, contributions) :
        contributions \in {<<>>, <<Filling(First, <<>>)>>, <<Filling(First, <<Item(1, 1), Item(2, 0)>>)>>,
                           <<Filling(Second, <<Item(1, 0)>>), Filling(First, <<Item(1, 0)>>)>>,
                           <<Filling(First, <<Malformed>>)>>}}
    \cup {Module(2, 1, "throws", <<>>, <<>>), Module(2, 1, "promise", <<>>, <<>>),
          Module(2, 1, "returns", <<<<2, 1>>>>, <<Filling(First, <<Item(1, 0)>>)>>),
          Module(2, 1, "returns", <<First>>, <<>>)}

RightModules ==
    {Module(3, v, "returns", <<>>, <<Filling(First, <<item>>)>>) :
        v \in 1..2, item \in {Item(1, 0), Item(2, 0)}}

Handovers(o, l, r) == {<<o, l, r>>, <<r, l, o>>, <<l, r>>, <<l, o, l>>}

\* Sound; an inactive edge to an owner selected since; an edge to a point not offered.
StoredPlans ==
    LET sound == [selected |-> [id \in {1, 2, 3} |-> 1], points |-> {First}, active |-> {<<3, First>>},
                 inactive |-> {}]
    IN  {sound, [sound EXCEPT !.active = {}, !.inactive = {<<3, First>>}], [sound EXCEPT !.points = {}]}

MCInputs ==
    {[catalog |-> c, selected |-> s, stored |-> p, modules |-> m] :
        c \in Catalogs, s \in Selections, p \in {{}},
        m \in UNION {Handovers(o, l, r) : o \in OwnerModules, l \in LeftModules, r \in RightModules}}
    \cup {[catalog |-> {}, selected |-> Nobody, stored |-> {p}, modules |-> m] :
        p \in StoredPlans,
        m \in UNION {Handovers(o, l, r) : o \in OwnerModules, l \in {Module(2, 1, "returns", <<>>, <<>>)},
                                         r \in RightModules}}
=============================================================================
