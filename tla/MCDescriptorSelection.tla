------------------------ MODULE MCDescriptorSelection ------------------------
(***************************************************************************)
(* Requests over a capability A, two providers p and q and a plain         *)
(* descriptor x: settings of everything but the dependencies, each with    *)
(* every set of dependencies up to the number of links it allows.  "ghost" *)
(* is a name no descriptor carries; y takes part in a few requests only.   *)
(***************************************************************************)
EXTENDS CompositionOrigins

Core == {"A", "p", "q", "x"}
MCIds == Core \cup {"y"}
MCNames == MCIds \cup {"ghost"}

UpTo1(S) == {{}} \cup {{e} : e \in S}
UpTo2(S) == {{}} \cup {{e, f} : e, f \in S}
UpTo3(S) == {{}} \cup {{e, f, g} : e, f, g \in S}

Setting(links, enabled, provides, defaults, members, roots) ==
    {[links |-> links, enabled |-> enabled, provides |-> P, defaults |-> F, members |-> M, roots |-> R] :
        P \in provides, F \in defaults, M \in members, R \in roots}

Both == {<<"p", "A">>, <<"q", "A">>}
Memberships == {m \in {"A", "q", "x"} \X (Core \cup {"ghost"}) : m[1] # m[2]}

\* Without groupings; with one membership; with two.
Plain == Setting(3, Core, {Both}, {{}, {<<"p", "A">>}}, {{}},
                 {{}, {"A"}, {"x"}, {"A", "x"}, {"A", "q"}, {"p", "x"}})
Grouped1 == Setting(2, Core, {Both}, {{<<"p", "A">>}}, UpTo1(Memberships) \ {{}}, {{"A"}, {"x"}, {"A", "x"}, {}})
Grouped2 == Setting(1, Core, {Both}, {{<<"p", "A">>}}, UpTo2(Memberships) \ UpTo1(Memberships), {{"A"}, {"x"}, {"A", "x"}})

\* A provider of two capabilities, A and x, beside one of A alone.
Shared == Setting(2, Core, {Both \cup {<<"p", "x">>}},
                  {{<<"p", "A">>}, {<<"q", "A">>}, {<<"p", "x">>, <<"q", "A">>}}, UpTo1({<<"x", "p">>, <<"A", "x">>}),
                  {{"A"}, {"A", "x"}, {"q", "x"}})

\* A disabled descriptor, and metadata the checks refuse.
Restricted ==
    Setting(2, {"A", "p", "q"}, {{<<"p", "A">>}}, {{}, {<<"p", "A">>}, {<<"q", "A">>}}, {{}}, {{"A"}, {"x"}, {"p"}})
    \cup Setting(2, {"p", "q", "x"}, {{<<"p", "A">>}}, {{}, {<<"p", "A">>}}, {{}}, {{"q"}, {"x"}})
    \cup Setting(0, Core, {Both, Both \cup {<<"q", "ghost">>}},
                 {{<<"p", "A">>, <<"q", "A">>}, {<<"x", "A">>}, {}}, {{}}, {{"A"}, {"p", "q"}, {}})

\* Capabilities that provide for another: p, a provider of A, has x for its own provider.
Chained == Setting(2, Core, {Both \cup {<<"x", "p">>}}, {{<<"x", "p">>}, {<<"q", "A">>, <<"x", "p">>}}, {{}},
                   {{"A"}, {"A", "q"}, {"q", "x"}})

\* A set of pairs as a function from ids to the names they are paired with.
Targets(R) == [d \in MCIds |-> {e[2] : e \in {b \in R : b[1] = d}}]

\* A composition's requests: the dependencies of the virtual descriptors V are members.
Virtual(c, V) == [c EXCEPT !.members = [d \in MCIds |-> IF d \in V THEN c.dependencies[d] ELSE {}]]

RequestsIn(settings) ==
    LET links == UpTo3({e \in Core \X Core : e[1] # e[2]})
    IN  {[enabled |-> c[2].enabled, dependencies |-> Targets(c[1]), providesFor |-> Targets(c[2].provides),
          defaultFor |-> Targets(c[2].defaults), members |-> Targets(c[2].members), roots |-> c[2].roots] :
            c \in {b \in links \X settings : Cardinality(b[1]) <= b[2].links}}

Composed == Setting(3, Core, {Both}, {{}, {<<"p", "A">>}}, {{}}, {{"x"}, {"A", "x"}, {"p", "x"}})

\* Choices that bear on each other through a second capability, y, enabled or not:
\* p and x provide A, q provides y.
Crossed ==
    {[enabled |-> enabled, dependencies |-> Targets(L),
      providesFor |-> Targets({<<"p", "A">>, <<"x", "A">>, <<"q", "y">>}),
      defaultFor |-> Targets({<<"p", "A">>, <<"q", "y">>}),
      members |-> Targets({}), roots |-> {"A"}] :
        enabled \in {Core, MCIds},
        L \in SUBSET {<<"A", "y">>, <<"p", "y">>, <<"q", "x">>, <<"x", "y">>, <<"p", "q">>, <<"q", "p">>}}

\* Besides, requests of a composition whose virtual descriptors are x, A or both.
MCSelections ==
    RequestsIn(Plain \cup Grouped1 \cup Grouped2 \cup Shared \cup Restricted \cup Chained)
    \cup Crossed
    \cup {Virtual(c, V) : c \in RequestsIn(Composed), V \in {{"x"}, {"A"}, {"A", "x"}}}

\* For a single question: the plain settings alone.
PlainSelections == RequestsIn(Plain)
=============================================================================
