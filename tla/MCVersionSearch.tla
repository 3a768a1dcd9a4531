--------------------------- MODULE MCVersionSearch ---------------------------
(***************************************************************************)
(* Catalogs of up to three versions of A, p, q and x, where version 2 is a *)
(* prerelease, one family per way in which versions of an id can differ.   *)
(***************************************************************************)
EXTENDS VersionSearchReference, TLC

MCIds == {"A", "p", "q", "x"}
MCNames == MCIds \cup {"ghost"}
MCOrder == <<"A", "p", "q", "x">>
MCVersions == 1..3
MCStable == {1, 3}

Releases == {1, 3}

Plain == [dependencies |-> <<>>, providesFor |-> {}, defaultFor |-> {}, members |-> {}]
Provider == [Plain EXCEPT !.providesFor = {"A"}]
Default == [Provider EXCEPT !.defaultFor = {"A"}]
Needs(ranges) == [Plain EXCEPT !.dependencies = ranges]
ProviderNeeding(ranges) == [Provider EXCEPT !.dependencies = ranges]
Group(S) == [Plain EXCEPT !.members = S]

\* The versions 1 and 3 of an id, all of them, one, or none.
Two(one, three) == 1 :> one @@ 3 :> three
Three(one, two, three) == 1 :> one @@ 2 :> two @@ 3 :> three
One(c) == 1 :> c
None == <<>>

Seeded(A, p, q, x, required) ==
    [candidates |-> "A" :> A @@ "p" :> p @@ "q" :> q @@ "x" :> x, required |-> required]

\* Ordinary dependencies with ranges, over a chain and a cycle.
Ordinaries ==
    {Seeded(None, Two(p1, p3), Three(Plain, Plain, q3), Two(x1, x3), required) :
        x1 \in {Plain, Needs("p" :> {1}), Needs("q" :> {1})},
        x3 \in {Needs("p" :> {1}), Needs("p" :> {3}), Needs("p" :> Releases @@ "q" :> {3})},
        p1 \in {Plain, Needs("q" :> {1}), Needs("q" :> {3})},
        p3 \in {Needs("q" :> {1}), Needs("q" :> {2}), Needs("q" :> {3})},
        q3 \in {Plain, Needs("x" :> {1})},
        required \in {"x" :> Releases, "x" :> Releases @@ "q" :> {1, 2}, <<>>}}

\* Versions that differ in being a provider or a default, and what depends on them.
Roles ==
    {Seeded(One(Plain), Two(p1, p3), Two(Provider, q3), Two(x1, x3), required) :
        p1 \in {Plain, Provider, Default},
        p3 \in {Plain, Default, ProviderNeeding("x" :> {1})},
        q3 \in {Provider, Default, ProviderNeeding("x" :> {3}), Plain},
        x1 \in {Plain, Needs("A" :> Releases)},
        x3 \in {Needs("A" :> Releases), Needs("p" :> {3}), Needs("q" :> {1} @@ "A" :> Releases)},
        required \in {"x" :> Releases, "A" :> Releases, "x" :> Releases @@ "p" :> {1}, <<>>}}

\* Versions that differ in what they group.
Groups ==
    {Seeded(One(Plain), Two(p1, Provider), Two(q1, q3), Two(Group(one), Group(three)), required) :
        p1 \in {Provider, Plain},
        q1 \in {Provider, Plain},
        q3 \in {Provider, Needs("p" :> {1}), Needs("x" :> {1})},
        one \in {{}, {"q"}, {"A", "p"}},
        three \in {{"q"}, {"p"}, {"A", "q"}, {"ghost"}},
        required \in {"x" :> Releases, "A" :> Releases @@ "x" :> Releases}}

\* Versions of one shape: the fast path.
Uniforms ==
    {Seeded(One(Plain), Three(p, p, p), Two(q, q), Two(x, x), required) :
        p \in {Provider, Default, ProviderNeeding("q" :> {1})},
        q \in {Plain, Provider, Needs("x" :> {1})},
        x \in {Needs("p" :> {1, 2}), Needs("A" :> Releases @@ "q" :> {1}), Needs("p" :> {2} @@ "q" :> {3})},
        required \in {"x" :> Releases, "x" :> {1} @@ "p" :> {1, 2}, "A" :> Releases @@ "x" :> {3}, <<>>}}

\* What the checks before the search refuse.
Unsound ==
    {Seeded(a, Two(Provider, Provider), None, Two(Plain, x3), required) :
        a \in {None, One(Plain)},
        x3 \in {Plain, Needs("ghost" :> Releases), [Plain EXCEPT !.defaultFor = {"ghost"}]},
        required \in {"q" :> Releases, "x" :> {2}, "x" :> Releases, <<>>}}

MCRequests == Ordinaries \cup Roles \cup Groups \cup Uniforms \cup Unsound
=============================================================================
