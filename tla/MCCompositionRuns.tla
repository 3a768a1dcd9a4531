-------------------------- MODULE MCCompositionRuns --------------------------
(***************************************************************************)
(* A checkout with the directories a and b, joined by one with c.          *)
(***************************************************************************)
EXTENDS CompositionRuns

MCRoots == <<<<"a", "b">>, <<"c">>>>
MCNames == {"@n/1", "@n/2"}
MCBasename == [d \in {"a", "b", "c"} |-> d]

Document(id, version, rest) == [id |-> id, padded |-> FALSE, version |-> version, rest |-> rest]
Padded(document) == [document EXCEPT !.padded = TRUE]

\* An id in two versions, with other contents, and without any identity.
Plain ==
    {Document("x", 1, "r"), Document("x", 1, "s"), Document("x", 2, "r"), Document("x", 0, "r"),
     Document("a", 0, "r"), Document(Unset, Unset, "r")}

MCDocuments == Plain \cup {Padded(d) : d \in Plain}

With(names, documents) == {[name |-> n, document |-> d] : n \in names, d \in documents}

Empty == [name |-> Nothing, document |-> Nothing]

X1 == Document("x", 1, "r")
X2 == Document("x", 2, "r")
Bare == Document(Unset, Unset, "r")

\* The packages "@n/1" in a, "@n/2" in b or nothing there, and "@n/2" in c.
Layout(a, b, c) ==
    [a |-> [name |-> "@n/1", document |-> a], b |-> b, c |-> [name |-> "@n/2", document |-> c]]

InB(document) == [name |-> "@n/2", document |-> document]

\* A name the joined checkout carries too; an identity declared in both; a package
\* without a descriptor; a nameless document, alone and beside one named after it.
MCDisks ==
    {Layout(X1, InB(X2), X1), Layout(X1, Empty, X1), Layout(Nothing, Empty, X2),
     Layout(Bare, Empty, Bare), Layout(Bare, InB(Document("a", 0, "r")), X1)}

\* An id with spaces around it.
PaddedDisks == {Layout(X1, Empty, Padded(X2))}

MCEdits ==
    With({"@n/1", "@n/2"}, {Document("x", 1, "s"), Document("x", 2, "r"), Document("x", 0, "r")})
        \cup With({Nothing}, {Document("x", 1, "r"), Nothing})
=============================================================================
