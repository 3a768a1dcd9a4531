---------------------------- MODULE RuntimeConfig ----------------------------
(***************************************************************************)
(* Runtime configuration as fragments of scopes, joined into one object    *)
(* per visibility and read back by scope.                                  *)
(*                                                                         *)
(* A name (a scope id, a key) is a sequence of pieces: a text no other     *)
(* text of the instance begins with, and the form it is written in,        *)
(*   "low"  in lower case, going on from the piece before it,              *)
(*   "Cap"  with a capital first letter,                                   *)
(*   "CAPS" in capitals,                                                   *)
(*   "sep"  after a separator.                                             *)
(* An object is the sequence of its entries, in the order in which its     *)
(* keys were first assigned.                                               *)
(***************************************************************************)
EXTENDS Integers, Sequences, FiniteSets, Functions

CONSTANTS
    ScopeOrder,   \* the scope ids in the order of localeCompare
    Contexts      \* the ids of contexts

Visibilities == {"public", "private"}

IsName(name) == name \in Seq(Range(name)) /\ name # <<>>

\* The entries of an object are a sequence of keys with values.
IsSection(section) ==
    section \in Seq(Range(section)) /\ \A e \in Range(section) : IsName(e.key)

ASSUME ScopesAssumption ==
    /\ ScopeOrder \in Seq(Range(ScopeOrder))
    /\ \A i, j \in DOMAIN ScopeOrder : ScopeOrder[i] = ScopeOrder[j] => i = j
    /\ \A i \in DOMAIN ScopeOrder : IsName(ScopeOrder[i])
    /\ "none" \notin Contexts

\* The case a name takes in camel case: capitals and a first word lose theirs.
CamelCase(name) ==
    [i \in DOMAIN name |->
        [text |-> name[i].text, form |-> IF i > 1 /\ name[i].form \in {"Cap", "sep"} THEN "Cap" ELSE "low"]]

Separated(key) ==
    [i \in DOMAIN key |-> [text |-> key[i].text, form |-> IF i = 1 THEN "sep" ELSE key[i].form]]

\* The key of a scope's key in the joint object.
Joint(scope, key) == CamelCase(scope \o Separated(key))

\* Whether a joint key begins with a scope, letter by letter, and goes on.
BeginsWith(joint, scope) ==
    Len(scope) < Len(joint) /\ \A i \in DOMAIN scope : joint[i] = CamelCase(scope)[i]

\* Mutated form of Strip: the capital stays.
StripVerbatim(scope, joint) == SubSeq(joint, Len(scope) + 1, Len(joint))

\* What is left of a joint key without the scope it begins with.
Strip(scope, joint) ==
    [i \in 1..Len(joint) - Len(scope) |->
        [text |-> joint[Len(scope) + i].text,
         form |-> IF i = 1 THEN "low" ELSE joint[Len(scope) + i].form]]

-----------------------------------------------------------------------------
\* The elements of a finite set in a total order of it, given by its pairs.
Listing(S, before) ==
    [n \in 1..Cardinality(S) |-> CHOOSE x \in S : Cardinality({y \in S : <<y, x>> \in before}) = n - 1]

Ascending(S) == Listing(S, {p \in S \X S : p[1] < p[2]})

\* The object in front wins.
Over(f, g) == [k \in DOMAIN f \cup DOMAIN g |-> IF k \in DOMAIN f THEN f[k] ELSE g[k]]

\* The last assignment to a key.
LastOf(entries, k) ==
    CHOOSE i \in DOMAIN entries :
        entries[i].key = k /\ \A j \in DOMAIN entries : entries[j].key = k => j <= i

\* What assignments leave: the last value of every key.
Assigned(entries) ==
    [k \in {entries[i].key : i \in DOMAIN entries} |-> entries[LastOf(entries, k)].value]

Firsts(entries) == {i \in DOMAIN entries : \A j \in 1..i - 1 : entries[j].key # entries[i].key}

\* The object they leave, whose keys stand where they were first assigned.
Object(entries) ==
    [n \in DOMAIN Ascending(Firsts(entries)) |->
        LET k == entries[Ascending(Firsts(entries))[n]].key
        IN  [key |-> k, value |-> Assigned(entries)[k]]]

\* The places of the entries of sections by scope: the scope's, and the entry's in it.
Places(sections) ==
    UNION {{i} \X DOMAIN sections[ScopeOrder[i]] : i \in {j \in DOMAIN ScopeOrder : ScopeOrder[j] \in DOMAIN sections}}

\* Scope after scope.
InTurn(places) ==
    Listing(places, {p \in places \X places :
        p[1][1] < p[2][1] \/ (p[1][1] = p[2][1] /\ p[1][2] < p[2][2])})

\* The assignments in their order, each to a joint key.
Assignments(sections) ==
    [n \in DOMAIN InTurn(Places(sections)) |->
        LET scope == ScopeOrder[InTurn(Places(sections))[n][1]]
            e     == sections[scope][InTurn(Places(sections))[n][2]]
        IN  [key |-> Joint(scope, e.key), value |-> e.value]]

\* Sections by scope, joined in the order of the scopes.
Joined(sections) == Object(Assignments(sections))

\* A fragment's section for a context, empty unless it has one.
InContext(fragment, c, v) == IF c \in DOMAIN fragment.contexts THEN fragment.contexts[c][v] ELSE <<>>

ProjectSectioned(fragments, scopes) ==
    LET taken == scopes \cap DOMAIN fragments
    IN  [v \in Visibilities |->
            [values   |-> Joined([s \in taken |-> fragments[s][v]]),
             contexts |-> [c \in Contexts |-> Joined([s \in taken |-> InContext(fragments[s], c, v)])]]]

\* Mutated form of Merge: the host's configuration over the projected one.
MergeUnder(host, projected, privateOutput) ==
    [v \in Visibilities |->
        [projected[v] EXCEPT !.values =
            IF v = "private" /\ privateOutput = "section" THEN @ ELSE Object(@ \o host[v])]]

\* The host's configuration under the projected one. Contexts are one value
\* of it; the host has none.
Merge(host, projected, privateOutput) ==
    [v \in Visibilities |->
        [projected[v] EXCEPT !.values =
            IF v = "private" /\ privateOutput = "section" THEN @ ELSE Object(host[v] \o @)]]

-----------------------------------------------------------------------------
ScopeValues(section, scope) ==
    Assigned([i \in {j \in DOMAIN section : BeginsWith(section[j].key, scope)} |->
                [key |-> Strip(scope, section[i].key), value |-> section[i].value]])

\* The view of a scope, with the values of a context over it if c is one.
ScopeView(runtime, scope, v, c) ==
    IF c \in Contexts
    THEN Over(ScopeValues(runtime[v].contexts[c], scope), ScopeValues(runtime[v].values, scope))
    ELSE ScopeValues(runtime[v].values, scope)

\* The fragment-shaped view of a scope.
FragmentView(runtime, scope) == [v \in Visibilities |-> ScopeView(runtime, scope, v, "none")]

\* The values of one key, as a set of at most one: the context's, else the common one.
Resolve(runtime, scope, key, v, c) ==
    LET held(section) == {section[i].value : i \in {j \in DOMAIN section : section[j].key = Joint(scope, key)}}
        local         == IF c \in Contexts THEN held(runtime[v].contexts[c]) ELSE {}
    IN  IF local # {} THEN local ELSE held(runtime[v].values)
=============================================================================
