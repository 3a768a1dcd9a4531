------------------------------ MODULE Workspace ------------------------------
(***************************************************************************)
(* What lies on disk where a composition run reads it, and what the run    *)
(* makes of a package: its source in a snapshot, the candidate its         *)
(* descriptor document normalises to, and when the two belong together.    *)
(*                                                                         *)
(* A document is its id, its version and everything else.  The id may be   *)
(* written with spaces around it, which reading it as a descriptor trims   *)
(* and reading it as a package does not.                                   *)
(***************************************************************************)
EXTENDS Naturals, Sequences, FiniteSets

CONSTANTS
    Roots,         \* the checkouts, the asking one first: sequences of directories
    PackageNames,
    Documents,     \* what a descriptor file can hold
    Basename,      \* the last segment of a directory: the id of a nameless document
    Unset,         \* what a document leaves out
    Nothing        \* no such file

Dirs == UNION {{Roots[k][j] : j \in DOMAIN Roots[k]} : k \in DOMAIN Roots}

\* No directory is listed twice, in a checkout or in two.
ASSUME RootsAssumption ==
    /\ Roots \in Seq(Seq(Dirs)) /\ Roots # <<>>
    /\ \A k, l \in DOMAIN Roots : \A i \in DOMAIN Roots[k], j \in DOMAIN Roots[l] :
        Roots[k][i] = Roots[l][j] => k = l /\ i = j

ASSUME NothingAssumption == Nothing \notin PackageNames /\ Nothing \notin Documents

\* A directory someone is still filling holds a descriptor and no manifest.
Package ==
    [name: PackageNames \cup {Nothing}, document: Documents \cup {Nothing}]

Disk == [Dirs -> Package]

ASSUME DocumentsAssumption ==
    \A doc \in Documents :
        DOMAIN doc = {"id", "padded", "version", "rest"} /\ doc.padded \in BOOLEAN

\* What a snapshot keeps of a package.
Source == [name: PackageNames, dir: Dirs, document: Documents \cup {Nothing}]

Described(sources) == {s \in sources : s.document # Nothing}

\* The identity a package declares, spaces and omissions included.
Declared(document) == <<document.id, document.padded, document.version>>

-----------------------------------------------------------------------------
\* resolveDescriptorId and normalizeDescriptor.
DescriptorId(dir, document) == IF document.id = Unset THEN Basename[dir] ELSE document.id

DescriptorVersion(document) == IF document.version = Unset THEN 0 ELSE document.version

Candidate(dir, document) ==
    [dir |-> dir, document |-> document,
     id |-> DescriptorId(dir, document), version |-> DescriptorVersion(document)]

\* The shared schema requires an id and a version.
Valid(document) == document.id # Unset /\ document.version # Unset

-----------------------------------------------------------------------------
SameId(candidate, source) ==
    source.document # Nothing /\ source.document.id # Unset =>
        source.document.id = candidate.id /\ ~source.document.padded

\* assertPackageSourceMatch: an id read as a package keeps its spaces, and never
\* equals a trimmed one then.
Matches(candidate, source) ==
    /\ source.dir = candidate.dir /\ SameId(candidate, source)
    /\ candidate.version =
        (IF source.document = Nothing THEN 0 ELSE DescriptorVersion(source.document))
=============================================================================
