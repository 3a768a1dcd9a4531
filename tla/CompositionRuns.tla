--------------------------- MODULE CompositionRuns ---------------------------
(***************************************************************************)
(* How a host builds composition runs while others edit the workspace      *)
(* (resolvePackageSources, discoverDescriptors, createCompositionRun,      *)
(* createWorkspaceCompositionRun).  The host reads one file after the      *)
(* other, and an edit may fall between any two reads.                      *)
(*                                                                         *)
(* A run takes its descriptor documents from the package snapshot          *)
(* (createWorkspaceCompositionRun), or reads them again: the files the     *)
(* snapshot listed, or whatever the descriptor pattern matches by then.    *)
(* Snapshots may be shared through a cache.                                *)
(***************************************************************************)
EXTENDS Workspace, Functions

CONSTANTS
    Disks,         \* the workspaces the host may find
    Edits,         \* what an edit can leave in a directory
    MaxEdits,      \* bound: edits while the host works
    MaxRuns        \* bound: runs the host builds

ASSUME RunsAssumption ==
    /\ Disks \subseteq Disk /\ Edits \subseteq Package
    /\ MaxEdits \in Nat /\ MaxRuns \in Nat

VARIABLES
    disk,
    edits,       \* edits made
    runs,        \* runs begun
    run,         \* the run being built
    cache,       \* the cached snapshot, or Nothing
    sealed       \* the finished runs, in order

vars == <<disk, edits, runs, run, cache, sealed>>

Options == [documents: {"snapshot", "listed", "pattern"}, validated: BOOLEAN, cached: BOOLEAN]

Phases == {"idle", "open", "scan", "read", "index", "discover", "documents", "select", "names"}

Failures == {"orphan", "vanished", "name", "identity", "schema", "duplicate", "selection",
             "missing", "mismatch", "none"}

(***************************************************************************)
(* root         the checkout being read                                    *)
(* unseen       its directories not yet looked at                          *)
(* unread       the directories whose files are still to be read           *)
(* manifest     the name read from the manifest at the head of unread      *)
(* found        the sources of the checkout being read                     *)
(* sources      the snapshot                                               *)
(* candidates   the descriptors discovered                                 *)
(* selected     the selected candidates, with their package names          *)
(* unnamed      the selected candidates whose package name is to be read   *)
(***************************************************************************)
Fresh(o) ==
    [options |-> o, phase |-> "open", failure |-> "none",
     root |-> 1, unseen |-> <<>>, unread |-> <<>>, manifest |-> Nothing, found |-> {}, sources |-> {},
     candidates |-> {}, selected |-> {}, unnamed |-> {}]

Idle(o, reason) == [Fresh(o) EXCEPT !.phase = "idle", !.failure = reason]

Names(S) == {s.name : s \in S}
Packages(S) == {e.package : e \in S}

Init ==
    /\ disk \in Disks /\ edits = 0
    /\ runs = 0
    /\ run = Idle([documents |-> "snapshot", validated |-> TRUE, cached |-> FALSE], "none")
    /\ cache = Nothing /\ sealed = <<>>

\* Someone writes or removes a package, at any moment.
Edit(dir, package) ==
    /\ edits < MaxEdits /\ disk[dir] # package
    /\ disk' = [disk EXCEPT ![dir] = package]
    /\ edits' = edits + 1
    /\ UNCHANGED <<runs, run, cache, sealed>>

\* Nothing but the run under construction moves.
Building == UNCHANGED <<disk, edits, runs, cache, sealed>>

\* A refused run leaves nothing behind.
Fail(reason) == run' = Idle(run.options, reason) /\ Building

-----------------------------------------------------------------------------
\* A cached snapshot is taken as it is.
Begin(o) ==
    /\ run.phase = "idle" /\ runs < MaxRuns
    /\ runs' = runs + 1
    /\ run' = IF o.cached /\ cache # Nothing
                THEN [Fresh(o) EXCEPT !.phase = "discover", !.sources = cache]
                ELSE Fresh(o)
    /\ UNCHANGED <<disk, edits, cache, sealed>>

\* discoverRoot: expand the patterns of the checkout to directories.
OpenRoot ==
    /\ run.phase = "open"
    /\ run' = [run EXCEPT !.phase = "scan", !.found = {}, !.unseen = Roots[run.root]]
    /\ Building

\* Keep the directories that hold a manifest; a descriptor without one is an error.
SeeDirectory ==
    /\ run.phase = "scan" /\ run.unseen # <<>>
    /\ LET dir == Head(run.unseen)
       IN  \/ /\ disk[dir].name = Nothing /\ disk[dir].document # Nothing
              /\ Fail("orphan")
           \/ /\ disk[dir].name = Nothing /\ disk[dir].document = Nothing
              /\ run' = [run EXCEPT !.unseen = Tail(@)]
              /\ Building
           \/ /\ disk[dir].name # Nothing
              /\ run' = [run EXCEPT !.unseen = Tail(@), !.unread = Append(@, dir)]
              /\ Building

ReadRoot ==
    /\ run.phase = "scan" /\ run.unseen = <<>>
    /\ run' = [run EXCEPT !.phase = "read"]
    /\ Building

AtManifest == run.phase = "read" /\ run.unread # <<>> /\ run.manifest = Nothing

ReadManifest ==
    /\ AtManifest
    /\ disk[Head(run.unread)].name \notin Names(run.found) \cup {Nothing}
    /\ run' = [run EXCEPT !.manifest = disk[Head(run.unread)].name]
    /\ Building

\* The manifest is gone since the directories were listed, or its name is taken.
RejectManifest ==
    /\ AtManifest
    /\ LET name == disk[Head(run.unread)].name
       IN  \/ name = Nothing /\ Fail("vanished")
           \/ name \in Names(run.found) /\ Fail("name")

\* The descriptor beside the manifest, if there is one by now.
ReadDescriptor ==
    /\ run.phase = "read" /\ run.manifest # Nothing
    /\ LET dir    == Head(run.unread)
           source == [name |-> run.manifest, dir |-> dir, document |-> disk[dir].document]
       IN  run' = [run EXCEPT !.found = @ \cup {source}, !.unread = Tail(@), !.manifest = Nothing]
    /\ Building

\* Mutated form of Joined: a joined checkout is only held against itself.
JoinedAll(snapshot, S) == S

\* The sources of a checkout whose names no earlier checkout carries.
Joined(snapshot, S) == {s \in S : s.name \notin Names(snapshot)}

CloseRoot ==
    /\ run.phase = "read" /\ run.unread = <<>>
    /\ run' = [run EXCEPT !.sources = @ \cup Joined(@, run.found), !.root = @ + 1,
                          !.phase = IF run.root < Len(Roots) THEN "open" ELSE "index"]
    /\ Building

\* Two packages declare the same identity; a document without an id declares none.
Ambiguous(snapshot) ==
    \E s, t \in Described(snapshot) :
        s # t /\ s.document.id # Unset /\ Declared(s.document) = Declared(t.document)

\* The snapshot is complete, and cached for the next run.
Index ==
    /\ run.phase = "index" /\ ~Ambiguous(run.sources)
    /\ run' = [run EXCEPT !.phase = "discover"]
    /\ cache' = IF run.options.cached THEN run.sources ELSE cache
    /\ UNCHANGED <<disk, edits, runs, sealed>>

RejectIndex == run.phase = "index" /\ Ambiguous(run.sources) /\ Fail("identity")

-----------------------------------------------------------------------------
\* Mutated form of FromSnapshot: descriptor files are always read again.
FromSnapshotNever == FALSE

\* createWorkspaceCompositionRun hands over the documents the snapshot read.
FromSnapshot == run.options.documents = "snapshot"

Acceptable(C) == run.options.validated => \A c \in C : Valid(c.document)

DiscoverDocuments ==
    /\ run.phase = "discover" /\ FromSnapshot
    /\ run' = [run EXCEPT !.phase = "select",
                          !.candidates = {Candidate(s.dir, s.document) : s \in Described(run.sources)}]
    /\ Building

\* The descriptor files a pattern matches by now, or those the snapshot listed
\* that are still there.
Matched ==
    {d \in Dirs : /\ disk[d].document # Nothing
                  /\ run.options.documents = "listed" => d \in {s.dir : s \in Described(run.sources)}}

\* One after the other, in the order of their paths, whatever that is.
ListFiles ==
    /\ run.phase = "discover" /\ ~FromSnapshot
    /\ \E files \in Bijection(1..Cardinality(Matched), Matched) :
        run' = [run EXCEPT !.phase = "documents", !.unread = files]
    /\ Building

ReadFile ==
    /\ run.phase = "documents" /\ run.unread # <<>>
    /\ LET dir == Head(run.unread)
       IN  \/ /\ disk[dir].document = Nothing
              /\ Fail("vanished")
           \/ /\ disk[dir].document # Nothing
              /\ run' = [run EXCEPT !.candidates = @ \cup {Candidate(dir, disk[dir].document)},
                                    !.unread = Tail(@)]
              /\ Building

AllRead ==
    /\ run.phase = "documents" /\ run.unread = <<>>
    /\ run' = [run EXCEPT !.phase = "select"]
    /\ Building

-----------------------------------------------------------------------------
\* The same id and version from two places.
Duplicated(C) == \E b, c \in C : b # c /\ b.id = c.id /\ b.version = c.version

\* The sources a candidate's descriptor path leads to.
AtPath(c) == {s \in Described(run.sources) : s.dir = c.dir}

\* What descriptor selection may answer: at most one version of an id.  The package
\* names come from the snapshot where it has the descriptor's path.
Select ==
    /\ run.phase = "select" /\ Acceptable(run.candidates) /\ ~Duplicated(run.candidates)
    /\ \E chosen \in SUBSET run.candidates :
        /\ \A b, c \in chosen : b.id = c.id => b = c
        /\ run' = [run EXCEPT !.phase = "names",
                              !.selected = UNION {{[candidate |-> c, package |-> s.name] : s \in AtPath(c)} :
                                                    c \in chosen},
                              !.unnamed = {c \in chosen : AtPath(c) = {}}]
    /\ Building

RejectCandidates ==
    /\ run.phase = "select"
    /\ \/ ~Acceptable(run.candidates) /\ Fail("schema")
       \/ Acceptable(run.candidates) /\ Duplicated(run.candidates) /\ Fail("duplicate")
       \/ Acceptable(run.candidates) /\ ~Duplicated(run.candidates) /\ Fail("selection")

\* readPackageName: a selected descriptor the snapshot does not list.
NamePackage(c) ==
    /\ run.phase = "names" /\ c \in run.unnamed
    /\ \/ /\ disk[c.dir].name = Nothing
          /\ Fail("vanished")
       \/ /\ disk[c.dir].name # Nothing
          /\ run' = [run EXCEPT !.selected = @ \cup {[candidate |-> c, package |-> disk[c.dir].name]},
                                !.unnamed = @ \ {c}]
          /\ Building

Carrying(package) == {s \in run.sources : s.name = package}

\* Mutated form of Mismatched: only what the run selected is held against its source.
MismatchedSelected ==
    \E e \in run.selected : \E s \in Carrying(e.package) : ~Matches(e.candidate, s)

\* A candidate disagrees with the package source at its path.
Contradicted == \E c \in run.candidates : \E s \in AtPath(c) : ~Matches(c, s)

\* A candidate, or what the run selected, disagrees with its package source.
Mismatched == Contradicted \/ \E e \in run.selected : \E s \in Carrying(e.package) : ~Matches(e.candidate, s)

Missing == \E e \in run.selected : Carrying(e.package) = {}

\* createCompositionRun: from here on the run answers from what it holds.
Seal ==
    /\ run.phase = "names" /\ run.unnamed = {} /\ ~Missing /\ ~Mismatched
    /\ run' = Idle(run.options, "none")
    /\ sealed' = Append(sealed, [options |-> run.options, sources |-> run.sources,
                                 candidates |-> run.candidates, selected |-> run.selected])
    /\ UNCHANGED <<disk, edits, runs, cache>>

RejectSources ==
    /\ run.phase = "names" /\ run.unnamed = {}
    /\ \/ Mismatched /\ Fail("mismatch")
       \/ ~Contradicted /\ Missing /\ Fail("missing")

Host ==
    \/ \E o \in Options : Begin(o)
    \/ OpenRoot \/ SeeDirectory \/ ReadRoot
    \/ ReadManifest \/ RejectManifest \/ ReadDescriptor \/ CloseRoot
    \/ Index \/ RejectIndex
    \/ DiscoverDocuments \/ ListFiles \/ ReadFile \/ AllRead
    \/ Select \/ RejectCandidates \/ \E c \in run.unnamed : NamePackage(c)
    \/ Seal \/ RejectSources

Next == Host \/ \E d \in Dirs, package \in Edits : Edit(d, package)

Spec == Init /\ [][Next]_vars

-----------------------------------------------------------------------------
Candidates == {Candidate(d, doc) : d \in Dirs, doc \in Documents}

Selections == SUBSET [candidate: Candidates, package: PackageNames]

Run ==
    [options: Options, phase: Phases, failure: Failures, root: 1..(Len(Roots) + 1),
     unseen: Seq(Dirs), unread: Seq(Dirs), manifest: PackageNames \cup {Nothing},
     found: SUBSET Source, sources: SUBSET Source, candidates: SUBSET Candidates,
     selected: Selections, unnamed: SUBSET Candidates]

\* What is left of a run that was sealed.
Answer ==
    [options: Options, sources: SUBSET Source, candidates: SUBSET Candidates, selected: Selections]

TypeOK ==
    /\ disk \in Disk /\ edits \in 0..MaxEdits /\ runs \in 0..MaxRuns
    /\ run \in Run
    /\ cache # Nothing => cache \subseteq Source
    /\ sealed \in Seq(Answer) /\ Len(sealed) <= runs

\* No two sources share their name or their directory.
Distinct(S) == \A s, t \in S : s # t => s.name # t.name /\ s.dir # t.dir

Unambiguous(snapshot) == Distinct(snapshot) /\ ~Ambiguous(snapshot)

\* A snapshot a run goes on with, a cached one above all, holds no package name and
\* no declared identity twice, whatever was edited while it was read, and a joined
\* checkout never redefines a name of an earlier one.
\* (discoverRoot, resolvePackageSources)
SnapshotsUnambiguous ==
    /\ cache # Nothing => Unambiguous(cache)
    /\ \A k \in DOMAIN sealed : Unambiguous(sealed[k].sources)

\* What a sealed run selected are different packages of its snapshot, and no candidate
\* at the path of a source has another version than the source, or another id where
\* the source declares one: whatever was edited between the two readings.
\* (createCompositionRun; README.md:175-177 of capability-composition)
SealedRunsAgree ==
    \A k \in DOMAIN sealed :
        LET answer == sealed[k]
        IN  /\ \A e, f \in answer.selected : e # f => e.package # f.package
            /\ Packages(answer.selected) \subseteq Names(answer.sources)
            /\ \A c \in answer.candidates, s \in Described(answer.sources) :
                c.dir = s.dir => /\ s.document.id \in {Unset, c.id}
                                 /\ c.version = DescriptorVersion(s.document)

\* A workspace run holds the very documents its package sources were read with, all of
\* them and no other, however the files were edited since.
\* (createWorkspaceCompositionRun; README.md:151-153 of capability-composition: "No
\* second descriptor-file read occurs.")
WorkspaceRunsWhole ==
    \A k \in DOMAIN sealed :
        sealed[k].options.documents = "snapshot" =>
            {<<c.dir, c.document>> : c \in sealed[k].candidates}
                = {<<s.dir, s.document>> : s \in Described(sealed[k].sources)}

\* A run that takes its documents from its own snapshot is never told that the two do
\* not belong together.  (assertPackageSourceMatch: "Create the package snapshot and
\* composition as one workspace run.")
WorkspaceRunsMatch ==
    run.options.documents = "snapshot" => run.failure \notin {"mismatch", "missing"}
=============================================================================
