----------------------- MODULE CompositionRunsProofs -----------------------
(***************************************************************************)
(* Wherever an edit falls between two reads of the host, the snapshots it  *)
(* goes on with name no package and no identity twice, and the runs it     *)
(* seals contradict none of their sources.                                 *)
(*                                                                         *)
(* The second part is about what a sealed run is for: whatever calls fail, *)
(* overlap or are made again, the registries of its surfaces hold what the *)
(* modules bring, in the modules' order.                                   *)
(***************************************************************************)
EXTENDS CompositionRuns, SurfaceComposition, Reachability, SequenceTheorems, FiniteSetTheorems, TLAPS

\* No entry comes twice.
Once(q) == \A i, j \in DOMAIN q : q[i] = q[j] => i = j

\* While the directories of a checkout are listed, the seen and the unseen ones are apart.
Listing ==
    run.phase = "scan" =>
        /\ run.found = {}
        /\ Once(run.unread) /\ Once(run.unseen)
        /\ Range(run.unread) \cap Range(run.unseen) = {}
        /\ Range(run.unread) \cup Range(run.unseen) \subseteq Range(Roots[run.root])

\* While they are read, none is read twice, and no name is found twice.
Reading ==
    run.phase = "read" =>
        /\ Once(run.unread) /\ Range(run.unread) \subseteq Range(Roots[run.root])
        /\ Distinct(run.found)
        /\ \A s \in run.found : s.dir \in Range(Roots[run.root]) \ Range(run.unread)
        /\ run.manifest # Nothing => run.unread # <<>> /\ run.manifest \notin Names(run.found)

\* The snapshot so far comes from the checkouts before, and is whole in the end.
Collecting ==
    /\ run.phase \in {"open", "scan", "read"} =>
        /\ run.root <= Len(Roots)
        /\ \A s \in run.sources : \E k \in 1..(run.root - 1) : s.dir \in Range(Roots[k])
    /\ run.phase \in {"open", "index", "discover"} => run.unread = <<>>
    /\ run.phase # "read" => run.manifest = Nothing
    /\ Distinct(run.sources)
    /\ run.phase \in {"discover", "documents", "select", "names"} => ~Ambiguous(run.sources)

\* No descriptor file gives two candidates, and what is selected is among them.
Discovering ==
    /\ run.phase \in {"open", "scan", "read", "index", "discover"} => run.candidates = {}
    /\ \A b, c \in run.candidates : b.dir = c.dir => b = c
    /\ run.phase = "documents" =>
        /\ run.options.documents # "snapshot"
        /\ Once(run.unread)
        /\ \A c \in run.candidates : c.dir \notin Range(run.unread)
    /\ run.phase = "names" =>
        /\ run.unnamed \subseteq run.candidates
        /\ \A e \in run.selected : e.candidate \in run.candidates

\* The candidates of a workspace run are the documents of its snapshot.
FromSources(candidates, sources) ==
    candidates = {Candidate(s.dir, s.document) : s \in Described(sources)}

Handing ==
    run.phase \in {"select", "names"} /\ run.options.documents = "snapshot" =>
        FromSources(run.candidates, run.sources)

\* What holds of the run being built, and of nothing else.
UnderConstruction == Listing /\ Reading /\ Collecting /\ Discovering /\ Handing

\* What holds of what the host keeps.
Kept == SnapshotsUnambiguous /\ SealedRunsAgree /\ WorkspaceRunsWhole

IInv ==
    /\ TypeOK
    /\ run.phase # "idle" => Len(sealed) < runs
    /\ UnderConstruction /\ Kept

-----------------------------------------------------------------------------
LEMMA TailOnce ==
    ASSUME NEW S, NEW q \in Seq(S), q # <<>>, Once(q)
    PROVE  /\ Head(q) \in S /\ Head(q) \in Range(q)
           /\ Tail(q) \in Seq(S) /\ Once(Tail(q))
           /\ Range(Tail(q)) \subseteq Range(q) \ {Head(q)}
  <1>1. /\ Len(q) \in Nat \ {0} /\ DOMAIN q = 1..Len(q)
        /\ Head(q) = q[1] /\ Head(q) \in S
    BY EmptySeq, LenProperties, HeadTailProperties
  <1>2. /\ Tail(q) \in Seq(S) /\ DOMAIN Tail(q) = 1..(Len(q) - 1)
        /\ \A i \in 1..(Len(q) - 1) : Tail(q)[i] = q[i + 1]
    BY HeadTailProperties, LenProperties
  <1>3. Once(Tail(q))
    BY <1>1, <1>2 DEF Once
  <1>4. Range(Tail(q)) \subseteq Range(q) \ {Head(q)}
    BY <1>1, <1>2 DEF Range, Once
  <1>5. Head(q) \in Range(q)
    BY <1>1 DEF Range
  <1> QED
    BY <1>1, <1>2, <1>3, <1>4, <1>5

LEMMA AppendOnce ==
    ASSUME NEW S, NEW q \in Seq(S), NEW d \in S, Once(q), d \notin Range(q)
    PROVE  /\ Append(q, d) \in Seq(S) /\ Once(Append(q, d))
           /\ Range(Append(q, d)) = Range(q) \cup {d}
  <1>1. /\ Len(q) \in Nat /\ DOMAIN q = 1..Len(q)
        /\ Append(q, d) \in Seq(S) /\ DOMAIN Append(q, d) = 1..(Len(q) + 1)
        /\ \A i \in 1..Len(q) : Append(q, d)[i] = q[i]
        /\ Append(q, d)[Len(q) + 1] = d
    BY LenProperties, AppendProperties
  <1>2. \A i \in 1..(Len(q) + 1) : i \in 1..Len(q) \/ i = Len(q) + 1
    BY <1>1
  <1>3. Once(Append(q, d))
    BY <1>1, <1>2 DEF Once, Range
  <1>4. Range(Append(q, d)) = Range(q) \cup {d}
    BY <1>1, <1>2 DEF Range
  <1> QED
    BY <1>1, <1>3, <1>4

\* A list of a set, each element once.
LEMMA BijectionOnce ==
    ASSUME NEW S, NEW n \in Nat, NEW q \in Bijection(1..n, S)
    PROVE  q \in Seq(S) /\ Once(q)
  <1>1. q \in [1..n -> S] /\ \A i, j \in 1..n : q[i] = q[j] => i = j
    BY DEF Bijection, Injection, IsInjective
  <1> QED
    BY <1>1, SeqDef DEF Once

\* The directories of a checkout, which no other checkout has.
LEMMA RootDirs ==
    ASSUME NEW k \in 1..Len(Roots)
    PROVE  /\ Roots[k] \in Seq(Dirs) /\ Once(Roots[k])
           /\ \A l \in 1..Len(Roots) : l # k => Range(Roots[k]) \cap Range(Roots[l]) = {}
  <1>1. DOMAIN Roots = 1..Len(Roots)
    BY RootsAssumption, LenProperties
  <1>2. Roots[k] \in Seq(Dirs)
    BY RootsAssumption, ElementOfSeq
  <1>3. Once(Roots[k])
    BY <1>1, RootsAssumption DEF Once
  <1>4. ASSUME NEW l \in 1..Len(Roots), l # k
        PROVE  Range(Roots[k]) \cap Range(Roots[l]) = {}
    <2>1. \A i \in DOMAIN Roots[k], j \in DOMAIN Roots[l] : Roots[k][i] # Roots[l][j]
      BY <1>1, <1>4, RootsAssumption
    <2> QED
      BY <2>1 DEF Range
  <1> QED
    BY <1>2, <1>3, <1>4

LEMMA RootCount == Len(Roots) \in Nat \ {0}
  BY RootsAssumption, EmptySeq

\* The finished runs stay as they are unless one is added.
LEMMA KeptSame ==
    ASSUME Kept, cache' = cache, sealed' = sealed
    PROVE  Kept'
  BY DEF Kept, SnapshotsUnambiguous, SealedRunsAgree, WorkspaceRunsWhole

\* So does the run being built when nothing moves it.
LEMMA SameRun ==
    ASSUME UnderConstruction, run' = run
    PROVE  UnderConstruction'
  <1>1. Listing'
    BY DEF UnderConstruction, Listing, Once, Range
  <1>2. Reading'
    <2>1. (run.phase = "read")' => Once(run.unread)' /\ Distinct(run.found)'
      BY DEF UnderConstruction, Reading, Once, Distinct
    <2>2. run'.phase = "read" =>
            /\ Range(run'.unread) \subseteq Range(Roots[run'.root])
            /\ \A s \in run'.found : s.dir \in Range(Roots[run'.root]) \ Range(run'.unread)
            /\ run'.manifest # Nothing => run'.unread # <<>> /\ run'.manifest \notin Names(run'.found)
      BY DEF UnderConstruction, Reading
    <2> QED
      BY <2>1, <2>2 DEF Reading, Range, Names
  <1>3. Collecting'
    BY DEF UnderConstruction, Collecting, Range, Distinct, Ambiguous, Described
  <1>4. Discovering'
    BY DEF UnderConstruction, Discovering, Once, Range
  <1>5. Handing'
    BY DEF UnderConstruction, Handing, FromSources, Described
  <1> QED
    BY <1>1, <1>2, <1>3, <1>4, <1>5 DEF UnderConstruction

-----------------------------------------------------------------------------
\* A run that begins, and one that is not there.
LEMMA FreshRun ==
    ASSUME NEW o \in Options
    PROVE  /\ Fresh(o) \in Run
           /\ \A reason \in Failures :
                /\ Idle(o, reason) \in Run /\ Idle(o, reason).phase = "idle"
                /\ Idle(o, reason).sources = {} /\ Idle(o, reason).candidates = {}
                /\ Idle(o, reason).manifest = Nothing
  <1>1. /\ <<>> \in Seq(Dirs) /\ 1 \in 1..(Len(Roots) + 1)
        /\ {} \in Selections /\ "open" \in Phases /\ "idle" \in Phases /\ "none" \in Failures
    BY EmptySeq, RootCount DEF Selections, Phases, Failures
  <1>2. Fresh(o) \in Run
    BY <1>1 DEF Fresh, Run
  <1> QED
    BY <1>1, <1>2 DEF Idle, Fresh, Run

LEMMA InitIInv == Init => IInv
  <1> SUFFICES ASSUME Init
               PROVE  IInv
    OBVIOUS
  <1>1. run \in Run
    BY FreshRun DEF Init, Options, Failures
  <1>2. TypeOK
    <2>1. disk \in Disk /\ edits \in 0..MaxEdits /\ runs \in 0..MaxRuns
      BY RunsAssumption DEF Init
    <2>2. sealed \in Seq(Answer) /\ Len(sealed) <= runs
      BY EmptySeq DEF Init
    <2> QED
      BY <1>1, <2>1, <2>2 DEF TypeOK, Init
  <1>3. run.phase = "idle" /\ run.sources = {} /\ run.candidates = {} /\ run.manifest = Nothing
    BY DEF Init, Idle, Fresh
  <1>4. UnderConstruction
    BY <1>3 DEF UnderConstruction, Listing, Reading, Collecting, Discovering, Handing, Distinct
  <1>5. Kept
    BY DEF Init, Kept, SnapshotsUnambiguous, SealedRunsAgree, WorkspaceRunsWhole
  <1> QED
    BY <1>2, <1>3, <1>4, <1>5 DEF IInv

\* A step that moves nothing but the run, and keeps it busy.
LEMMA BuildingStep ==
    ASSUME IInv, Building, run.phase # "idle", run' \in Run, UnderConstruction'
    PROVE  IInv'
  <1>1. TypeOK'
    BY DEF IInv, TypeOK, Building
  <1>2. Kept'
    BY KeptSame DEF IInv, Building
  <1> QED
    BY <1>1, <1>2 DEF IInv, Building

LEMMA FailStep ==
    ASSUME IInv, NEW reason \in Failures, Fail(reason)
    PROVE  IInv'
  <1>1. run' \in Run /\ run'.phase = "idle" /\ run'.sources = {} /\ run'.candidates = {}
        /\ run'.manifest = Nothing
    <2>1. run.options \in Options
      BY DEF IInv, TypeOK, Run
    <2> QED
      BY <2>1, FreshRun DEF Fail
  <1>2. UnderConstruction'
    BY <1>1 DEF UnderConstruction, Listing, Reading, Collecting, Discovering, Handing, Distinct
  <1>3. TypeOK'
    BY <1>1 DEF IInv, TypeOK, Fail, Building
  <1>4. Kept'
    BY KeptSame DEF IInv, Fail, Building
  <1> QED
    BY <1>1, <1>2, <1>3, <1>4 DEF IInv, Fail, Building

-----------------------------------------------------------------------------
LEMMA BeginStep ==
    ASSUME IInv, NEW o \in Options, Begin(o)
    PROVE  IInv'
  <1>1. /\ runs' = runs + 1 /\ runs \in Nat /\ runs' \in 0..MaxRuns
        /\ disk' = disk /\ edits' = edits /\ cache' = cache /\ sealed' = sealed
        /\ Len(sealed) <= runs /\ Len(sealed) \in Nat
    BY RunsAssumption, LenProperties DEF IInv, TypeOK, Begin
  <1>2. CASE o.cached /\ cache # Nothing
    <2>1. run' = [Fresh(o) EXCEPT !.phase = "discover", !.sources = cache]
      BY <1>2 DEF Begin
    <2>2. cache \subseteq Source /\ Distinct(cache) /\ ~Ambiguous(cache)
      BY <1>2 DEF IInv, TypeOK, Kept, SnapshotsUnambiguous, Unambiguous
    <2>3. run' \in Run
      <3>1. cache \in SUBSET Source /\ "discover" \in Phases
        BY <2>2 DEF Phases
      <3>2. ASSUME NEW begun \in Run
            PROVE  [begun EXCEPT !.phase = "discover", !.sources = cache] \in Run
        BY <3>1 DEF Run
      <3> QED
        BY <2>1, <3>2, FreshRun
    <2>4. /\ run'.phase = "discover" /\ run'.sources = cache /\ run'.unread = <<>>
          /\ run'.manifest = Nothing /\ run'.candidates = {}
      BY <2>1 DEF Fresh
    <2>5. UnderConstruction'
      BY <2>2, <2>4 DEF UnderConstruction, Listing, Reading, Collecting, Discovering, Handing,
                        Distinct, Ambiguous
    <2> QED
      BY <1>1, <2>3, <2>5, KeptSame DEF IInv, TypeOK
  <1>3. CASE ~(o.cached /\ cache # Nothing)
    <2>1. run' = Fresh(o)
      BY <1>3 DEF Begin
    <2>2. run' \in Run
      BY <2>1, FreshRun
    <2>3. /\ run'.phase = "open" /\ run'.sources = {} /\ run'.unread = <<>> /\ run'.root = 1
          /\ run'.manifest = Nothing /\ run'.candidates = {}
      BY <2>1 DEF Fresh
    <2>4. UnderConstruction'
      BY <2>3, RootCount DEF UnderConstruction, Listing, Reading, Collecting, Discovering, Handing,
                             Distinct
    <2> QED
      BY <1>1, <2>2, <2>4, KeptSame DEF IInv, TypeOK
  <1> QED
    BY <1>2, <1>3

LEMMA OpenRootStep ==
    ASSUME IInv, OpenRoot
    PROVE  IInv'
  <1>1. /\ run \in Run /\ run.phase = "open" /\ run.root \in 1..Len(Roots)
        /\ run' = [run EXCEPT !.phase = "scan", !.found = {}, !.unseen = Roots[run.root]]
    BY RootCount DEF IInv, TypeOK, Run, OpenRoot, UnderConstruction, Collecting
  <1>2. Roots[run.root] \in Seq(Dirs) /\ Once(Roots[run.root])
    BY <1>1, RootDirs
  <1>3. run' \in Run
    BY <1>1, <1>2 DEF Run, Phases
  <1>4. Collecting /\ Discovering /\ run.unread = <<>> /\ run.manifest = Nothing
    BY <1>1 DEF IInv, UnderConstruction, Collecting
  <1>5. /\ run'.phase = "scan" /\ run'.found = {} /\ run'.unseen = Roots[run.root]
        /\ run'.unread = run.unread /\ run'.root = run.root /\ run'.sources = run.sources
        /\ run'.manifest = run.manifest /\ run'.candidates = run.candidates
    BY <1>1 DEF Run
  <1>6. Listing'
    <2>1. DOMAIN run'.unread = {}
      BY <1>4, <1>5
    <2> QED
      BY <1>2, <1>5, <2>1 DEF Listing, Once, Range
  <1>7. Collecting' /\ Discovering' /\ Reading' /\ Handing'
    BY <1>1, <1>4, <1>5 DEF Collecting, Discovering, Reading, Handing, Distinct
  <1> QED
    BY <1>1, <1>3, <1>6, <1>7, BuildingStep DEF UnderConstruction, OpenRoot

LEMMA SeeDirectoryStep ==
    ASSUME IInv, SeeDirectory
    PROVE  IInv'
  <1>1. run \in Run /\ run.phase = "scan" /\ run.unseen # <<>> /\ Listing /\ Collecting /\ Discovering
    BY DEF IInv, TypeOK, SeeDirectory, UnderConstruction
  <1> DEFINE dir == Head(run.unseen)
  <1>2. /\ run.unseen \in Seq(Dirs) /\ run.unread \in Seq(Dirs)
        /\ Once(run.unread) /\ Once(run.unseen)
    BY <1>1 DEF Run, Listing
  <1>3. /\ dir \in Dirs /\ dir \in Range(run.unseen)
        /\ Tail(run.unseen) \in Seq(Dirs) /\ Once(Tail(run.unseen))
        /\ Range(Tail(run.unseen)) \subseteq Range(run.unseen) \ {dir}
    BY <1>1, <1>2, TailOnce
  <1>4. CASE Fail("orphan")
    BY <1>4, FailStep DEF Failures
  <1>5. CASE run' = [run EXCEPT !.unseen = Tail(@)] /\ Building
    <2>1. run' \in Run
      BY <1>1, <1>3, <1>5 DEF Run
    <2>2. /\ run'.phase = "scan" /\ run'.found = run.found /\ run'.unseen = Tail(run.unseen)
          /\ run'.unread = run.unread /\ run'.root = run.root /\ run'.sources = run.sources
          /\ run'.manifest = run.manifest /\ run'.candidates = run.candidates
      BY <1>1, <1>5 DEF Run
    <2>3. Listing'
      <3>1. Once(run.unread)' /\ Once(run.unseen)'
        BY <1>2, <1>3, <2>2 DEF Once
      <3>2. /\ Range(run'.unread) = Range(run.unread)
            /\ Range(run'.unseen) \subseteq Range(run.unseen)
        BY <1>3, <2>2
      <3>3. /\ Range(run'.unread) \cap Range(run'.unseen) = {}
            /\ Range(run'.unread) \cup Range(run'.unseen) \subseteq Range(Roots[run'.root])
        BY <1>1, <2>2, <3>2 DEF Listing
      <3> QED
        BY <1>1, <2>2, <3>1, <3>3 DEF Listing, Range
    <2>4. Collecting' /\ Discovering' /\ Reading' /\ Handing'
      BY <1>1, <2>2 DEF Collecting, Discovering, Reading, Handing, Distinct
    <2> QED
      BY <1>1, <1>5, <2>1, <2>3, <2>4, BuildingStep DEF UnderConstruction
  <1>6. CASE run' = [run EXCEPT !.unseen = Tail(@), !.unread = Append(@, dir)] /\ Building
    <2>1. dir \notin Range(run.unread)
      BY <1>1, <1>3 DEF Listing
    <2>2. /\ Append(run.unread, dir) \in Seq(Dirs) /\ Once(Append(run.unread, dir))
          /\ Range(Append(run.unread, dir)) = Range(run.unread) \cup {dir}
      BY <1>2, <1>3, <2>1, AppendOnce
    <2>3. run' \in Run
      BY <1>1, <1>3, <1>6, <2>2 DEF Run
    <2>4. /\ run'.phase = "scan" /\ run'.found = run.found /\ run'.unseen = Tail(run.unseen)
          /\ run'.unread = Append(run.unread, dir) /\ run'.root = run.root
          /\ run'.sources = run.sources
          /\ run'.manifest = run.manifest /\ run'.candidates = run.candidates
      BY <1>1, <1>6 DEF Run
    <2>5. Listing'
      <3>1. Once(run.unread)' /\ Once(run.unseen)'
        BY <1>3, <2>2, <2>4 DEF Once
      <3>2. /\ Range(run'.unread) = Range(run.unread) \cup {dir}
            /\ Range(run'.unseen) \subseteq Range(run.unseen) \ {dir}
        BY <1>3, <2>2, <2>4
      <3>3. /\ Range(run'.unread) \cap Range(run'.unseen) = {}
            /\ Range(run'.unread) \cup Range(run'.unseen) \subseteq Range(Roots[run'.root])
        BY <1>1, <1>3, <2>4, <3>2 DEF Listing
      <3> QED
        BY <1>1, <2>4, <3>1, <3>3 DEF Listing, Range
    <2>6. Collecting' /\ Discovering' /\ Reading' /\ Handing'
      BY <1>1, <2>4 DEF Collecting, Discovering, Reading, Handing, Distinct
    <2> QED
      BY <1>1, <1>6, <2>3, <2>5, <2>6, BuildingStep DEF UnderConstruction
  <1> QED
    BY <1>4, <1>5, <1>6 DEF SeeDirectory

LEMMA ReadRootStep ==
    ASSUME IInv, ReadRoot
    PROVE  IInv'
  <1>1. /\ run \in Run /\ run.phase = "scan" /\ Listing /\ Collecting /\ Discovering
        /\ run' = [run EXCEPT !.phase = "read"]
    BY DEF IInv, TypeOK, ReadRoot, UnderConstruction
  <1>2. run' \in Run
    BY <1>1 DEF Run, Phases
  <1>3. /\ run'.phase = "read" /\ run'.found = run.found
        /\ run'.unread = run.unread /\ run'.root = run.root /\ run'.sources = run.sources
        /\ run'.manifest = run.manifest /\ run'.candidates = run.candidates
    BY <1>1 DEF Run
  <1>4. Reading'
    <2>1. Once(run.unread)'
      BY <1>1, <1>3 DEF Listing, Once
    <2>2. /\ Range(run'.unread) \subseteq Range(Roots[run'.root])
          /\ run'.found = {} /\ run'.manifest = Nothing
      BY <1>1, <1>3 DEF Listing, Collecting
    <2> QED
      BY <2>1, <2>2 DEF Reading, Range, Distinct
  <1>5. Collecting' /\ Discovering' /\ Listing' /\ Handing'
    BY <1>1, <1>3 DEF Collecting, Discovering, Listing, Handing, Distinct
  <1> QED
    BY <1>1, <1>2, <1>4, <1>5, BuildingStep DEF UnderConstruction, ReadRoot

\* The directory a checkout is being read in.
LEMMA AtHead ==
    ASSUME IInv, run.phase \in {"read", "documents"}, run.unread # <<>>
    PROVE  /\ run \in Run /\ Head(run.unread) \in Dirs /\ Head(run.unread) \in Range(run.unread)
           /\ Tail(run.unread) \in Seq(Dirs) /\ Once(Tail(run.unread))
           /\ Range(Tail(run.unread)) \subseteq Range(run.unread) \ {Head(run.unread)}
           /\ disk[Head(run.unread)].name \in PackageNames \cup {Nothing}
           /\ disk[Head(run.unread)].document \in Documents \cup {Nothing}
  <1>1. run \in Run /\ run.unread \in Seq(Dirs) /\ disk \in Disk
    BY DEF IInv, TypeOK, Run
  <1>2. Once(run.unread)
    BY DEF IInv, UnderConstruction, Reading, Discovering
  <1>3. /\ Head(run.unread) \in Dirs /\ Head(run.unread) \in Range(run.unread)
        /\ Tail(run.unread) \in Seq(Dirs) /\ Once(Tail(run.unread))
        /\ Range(Tail(run.unread)) \subseteq Range(run.unread) \ {Head(run.unread)}
    BY <1>1, <1>2, TailOnce
  <1> QED
    BY <1>1, <1>3 DEF Disk, Package

LEMMA ReadManifestStep ==
    ASSUME IInv, ReadManifest
    PROVE  IInv'
  <1> DEFINE name == disk[Head(run.unread)].name
  <1>1. /\ run \in Run /\ run.phase = "read" /\ run.unread # <<>>
        /\ Reading /\ Collecting /\ Discovering
        /\ name \in PackageNames /\ name \notin Names(run.found)
        /\ run' = [run EXCEPT !.manifest = name]
    BY AtHead DEF IInv, ReadManifest, AtManifest, UnderConstruction
  <1>2. run' \in Run
    BY <1>1 DEF Run
  <1>3. /\ run'.phase = "read" /\ run'.found = run.found /\ run'.manifest = name
        /\ run'.unread = run.unread /\ run'.root = run.root /\ run'.sources = run.sources
        /\ run'.candidates = run.candidates
    BY <1>1 DEF Run
  <1>4. Reading'
    <2>1. Once(run.unread)' /\ Distinct(run.found)'
      BY <1>1, <1>3 DEF Reading, Once, Distinct
    <2>2. /\ Range(run'.unread) \subseteq Range(Roots[run'.root])
          /\ \A s \in run'.found : s.dir \in Range(Roots[run'.root]) \ Range(run'.unread)
          /\ run'.manifest \notin Names(run'.found)
      BY <1>1, <1>3 DEF Reading
    <2> QED
      BY <1>1, <1>3, <2>1, <2>2 DEF Reading, Range, Names
  <1>5. Collecting' /\ Discovering' /\ Listing' /\ Handing'
    BY <1>1, <1>3 DEF Collecting, Discovering, Listing, Handing, Distinct
  <1> QED
    BY <1>1, <1>2, <1>4, <1>5, BuildingStep DEF UnderConstruction, ReadManifest

LEMMA ReadDescriptorStep ==
    ASSUME IInv, ReadDescriptor
    PROVE  IInv'
  <1> DEFINE dir == Head(run.unread)
             source == [name |-> run.manifest, dir |-> dir, document |-> disk[dir].document]
  <1>1. /\ run.phase = "read" /\ run.manifest # Nothing /\ run.unread # <<>>
        /\ Reading /\ Collecting /\ Discovering
        /\ run' = [run EXCEPT !.found = @ \cup {source}, !.unread = Tail(@), !.manifest = Nothing]
    BY DEF IInv, ReadDescriptor, UnderConstruction, Reading
  <1>2. /\ run \in Run /\ dir \in Dirs /\ dir \in Range(run.unread)
        /\ Tail(run.unread) \in Seq(Dirs) /\ Once(Tail(run.unread))
        /\ Range(Tail(run.unread)) \subseteq Range(run.unread) \ {dir}
        /\ disk[dir].document \in Documents \cup {Nothing}
    BY <1>1, AtHead
  <1>3. source \in Source
    BY <1>1, <1>2 DEF Run, Source
  <1>4. run' \in Run
    BY <1>1, <1>2, <1>3 DEF Run
  <1>5. /\ run'.phase = "read" /\ run'.found = run.found \cup {source} /\ run'.manifest = Nothing
        /\ run'.unread = Tail(run.unread) /\ run'.root = run.root /\ run'.sources = run.sources
        /\ run'.candidates = run.candidates
    BY <1>1, <1>2 DEF Run
  <1>6. Reading'
    <2>1. source.name = run.manifest /\ source.dir = dir
      OBVIOUS
    <2>2. \A s \in run.found : s.name # run.manifest /\ s.dir # dir
      BY <1>1, <1>2 DEF Reading, Names
    <2>3. Distinct(run.found)'
      BY <1>1, <1>5, <2>1, <2>2 DEF Reading, Distinct
    <2>4. Once(run.unread)'
      BY <1>2, <1>5 DEF Once
    <2>5. /\ Range(run'.unread) \subseteq Range(Roots[run'.root])
          /\ \A s \in run'.found : s.dir \in Range(Roots[run'.root]) \ Range(run'.unread)
      BY <1>1, <1>2, <1>5, <2>1 DEF Reading
    <2> QED
      BY <1>5, <2>3, <2>4, <2>5 DEF Reading, Range
  <1>7. Collecting' /\ Discovering' /\ Listing' /\ Handing'
    BY <1>1, <1>5 DEF Collecting, Discovering, Listing, Handing, Distinct
  <1> QED
    BY <1>1, <1>4, <1>6, <1>7, BuildingStep DEF UnderConstruction, ReadDescriptor

\* A checkout adds sources whose names and directories no earlier one has.
LEMMA JoinedDistinct ==
    ASSUME IInv, run.phase = "read"
    PROVE  /\ Distinct(run.sources \cup Joined(run.sources, run.found))
           /\ \A s \in Joined(run.sources, run.found) : s.dir \in Range(Roots[run.root])
  <1>1. /\ Distinct(run.sources) /\ Distinct(run.found)
        /\ run.root \in 1..Len(Roots)
        /\ \A s \in run.found : s.dir \in Range(Roots[run.root])
        /\ \A s \in run.sources : \E k \in 1..(run.root - 1) : s.dir \in Range(Roots[k])
    BY RootCount DEF IInv, TypeOK, Run, UnderConstruction, Reading, Collecting
  <1>2. \A s \in run.sources, t \in Joined(run.sources, run.found) : s.name # t.name
    BY DEF Joined, Names
  <1>3. ASSUME NEW s \in run.sources, NEW t \in run.found
        PROVE  s.dir # t.dir
    <2>1. PICK k \in 1..(run.root - 1) : s.dir \in Range(Roots[k])
      BY <1>1
    <2>2. k \in 1..Len(Roots) /\ k # run.root
      BY <1>1, RootCount
    <2>3. Range(Roots[k]) \cap Range(Roots[run.root]) = {}
      BY <1>1, <2>2, RootDirs
    <2> QED
      BY <1>1, <2>1, <2>3
  <1>4. Joined(run.sources, run.found) \subseteq run.found
    BY DEF Joined
  <1> QED
    BY <1>1, <1>2, <1>3, <1>4 DEF Distinct

LEMMA CloseRootStep ==
    ASSUME IInv, CloseRoot
    PROVE  IInv'
  <1> DEFINE joined == Joined(run.sources, run.found)
             phase == IF run.root < Len(Roots) THEN "open" ELSE "index"
  <1>1. /\ run \in Run /\ run.phase = "read" /\ run.unread = <<>> /\ run.manifest = Nothing
        /\ Reading /\ Collecting /\ Discovering
        /\ run.root \in 1..Len(Roots) /\ run.root + 1 \in 1..(Len(Roots) + 1)
        /\ run' = [run EXCEPT !.sources = @ \cup joined, !.root = @ + 1, !.phase = phase]
    BY RootCount DEF IInv, TypeOK, Run, CloseRoot, UnderConstruction, Reading, Collecting
  <1>2. joined \subseteq Source /\ phase \in Phases
    BY <1>1 DEF Run, Joined, Phases
  <1>3. run' \in Run
    BY <1>1, <1>2 DEF Run
  <1>4. /\ run'.phase = phase /\ run'.sources = run.sources \cup joined
        /\ run'.root = run.root + 1 /\ run'.unread = <<>> /\ run'.manifest = Nothing
        /\ run'.candidates = run.candidates
    BY <1>1 DEF Run
  <1>5. Collecting'
    <2>1. Distinct(run.sources)'
      BY <1>1, <1>4, JoinedDistinct DEF Distinct
    <2>2. \A s \in run'.sources : \E k \in 1..(run'.root - 1) : s.dir \in Range(Roots[k])
      <3>1. ASSUME NEW s \in run.sources
            PROVE  \E k \in 1..(run'.root - 1) : s.dir \in Range(Roots[k])
        BY <1>1, <1>4 DEF Collecting
      <3>2. ASSUME NEW s \in joined
            PROVE  \E k \in 1..(run'.root - 1) : s.dir \in Range(Roots[k])
        BY <1>1, <1>4, JoinedDistinct
      <3> QED
        BY <1>4, <3>1, <3>2
    <2>3. run'.phase = "open" => run'.root <= Len(Roots)
      BY <1>1, <1>4
    <2>4. run'.phase \in {"open", "index"}
      BY <1>4
    <2> QED
      BY <1>4, <2>1, <2>2, <2>3, <2>4 DEF Collecting, Range
  <1>6. Discovering' /\ Listing' /\ Reading' /\ Handing'
    BY <1>1, <1>4 DEF Discovering, Listing, Reading, Handing
  <1>7. run.phase # "idle"
    BY <1>1
  <1> QED
    BY <1>3, <1>5, <1>6, <1>7, BuildingStep DEF UnderConstruction, CloseRoot

LEMMA IndexStep ==
    ASSUME IInv, Index
    PROVE  IInv'
  <1>1. /\ run \in Run /\ run.phase = "index" /\ ~Ambiguous(run.sources)
        /\ Collecting /\ Discovering
        /\ run' = [run EXCEPT !.phase = "discover"]
        /\ cache' = IF run.options.cached THEN run.sources ELSE cache
        /\ disk' = disk /\ edits' = edits /\ runs' = runs /\ sealed' = sealed
    BY DEF IInv, TypeOK, Index, UnderConstruction
  <1>2. run' \in Run
    BY <1>1 DEF Run, Phases
  <1>3. /\ run'.phase = "discover" /\ run'.sources = run.sources /\ run'.unread = run.unread
        /\ run'.manifest = run.manifest /\ run'.candidates = run.candidates
    BY <1>1 DEF Run
  <1>4. UnderConstruction'
    BY <1>1, <1>3 DEF UnderConstruction, Listing, Reading, Collecting, Discovering, Handing,
                      Distinct, Ambiguous
  <1>5. Unambiguous(run.sources) /\ run.sources \subseteq Source
    BY <1>1 DEF Unambiguous, Collecting, Run
  <1>6. TypeOK'
    BY <1>1, <1>2, <1>5 DEF IInv, TypeOK
  <1>7. Kept'
    <2>1. cache' # Nothing => Unambiguous(cache')
      BY <1>1, <1>5 DEF IInv, Kept, SnapshotsUnambiguous
    <2>2. SnapshotsUnambiguous'
      BY <1>1, <2>1 DEF IInv, Kept, SnapshotsUnambiguous, Unambiguous, Distinct, Ambiguous
    <2> QED
      BY <1>1, <2>2 DEF IInv, Kept, SealedRunsAgree, WorkspaceRunsWhole
  <1> QED
    BY <1>1, <1>4, <1>6, <1>7 DEF IInv

-----------------------------------------------------------------------------
LEMMA CandidateFields ==
    ASSUME NEW d, NEW doc
    PROVE  /\ Candidate(d, doc).dir = d /\ Candidate(d, doc).document = doc
           /\ d \in Dirs /\ doc \in Documents => Candidate(d, doc) \in Candidates
  BY DEF Candidate, Candidates

LEMMA DiscoverDocumentsStep ==
    ASSUME IInv, DiscoverDocuments
    PROVE  IInv'
  <1> DEFINE handed == {Candidate(s.dir, s.document) : s \in Described(run.sources)}
  <1>1. /\ run \in Run /\ run.phase = "discover" /\ Collecting
        /\ run' = [run EXCEPT !.phase = "select", !.candidates = handed]
    BY DEF IInv, TypeOK, DiscoverDocuments, UnderConstruction
  <1>2. \A s \in Described(run.sources) : s \in run.sources /\ s.dir \in Dirs /\ s.document \in Documents
    BY <1>1 DEF Run, Source, Described
  <1>3. handed \subseteq Candidates
    BY <1>2, CandidateFields
  <1>4. run' \in Run
    BY <1>1, <1>3 DEF Run, Phases
  <1>5. /\ run'.phase = "select" /\ run'.sources = run.sources /\ run'.candidates = handed
        /\ run'.manifest = run.manifest
    BY <1>1 DEF Run
  <1>6. \A b, c \in handed : b.dir = c.dir => b = c
    BY <1>1, <1>2, CandidateFields DEF Collecting, Distinct
  <1>7. Handing'
    BY <1>5 DEF Handing, FromSources, Described
  <1>8. Collecting' /\ Discovering' /\ Listing' /\ Reading'
    BY <1>1, <1>5, <1>6 DEF Collecting, Discovering, Listing, Reading, Distinct, Ambiguous
  <1> QED
    BY <1>1, <1>4, <1>7, <1>8, BuildingStep DEF UnderConstruction, DiscoverDocuments

LEMMA RangeFinite ==
    ASSUME NEW n \in Nat, NEW S, NEW f \in [1..n -> S]
    PROVE  IsFiniteSet(Range(f))
  <1>1. f \in [1..n -> Range(f)] /\ \A t \in Range(f) : \E i \in 1..n : f[i] = t
    BY DEF Range
  <1>2. f \in Surjection(1..n, Range(f))
    BY <1>1 DEF Surjection
  <1>3. IsFiniteSet(1..n)
    BY FS_Interval
  <1> QED
    BY <1>2, <1>3, FS_Surjection

\* The checkouts hold finitely many directories, and so does what a pattern matches.
LEMMA MatchedFinite == IsFiniteSet(Matched)
  <1> DEFINE dirsOf == [k \in 1..Len(Roots) |-> Range(Roots[k])]
  <1>1. Len(Roots) \in Nat /\ DOMAIN Roots = 1..Len(Roots)
    BY RootsAssumption, LenProperties
  <1>2. ASSUME NEW k \in 1..Len(Roots)
        PROVE  IsFiniteSet(Range(Roots[k]))
    <2>1. Len(Roots[k]) \in Nat /\ Roots[k] \in [1..Len(Roots[k]) -> Dirs]
      BY RootDirs, LenProperties
    <2> QED
      BY <2>1, RangeFinite
  <1>3. IsFiniteSet(Range(dirsOf))
    <2>1. dirsOf \in [1..Len(Roots) -> {Range(Roots[k]) : k \in 1..Len(Roots)}]
      OBVIOUS
    <2> QED
      BY <1>1, <2>1, RangeFinite
  <1>4. IsFiniteSet(UNION Range(dirsOf))
    <2>1. \A T \in Range(dirsOf) : IsFiniteSet(T)
      BY <1>2 DEF Range
    <2> HIDE DEF dirsOf
    <2> QED
      BY <1>3, <2>1, FS_UNION
  <1>5. Dirs = UNION Range(dirsOf)
    <2>1. Range(dirsOf) = {Range(Roots[k]) : k \in DOMAIN Roots}
      BY <1>1 DEF Range
    <2>2. Dirs = UNION {Range(Roots[k]) : k \in DOMAIN Roots}
      BY DEF Dirs, Range
    <2> QED
      BY <2>1, <2>2
  <1>6. Matched \in SUBSET Dirs
    BY DEF Matched
  <1> QED
    BY <1>4, <1>5, <1>6, FS_Subset

LEMMA ListFilesStep ==
    ASSUME IInv, ListFiles
    PROVE  IInv'
  <1>1. PICK files \in Bijection(1..Cardinality(Matched), Matched) :
            run' = [run EXCEPT !.phase = "documents", !.unread = files]
    BY DEF ListFiles
  <1>2. /\ run \in Run /\ run.phase = "discover" /\ run.options.documents # "snapshot"
        /\ Collecting /\ Discovering
    BY DEF IInv, TypeOK, ListFiles, FromSnapshot, UnderConstruction
  <1>3. Cardinality(Matched) \in Nat
    BY MatchedFinite, FS_CardinalityType
  <1>4. Matched \subseteq Dirs
    BY DEF Matched
  <1>5. files \in Seq(Dirs) /\ Once(files)
    BY <1>3, <1>4, BijectionOnce, SeqMonotonic
  <1>6. run' \in Run
    BY <1>1, <1>2, <1>5 DEF Run, Phases
  <1>7. /\ run'.phase = "documents" /\ run'.unread = files /\ run'.options = run.options
        /\ run'.sources = run.sources /\ run'.candidates = {} /\ run'.manifest = run.manifest
    BY <1>1, <1>2 DEF Run, Discovering
  <1>8. Discovering'
    <2>1. Once(run.unread)'
      BY <1>5, <1>7 DEF Once
    <2> QED
      BY <1>2, <1>7, <2>1 DEF Discovering
  <1>9. Collecting' /\ Listing' /\ Reading' /\ Handing'
    BY <1>2, <1>7 DEF Collecting, Listing, Reading, Handing, Distinct, Ambiguous
  <1> QED
    BY <1>2, <1>6, <1>8, <1>9, BuildingStep DEF UnderConstruction, ListFiles

LEMMA ReadFileStep ==
    ASSUME IInv, ReadFile
    PROVE  IInv'
  <1> DEFINE dir == Head(run.unread)
             candidate == Candidate(dir, disk[dir].document)
  <1>1. CASE Fail("vanished")
    BY <1>1, FailStep DEF Failures
  <1>2. CASE /\ disk[dir].document # Nothing
             /\ run' = [run EXCEPT !.candidates = @ \cup {candidate}, !.unread = Tail(@)]
             /\ Building
    <2>1. /\ run.phase = "documents" /\ run.unread # <<>> /\ Collecting /\ Discovering
      BY DEF IInv, ReadFile, UnderConstruction
    <2>2. /\ run \in Run /\ dir \in Dirs /\ dir \in Range(run.unread)
          /\ Tail(run.unread) \in Seq(Dirs) /\ Once(Tail(run.unread))
          /\ Range(Tail(run.unread)) \subseteq Range(run.unread) \ {dir}
          /\ disk[dir].document \in Documents
      BY <1>2, <2>1, AtHead
    <2>3. candidate \in Candidates /\ candidate.dir = dir
      BY <2>2, CandidateFields
    <2>4. run' \in Run
      <3> HIDE DEF candidate
      <3> QED
        BY <1>2, <2>2, <2>3 DEF Run
    <2>5. /\ run'.phase = "documents" /\ run'.unread = Tail(run.unread)
          /\ run'.options = run.options /\ run'.sources = run.sources
          /\ run'.candidates = run.candidates \cup {candidate} /\ run'.manifest = run.manifest
      <3> HIDE DEF candidate
      <3> QED
        BY <1>2, <2>1, <2>2 DEF Run
    <2>6. Discovering'
      <3> HIDE DEF candidate, dir
      <3>1. \A c \in run.candidates : c.dir # candidate.dir
        BY <2>1, <2>2, <2>3 DEF Discovering
      <3>2. \A b, c \in run'.candidates : b.dir = c.dir => b = c
        BY <2>1, <2>5, <3>1 DEF Discovering
      <3>3. Once(run.unread)'
        BY <2>2, <2>5 DEF Once
      <3>4. \A c \in run'.candidates : c.dir \notin Range(run'.unread)
        BY <2>1, <2>2, <2>3, <2>5 DEF Discovering
      <3> QED
        BY <2>1, <2>5, <3>2, <3>3, <3>4 DEF Discovering, Range
    <2>7. Collecting' /\ Listing' /\ Reading' /\ Handing'
      BY <2>1, <2>5 DEF Collecting, Listing, Reading, Handing, Distinct, Ambiguous
    <2> QED
      BY <1>2, <2>1, <2>4, <2>6, <2>7, BuildingStep DEF UnderConstruction
  <1> QED
    BY <1>1, <1>2 DEF ReadFile

LEMMA AllReadStep ==
    ASSUME IInv, AllRead
    PROVE  IInv'
  <1>1. /\ run \in Run /\ run.phase = "documents" /\ Collecting /\ Discovering
        /\ run' = [run EXCEPT !.phase = "select"]
    BY DEF IInv, TypeOK, AllRead, UnderConstruction
  <1>2. run' \in Run
    BY <1>1 DEF Run, Phases
  <1>3. /\ run'.phase = "select" /\ run'.options = run.options /\ run'.sources = run.sources
        /\ run'.candidates = run.candidates /\ run'.manifest = run.manifest
    BY <1>1 DEF Run
  <1>4. UnderConstruction'
    BY <1>1, <1>3 DEF UnderConstruction, Listing, Reading, Collecting, Discovering, Handing,
                      Distinct, Ambiguous
  <1> QED
    BY <1>1, <1>2, <1>4, BuildingStep DEF AllRead

LEMMA SelectStep ==
    ASSUME IInv, Select
    PROVE  IInv'
  <1>1. /\ run \in Run /\ run.phase = "select" /\ Collecting /\ Discovering /\ Handing
    BY DEF IInv, TypeOK, Select, UnderConstruction
  <1>2. PICK chosen \in SUBSET run.candidates :
            run' = [run EXCEPT
                      !.phase = "names",
                      !.selected = UNION {{[candidate |-> c, package |-> s.name] : s \in AtPath(c)} :
                                            c \in chosen},
                      !.unnamed = {c \in chosen : AtPath(c) = {}}]
    BY DEF Select
  <1> DEFINE selected == UNION {{[candidate |-> c, package |-> s.name] : s \in AtPath(c)} : c \in chosen}
             unnamed == {c \in chosen : AtPath(c) = {}}
  <1>3. \A e \in selected : /\ e.candidate \in run.candidates
                            /\ e \in [candidate: Candidates, package: PackageNames]
    <2>1. \A c \in chosen : \A s \in AtPath(c) :
            c \in run.candidates /\ c \in Candidates /\ s.name \in PackageNames
      BY <1>1 DEF AtPath, Described, Run, Source
    <2> QED
      BY <2>1
  <1>4. unnamed \subseteq run.candidates /\ run.candidates \subseteq Candidates
    BY <1>1 DEF Run
  <1>5. run' = [run EXCEPT !.phase = "names", !.selected = selected, !.unnamed = unnamed]
    BY <1>2
  <1> HIDE DEF selected, unnamed
  <1>6. run' \in Run
    BY <1>1, <1>3, <1>4, <1>5 DEF Run, Phases, Selections
  <1>7. /\ run'.phase = "names" /\ run'.options = run.options /\ run'.sources = run.sources
        /\ run'.candidates = run.candidates /\ run'.manifest = run.manifest
        /\ run'.selected = selected /\ run'.unnamed = unnamed
    BY <1>1, <1>5 DEF Run
  <1>8. Discovering'
    BY <1>1, <1>3, <1>4, <1>7 DEF Discovering
  <1>9. Collecting' /\ Listing' /\ Reading' /\ Handing'
    BY <1>1, <1>7 DEF Collecting, Listing, Reading, Handing, FromSources, Described, Distinct,
                      Ambiguous
  <1> QED
    BY <1>1, <1>6, <1>8, <1>9, BuildingStep DEF UnderConstruction, Select

LEMMA NamePackageStep ==
    ASSUME IInv, NEW c \in run.unnamed, NamePackage(c)
    PROVE  IInv'
  <1> DEFINE named == [candidate |-> c, package |-> disk[c.dir].name]
  <1>1. CASE Fail("vanished")
    BY <1>1, FailStep DEF Failures
  <1>2. CASE /\ disk[c.dir].name # Nothing
             /\ run' = [run EXCEPT !.selected = @ \cup {named}, !.unnamed = @ \ {c}]
             /\ Building
    <2>1. /\ run \in Run /\ run.phase = "names" /\ disk \in Disk
          /\ Collecting /\ Discovering /\ Handing
      BY DEF IInv, TypeOK, NamePackage, UnderConstruction
    <2>2. c \in Candidates /\ c \in run.candidates /\ c.dir \in Dirs
      BY <2>1, CandidateFields DEF Run, Discovering, Candidates
    <2>3. disk[c.dir].name \in PackageNames
      BY <1>2, <2>1, <2>2 DEF Disk, Package
    <2>4. named \in [candidate: Candidates, package: PackageNames] /\ named.candidate = c
      BY <2>2, <2>3
    <2> HIDE DEF named
    <2>5. run' \in Run
      BY <1>2, <2>1, <2>4 DEF Run, Selections
    <2>6. /\ run'.phase = "names" /\ run'.options = run.options /\ run'.sources = run.sources
          /\ run'.candidates = run.candidates /\ run'.manifest = run.manifest
          /\ run'.selected = run.selected \cup {named} /\ run'.unnamed \subseteq run.unnamed
      BY <1>2, <2>1 DEF Run
    <2>7. Discovering'
      BY <2>1, <2>2, <2>4, <2>6 DEF Discovering
    <2>8. Collecting' /\ Listing' /\ Reading' /\ Handing'
      BY <2>1, <2>6 DEF Collecting, Listing, Reading, Handing, FromSources, Described, Distinct,
                        Ambiguous
    <2> QED
      BY <1>2, <2>1, <2>5, <2>7, <2>8, BuildingStep DEF UnderConstruction
  <1> QED
    BY <1>1, <1>2 DEF NamePackage

-----------------------------------------------------------------------------
\* What a run that may be sealed holds.
LEMMA SealedAgrees ==
    ASSUME IInv, run.phase = "names", ~Missing, ~Mismatched
    PROVE  /\ \A e, f \in run.selected : e # f => e.package # f.package
           /\ Packages(run.selected) \subseteq Names(run.sources)
           /\ \A c \in run.candidates, s \in Described(run.sources) :
                c.dir = s.dir => /\ s.document.id \in {Unset, c.id}
                                 /\ c.version = DescriptorVersion(s.document)
  <1>1. /\ \A e \in run.selected : /\ e = [candidate |-> e.candidate, package |-> e.package]
                                   /\ e.candidate \in run.candidates
        /\ \A b, c \in run.candidates : b.dir = c.dir => b = c
    BY DEF IInv, TypeOK, Run, Selections, UnderConstruction, Discovering
  <1>2. \A e \in run.selected : /\ Carrying(e.package) # {}
                                /\ \A s \in Carrying(e.package) : Matches(e.candidate, s)
    BY DEF Missing, Mismatched
  <1>3. ASSUME NEW e \in run.selected, NEW f \in run.selected, e.package = f.package
        PROVE  e = f
    <2>1. PICK s \in Carrying(e.package) : Matches(e.candidate, s) /\ Matches(f.candidate, s)
      BY <1>2, <1>3
    <2>2. e.candidate.dir = f.candidate.dir
      BY <2>1 DEF Matches
    <2>3. e.candidate = f.candidate
      BY <1>1, <2>2
    <2> QED
      BY <1>1, <1>3, <2>3
  <1>4. Packages(run.selected) \subseteq Names(run.sources)
    BY <1>2 DEF Packages, Names, Carrying
  <1>5. ASSUME NEW c \in run.candidates, NEW s \in Described(run.sources), c.dir = s.dir
        PROVE  /\ s.document.id \in {Unset, c.id}
               /\ c.version = DescriptorVersion(s.document)
    <2>1. Matches(c, s)
      BY <1>5 DEF Mismatched, Contradicted, AtPath
    <2>2. s.document # Nothing
      BY DEF Described
    <2> QED
      BY <2>1, <2>2 DEF Matches, SameId
  <1> QED
    BY <1>3, <1>4, <1>5

LEMMA SealStep ==
    ASSUME IInv, Seal
    PROVE  IInv'
  <1> DEFINE answer == [options |-> run.options, sources |-> run.sources,
                        candidates |-> run.candidates, selected |-> run.selected]
  <1>1. /\ run \in Run /\ run.phase = "names" /\ ~Missing /\ ~Mismatched
        /\ run' = Idle(run.options, "none") /\ sealed' = Append(sealed, answer)
        /\ disk' = disk /\ edits' = edits /\ runs' = runs /\ cache' = cache
    BY DEF IInv, TypeOK, Seal
  <1>2. /\ run' \in Run /\ run'.phase = "idle" /\ run'.sources = {} /\ run'.candidates = {}
        /\ run'.manifest = Nothing
    <2>1. run.options \in Options /\ "none" \in Failures
      BY <1>1 DEF Run, Failures
    <2> QED
      BY <1>1, <2>1, FreshRun
  <1>3. UnderConstruction'
    BY <1>2 DEF UnderConstruction, Listing, Reading, Collecting, Discovering, Handing, Distinct
  <1>4. /\ answer \in Answer /\ answer.options = run.options /\ answer.sources = run.sources
        /\ answer.candidates = run.candidates /\ answer.selected = run.selected
    BY <1>1 DEF Run, Answer
  <1> HIDE DEF answer
  <1>5. sealed \in Seq(Answer) /\ Len(sealed) \in Nat /\ DOMAIN sealed = 1..Len(sealed)
    BY LenProperties DEF IInv, TypeOK
  <1>6. /\ sealed' \in Seq(Answer) /\ Len(sealed') = Len(sealed) + 1
        /\ DOMAIN sealed' = 1..(Len(sealed) + 1)
        /\ \A k \in DOMAIN sealed : sealed'[k] = sealed[k]
        /\ sealed'[Len(sealed) + 1] = answer
    BY <1>1, <1>4, <1>5, AppendProperties, LenProperties
  <1>7. \A k \in DOMAIN sealed' : k \in DOMAIN sealed \/ sealed'[k] = answer
    BY <1>5, <1>6
  <1>8. TypeOK'
    <2>1. Len(sealed) < runs /\ runs \in Nat
      BY <1>1 DEF IInv, TypeOK
    <2> QED
      BY <1>1, <1>2, <1>5, <1>6, <2>1 DEF IInv, TypeOK
  <1>9. Kept'
    <2>1. /\ UnderConstruction /\ SnapshotsUnambiguous /\ SealedRunsAgree /\ WorkspaceRunsWhole
      BY DEF IInv, Kept
    <2>2. SnapshotsUnambiguous'
      <3>1. Unambiguous(answer.sources)
        BY <1>1, <1>4, <2>1 DEF UnderConstruction, Collecting, Unambiguous
      <3>2. \A k \in DOMAIN sealed' : Unambiguous(sealed'[k].sources)
        BY <1>6, <1>7, <2>1, <3>1 DEF SnapshotsUnambiguous
      <3> QED
        BY <1>1, <2>1, <3>2 DEF SnapshotsUnambiguous, Unambiguous, Distinct, Ambiguous
    <2>3. SealedRunsAgree'
      <3> DEFINE Agrees(a) ==
                   /\ \A e, f \in a.selected : e # f => e.package # f.package
                   /\ Packages(a.selected) \subseteq Names(a.sources)
                   /\ \A c \in a.candidates, s \in Described(a.sources) :
                        c.dir = s.dir => /\ s.document.id \in {Unset, c.id}
                                         /\ c.version = DescriptorVersion(s.document)
      <3>1. Agrees(answer)
        BY <1>1, <1>4, SealedAgrees
      <3>2. \A k \in DOMAIN sealed : Agrees(sealed[k])
        BY <2>1 DEF SealedRunsAgree
      <3> HIDE DEF Agrees
      <3>3. \A k \in DOMAIN sealed' : Agrees(sealed'[k])
        BY <1>6, <1>7, <3>1, <3>2
      <3> QED
        BY <3>3 DEF SealedRunsAgree, Agrees
    <2>4. WorkspaceRunsWhole'
      <3> DEFINE Whole(a) ==
                   a.options.documents = "snapshot" =>
                     {<<c.dir, c.document>> : c \in a.candidates}
                         = {<<s.dir, s.document>> : s \in Described(a.sources)}
      <3>1. Whole(answer)
        <4> SUFFICES ASSUME run.options.documents = "snapshot"
                     PROVE  {<<c.dir, c.document>> : c \in run.candidates}
                              = {<<s.dir, s.document>> : s \in Described(run.sources)}
          BY <1>4
        <4>1. run.candidates = {Candidate(s.dir, s.document) : s \in Described(run.sources)}
          BY <1>1, <2>1 DEF UnderConstruction, Handing, FromSources
        <4> QED
          BY <4>1, CandidateFields
      <3>2. \A k \in DOMAIN sealed : Whole(sealed[k])
        BY <2>1 DEF WorkspaceRunsWhole
      <3> HIDE DEF Whole
      <3>3. \A k \in DOMAIN sealed' : Whole(sealed'[k])
        BY <1>6, <1>7, <3>1, <3>2
      <3> QED
        BY <3>3 DEF WorkspaceRunsWhole, Whole
    <2> QED
      BY <2>2, <2>3, <2>4 DEF Kept
  <1> QED
    BY <1>2, <1>3, <1>8, <1>9 DEF IInv

\* A refused run is gone.
LEMMA RejectStep ==
    ASSUME IInv, RejectManifest \/ RejectIndex \/ RejectCandidates \/ RejectSources
    PROVE  IInv'
  <1>1. \E reason \in {"vanished", "name", "identity", "schema", "duplicate", "selection",
                       "missing", "mismatch"} : Fail(reason)
    BY DEF RejectManifest, RejectIndex, RejectCandidates, RejectSources
  <1> QED
    BY <1>1, FailStep DEF Failures

\* An edit touches nothing the host has read.
LEMMA EditStep ==
    ASSUME IInv, NEW d \in Dirs, NEW package \in Edits, Edit(d, package)
    PROVE  IInv'
  <1>1. /\ disk' \in Disk /\ edits' \in 0..MaxEdits
    BY RunsAssumption DEF IInv, TypeOK, Edit, Disk
  <1>2. runs' = runs /\ run' = run /\ cache' = cache /\ sealed' = sealed
    BY DEF Edit
  <1> QED
    BY <1>1, <1>2, KeptSame, SameRun DEF IInv, TypeOK

LEMMA StutterStep ==
    ASSUME IInv, UNCHANGED vars
    PROVE  IInv'
  BY KeptSame, SameRun DEF IInv, TypeOK, vars

LEMMA NextIInv ==
    ASSUME IInv, [Next]_vars
    PROVE  IInv'
  <1>1. CASE \E o \in Options : Begin(o)
    BY <1>1, BeginStep
  <1>2. CASE OpenRoot \/ SeeDirectory \/ ReadRoot
    BY <1>2, OpenRootStep, SeeDirectoryStep, ReadRootStep
  <1>3. CASE ReadManifest \/ ReadDescriptor \/ CloseRoot \/ Index
    BY <1>3, ReadManifestStep, ReadDescriptorStep, CloseRootStep, IndexStep
  <1>4. CASE DiscoverDocuments \/ ListFiles \/ ReadFile \/ AllRead
    BY <1>4, DiscoverDocumentsStep, ListFilesStep, ReadFileStep, AllReadStep
  <1>5. CASE Select \/ \E c \in run.unnamed : NamePackage(c)
    BY <1>5, SelectStep, NamePackageStep
  <1>6. CASE Seal
    BY <1>6, SealStep
  <1>7. CASE RejectManifest \/ RejectIndex \/ RejectCandidates \/ RejectSources
    BY <1>7, RejectStep
  <1>8. CASE \E d \in Dirs, package \in Edits : Edit(d, package)
    BY <1>8, EditStep
  <1>9. CASE UNCHANGED vars
    BY <1>9, StutterStep
  <1> QED
    BY <1>1, <1>2, <1>3, <1>4, <1>5, <1>6, <1>7, <1>8, <1>9 DEF Next, Host

LEMMA SpecIInv == Spec => []IInv
  <1>1. IInv /\ [Next]_vars => IInv'
    BY NextIInv
  <1> QED
    BY InitIInv, <1>1, PTL DEF Spec

-----------------------------------------------------------------------------
\* Whatever lies on disk and whenever it is edited, a run under construction, the cache
\* and the sealed runs are well typed, and no run is sealed that was not begun.
\* (resolvePackageSources, discoverDescriptors, createCompositionRun)
THEOREM TypeCorrect == Spec => []TypeOK
  <1>1. IInv => TypeOK
    BY DEF IInv
  <1> QED
    BY SpecIInv, <1>1, PTL

\* A snapshot a run goes on with, or the cache holds, names no package, no directory and
\* no declared identity twice: for every number of checkouts and edits.
\* (discoverRoot, resolvePackageSources)
THEOREM UnambiguousSnapshots == Spec => []SnapshotsUnambiguous
  <1>1. IInv => SnapshotsUnambiguous
    BY DEF IInv, Kept
  <1> QED
    BY SpecIInv, <1>1, PTL

\* A sealed run selected different packages of its snapshot, and none of its candidates
\* contradicts the source at its path, however the two were read.
\* (createCompositionRun)
THEOREM SealedAgreement == Spec => []SealedRunsAgree
  <1>1. IInv => SealedRunsAgree
    BY DEF IInv, Kept
  <1> QED
    BY SpecIInv, <1>1, PTL

\* A workspace run holds the documents its snapshot read, all of them and no other.
\* (createWorkspaceCompositionRun)
THEOREM WholeWorkspaceRuns == Spec => []WorkspaceRunsWhole
  <1>1. IInv => WorkspaceRunsWhole
    BY DEF IInv, Kept
  <1> QED
    BY SpecIInv, <1>1, PTL

-----------------------------------------------------------------------------
\* Registries and what they are given.

\* The registries a row of items leaves, one item after the other.
Stages(f, registry, items) ==
    f = [n \in 0..Len(items) |-> IF n = 0 THEN registry ELSE Put(f[n - 1], items[n])]

\* The loop of register goes through the items one by one.
LEMMA PutAllStages ==
    ASSUME NEW registry, NEW items, Len(items) \in Nat
    PROVE  \E f : Stages(f, registry, items) /\ PutAll(registry, items) = f[Len(items)]
  <1> DEFINE N == Len(items)
             UpToHere(f, m) == f = [n \in 0..m |-> IF n = 0 THEN registry ELSE Put(f[n - 1], items[n])]
             S == {m \in 0..N : \E f : UpToHere(f, m)}
  <1>1. 0 \in S
    <2> DEFINE f == [n \in 0..0 |-> registry]
    <2>1. f = [n \in 0..0 |-> IF n = 0 THEN registry ELSE Put(f[n - 1], items[n])]
      OBVIOUS
    <2>2. UpToHere(f, 0)
      BY <2>1
    <2>3. 0 \in 0..N
      OBVIOUS
    <2> HIDE DEF f, UpToHere
    <2> QED
      BY <2>2, <2>3
  <1>2. ASSUME NEW m \in 0..N, m \in S, m < N PROVE m + 1 \in S
    <2>1. PICK f : UpToHere(f, m)
      BY <1>2
    <2> DEFINE g == [n \in 0..m + 1 |-> IF n <= m THEN f[n] ELSE Put(f[m], items[m + 1])]
               h == [n \in 0..m + 1 |-> IF n = 0 THEN registry ELSE Put(g[n - 1], items[n])]
    <2>2. ASSUME NEW n \in 0..m + 1 PROVE g[n] = h[n]
      <3>1. m \in Nat /\ n \in Int
        BY <1>2
      <3>2. CASE n = 0
        <4>1. f[0] = registry
          BY <2>1, <3>1
        <4> QED
          BY <3>1, <3>2, <4>1
      <3>3. CASE n # 0 /\ n <= m
        <4>1. n \in 0..m /\ n - 1 \in 0..m /\ n - 1 \in 0..m + 1
          BY <3>1, <3>3
        <4>2. f[n] = Put(f[n - 1], items[n])
          BY <2>1, <3>3, <4>1
        <4>3. g[n] = f[n] /\ g[n - 1] = f[n - 1]
          BY <3>1, <3>3, <4>1
        <4> QED
          BY <3>3, <4>2, <4>3
      <3>4. CASE n = m + 1
        <4>1. m \in 0..m + 1 /\ n # 0 /\ n - 1 = m /\ ~(n <= m) /\ m <= m
          BY <3>1, <3>4
        <4>2. g[n] = Put(f[m], items[m + 1]) /\ g[m] = f[m]
          BY <4>1
        <4>3. h[n] = Put(g[m], items[m + 1])
          BY <3>4, <4>1
        <4> QED
          BY <4>2, <4>3
      <3> QED
        BY <3>1, <3>2, <3>3, <3>4
    <2>3. g = h
      BY <2>2
    <2> HIDE DEF g
    <2>4. UpToHere(g, m + 1)
      BY <2>3
    <2>5. m + 1 \in 0..N
      BY <1>2
    <2> QED
      BY <2>4, <2>5
  <1>3. N \in Nat
    OBVIOUS
  <1> HIDE DEF UpToHere
  <1>4. N \in 0..N
    BY <1>3
  <1> HIDE DEF S, N
  <1>5. \A i \in 0..N : i \in S
    BY <1>1, <1>2, <1>3, PlaceByPlace
  <1>6. \E f : UpToHere(f, N)
    BY <1>4, <1>5 DEF S
  <1> DEFINE put[n \in 0..Len(items)] == IF n = 0 THEN registry ELSE Put(put[n - 1], items[n])
  <1>7. put = CHOOSE f : UpToHere(f, N)
    BY DEF UpToHere, N
  <1>8. UpToHere(put, N)
    BY <1>6, <1>7
  <1>9. PutAll(registry, items) = put[Len(items)]
    BY DEF PutAll
  <1>10. Stages(put, registry, items)
    BY <1>8 DEF Stages, UpToHere, N
  <1> HIDE DEF put
  <1> QED
    BY <1>9, <1>10

-----------------------------------------------------------------------------
\* A registry has every id once.
IsRegistry(r) ==
    /\ r \in Seq(Range(r))
    /\ \A i, j \in DOMAIN r : r[i].id = r[j].id => i = j

\* R is r after the items of S have been given: ids keep their places.
Grown(R, r, S) ==
    /\ IsRegistry(R)
    /\ Len(r) <= Len(R) /\ \A i \in 1..Len(r) : R[i].id = r[i].id
    /\ ItemIdsOf(R) = ItemIdsOf(r) \cup {x.id : x \in S}
    /\ Range(R) \subseteq Range(r) \cup S
    /\ (\A x \in S : x.id \in ItemIdsOf(r)) => Len(R) = Len(r)

\* A registry is a row; its items and its ids are those of its places.
LEMMA RegistryPlaces ==
    ASSUME NEW r, IsRegistry(r)
    PROVE  /\ Len(r) \in Nat /\ DOMAIN r = 1..Len(r) /\ r = [i \in 1..Len(r) |-> r[i]]
           /\ \A e : e \in Range(r) <=> \E i \in 1..Len(r) : r[i] = e
           /\ \A k : k \in ItemIdsOf(r) <=> \E i \in 1..Len(r) : r[i].id = k
  <1>1. Len(r) \in Nat /\ DOMAIN r = 1..Len(r) /\ r \in [1..Len(r) -> Range(r)]
    BY LenProperties DEF IsRegistry
  <1>2. r = [i \in 1..Len(r) |-> r[i]]
    BY <1>1
  <1> QED
    BY <1>1, <1>2 DEF Range, ItemIdsOf

\* A row of items, each with its own place.
LEMMA RowOf ==
    ASSUME NEW n \in Nat, NEW s, DOMAIN s = 1..n, s = [i \in 1..n |-> s[i]]
    PROVE  s \in Seq(Range(s)) /\ Len(s) = n
  <1>1. s \in [1..n -> Range(s)]
    BY DEF Range
  <1> HIDE DEF Range
  <1> QED
    BY <1>1

\* A known id keeps its place, a new one is the last.
LEMMA PutPlaces ==
    ASSUME NEW r, IsRegistry(r), NEW x
    PROVE  /\ x.id \in ItemIdsOf(r) =>
                 /\ Len(Put(r, x)) = Len(r) /\ DOMAIN Put(r, x) = 1..Len(r)
                 /\ Put(r, x) \in Seq(Range(Put(r, x)))
                 /\ \A i \in 1..Len(r) : Put(r, x)[i] = IF r[i].id = x.id THEN x ELSE r[i]
           /\ x.id \notin ItemIdsOf(r) =>
                 /\ Len(Put(r, x)) = Len(r) + 1 /\ DOMAIN Put(r, x) = 1..Len(r) + 1
                 /\ Put(r, x) \in Seq(Range(Put(r, x)))
                 /\ \A i \in 1..Len(r) : Put(r, x)[i] = r[i]
                 /\ Put(r, x)[Len(r) + 1] = x
  <1> DEFINE R == Put(r, x)
  <1>1. Len(r) \in Nat /\ DOMAIN r = 1..Len(r)
    BY RegistryPlaces
  <1>2. CASE x.id \in ItemIdsOf(r)
    <2>1. R = [i \in 1..Len(r) |-> IF r[i].id = x.id THEN x ELSE r[i]]
      BY <1>1, <1>2 DEF Put
    <2> HIDE DEF R
    <2>2. DOMAIN R = 1..Len(r) /\ R = [i \in 1..Len(r) |-> R[i]]
      BY <2>1
    <2>3. R \in Seq(Range(R)) /\ Len(R) = Len(r)
      BY <1>1, <2>2, RowOf
    <2>4. \A i \in 1..Len(r) : R[i] = IF r[i].id = x.id THEN x ELSE r[i]
      BY <2>1
    <2> QED
      BY <1>2, <2>2, <2>3, <2>4 DEF R
  <1>3. CASE x.id \notin ItemIdsOf(r)
    <2> DEFINE S == Range(r) \cup {x}
    <2>1. r \in Seq(S) /\ x \in S
      <3>1. r \in [1..Len(r) -> S]
        BY <1>1 DEF IsRegistry, Range
      <3> QED
        BY <1>1, <3>1
    <2>2. R = Append(r, x)
      BY <1>3 DEF Put
    <2> HIDE DEF R, S
    <2>3. /\ R \in Seq(S) /\ Len(R) = Len(r) + 1
          /\ \A i \in 1..Len(r) : R[i] = r[i]
          /\ R[Len(r) + 1] = x
      BY <2>1, <2>2, AppendProperties
    <2>4. DOMAIN R = 1..Len(r) + 1 /\ R = [i \in 1..Len(r) + 1 |-> R[i]]
      BY <2>3, LenProperties
    <2>5. R \in Seq(Range(R))
      BY <1>1, <2>4, RowOf
    <2> QED
      BY <1>3, <2>3, <2>4, <2>5 DEF R
  <1> QED
    BY <1>2, <1>3

\* Putting replaces the item with that id, if there is one, and nothing else.
LEMMA PutRange ==
    ASSUME NEW r, IsRegistry(r), NEW x
    PROVE  /\ IsRegistry(Put(r, x))
           /\ \A e : e \in Range(Put(r, x)) <=> e = x \/ (e \in Range(r) /\ e.id # x.id)
           /\ \A k : k \in ItemIdsOf(Put(r, x)) <=> k \in ItemIdsOf(r) \/ k = x.id
  <1> DEFINE R == Put(r, x)
             n == Len(r)
  <1>1. n \in Nat /\ DOMAIN r = 1..n
    BY RegistryPlaces
  <1>2. /\ \A e : e \in Range(r) <=> \E i \in 1..n : r[i] = e
        /\ \A k : k \in ItemIdsOf(r) <=> \E i \in 1..n : r[i].id = k
        /\ \A i, j \in 1..n : r[i].id = r[j].id => i = j
    BY <1>1, RegistryPlaces DEF IsRegistry
  <1>3. CASE x.id \in ItemIdsOf(r)
    <2>1. /\ DOMAIN R = 1..n /\ R \in Seq(Range(R))
          /\ \A i \in 1..n : R[i] = IF r[i].id = x.id THEN x ELSE r[i]
      BY <1>3, PutPlaces
    <2> HIDE DEF R, n
    <2>2. PICK h \in 1..n : r[h].id = x.id
      BY <1>2, <1>3
    <2>3. \A i \in 1..n : R[i].id = r[i].id
      BY <2>1
    <2>4. IsRegistry(R)
      BY <1>2, <2>1, <2>3 DEF IsRegistry
    <2>5. \A e : e \in Range(R) <=> \E i \in 1..n : R[i] = e
      BY <2>1 DEF Range
    <2>6. ASSUME NEW e PROVE e \in Range(R) <=> e = x \/ (e \in Range(r) /\ e.id # x.id)
      BY <1>2, <2>1, <2>2, <2>5
    <2>7. \A k : k \in ItemIdsOf(R) <=> \E i \in 1..n : R[i].id = k
      BY <2>1 DEF ItemIdsOf
    <2>8. \A k : k \in ItemIdsOf(R) <=> k \in ItemIdsOf(r) \/ k = x.id
      BY <1>2, <1>3, <2>3, <2>7
    <2> QED
      BY <2>4, <2>6, <2>8 DEF R
  <1>4. CASE x.id \notin ItemIdsOf(r)
    <2>1. /\ DOMAIN R = 1..n + 1 /\ R \in Seq(Range(R))
          /\ \A i \in 1..n : R[i] = r[i]
          /\ R[n + 1] = x
      BY <1>4, PutPlaces
    <2> HIDE DEF R, n
    <2>2. \A i \in 1..n + 1 : i \in 1..n \/ i = n + 1
      BY <1>1
    <2>3. \A i \in 1..n : i \in 1..n + 1 /\ i # n + 1
      BY <1>1
    <2>4. n + 1 \in 1..n + 1
      BY <1>1
    <2>5. \A i \in 1..n : r[i].id # x.id
      BY <1>2, <1>4
    <2>6. \A i, j \in 1..n + 1 : R[i].id = R[j].id => i = j
      BY <1>2, <2>1, <2>2, <2>5
    <2>7. IsRegistry(R)
      BY <2>1, <2>6 DEF IsRegistry
    <2>8. \A e : e \in Range(R) <=> \E i \in 1..n + 1 : R[i] = e
      BY <2>1 DEF Range
    <2>9. ASSUME NEW e PROVE e \in Range(R) <=> e = x \/ (e \in Range(r) /\ e.id # x.id)
      BY <1>2, <2>1, <2>2, <2>3, <2>4, <2>5, <2>8
    <2>10. \A k : k \in ItemIdsOf(R) <=> \E i \in 1..n + 1 : R[i].id = k
      BY <2>1 DEF ItemIdsOf
    <2>11. ASSUME NEW k PROVE k \in ItemIdsOf(R) <=> k \in ItemIdsOf(r) \/ k = x.id
      BY <1>2, <2>1, <2>2, <2>3, <2>4, <2>10
    <2> QED
      BY <2>7, <2>9, <2>11 DEF R
  <1> QED
    BY <1>3, <1>4

\* One item more.
LEMMA PutGrown ==
    ASSUME NEW r, IsRegistry(r), NEW R, NEW S, Grown(R, r, S), NEW x
    PROVE  Grown(Put(R, x), r, S \cup {x})
  <1> DEFINE Q == Put(R, x)
  <1>1. IsRegistry(R) /\ Len(r) \in Nat /\ Len(R) \in Nat /\ Len(r) <= Len(R)
    BY RegistryPlaces DEF Grown
  <1>2. /\ IsRegistry(Q)
        /\ \A e : e \in Range(Q) <=> e = x \/ (e \in Range(R) /\ e.id # x.id)
        /\ \A k : k \in ItemIdsOf(Q) <=> k \in ItemIdsOf(R) \/ k = x.id
    BY <1>1, PutRange
  <1>3. Len(R) <= Len(Q) /\ \A i \in 1..Len(R) : Q[i].id = R[i].id
    <2>1. CASE x.id \in ItemIdsOf(R)
      <3>1. Len(Q) = Len(R) /\ \A i \in 1..Len(R) : Q[i] = IF R[i].id = x.id THEN x ELSE R[i]
        BY <1>1, <2>1, PutPlaces
      <3> QED
        BY <1>1, <3>1
    <2>2. CASE x.id \notin ItemIdsOf(R)
      <3>1. Len(Q) = Len(R) + 1 /\ \A i \in 1..Len(R) : Q[i] = R[i]
        BY <1>1, <2>2, PutPlaces
      <3> QED
        BY <1>1, <3>1
    <2> QED
      BY <2>1, <2>2
  <1>4. x.id \in ItemIdsOf(R) => Len(Q) = Len(R)
    BY <1>1, PutPlaces
  <1> HIDE DEF Q
  <1>5. Len(Q) \in Nat
    BY <1>2, RegistryPlaces
  <1>6. Len(r) <= Len(Q)
    BY <1>1, <1>3, <1>5
  <1>7. \A i \in 1..Len(r) : Q[i].id = r[i].id
    <2>1. \A i \in 1..Len(r) : i \in 1..Len(R) /\ R[i].id = r[i].id
      BY <1>1 DEF Grown
    <2> QED
      BY <1>3, <2>1
  <1>8. ItemIdsOf(R) = ItemIdsOf(r) \cup {e.id : e \in S}
    BY DEF Grown
  <1>9. ItemIdsOf(Q) = ItemIdsOf(r) \cup {e.id : e \in S \cup {x}}
    BY <1>2, <1>8
  <1>10. Range(Q) \subseteq Range(r) \cup (S \cup {x})
    BY <1>2 DEF Grown
  <1>11. ASSUME \A e \in S \cup {x} : e.id \in ItemIdsOf(r) PROVE Len(Q) = Len(r)
    <2>1. Len(R) = Len(r)
      BY <1>11 DEF Grown
    <2>2. x.id \in ItemIdsOf(R)
      BY <1>8, <1>11
    <2> QED
      BY <1>4, <2>1, <2>2
  <1>12. Grown(Q, r, S \cup {x})
    BY <1>2, <1>6, <1>7, <1>9, <1>10, <1>11 DEF Grown
  <1> QED
    BY <1>12 DEF Q

\* A row of items put into a registry.
LEMMA PutAllGrown ==
    ASSUME NEW r, IsRegistry(r), NEW items, items \in Seq(Range(items))
    PROVE  Grown(PutAll(r, items), r, Range(items))
  <1> DEFINE N == Len(items)
             Given(n) == {items[i] : i \in 1..n}
  <1>1. N \in Nat /\ DOMAIN items = 1..N
    BY LenProperties
  <1>2. PICK f : Stages(f, r, items) /\ PutAll(r, items) = f[N]
    BY <1>1, PutAllStages
  <1> DEFINE S == {n \in 0..N : Grown(f[n], r, Given(n))}
  <1> HIDE DEF N
  <1>3. f[0] = r /\ \A n \in 0..N : n < N => f[n + 1] = Put(f[n], items[n + 1])
    <2>1. f = [n \in 0..N |-> IF n = 0 THEN r ELSE Put(f[n - 1], items[n])]
      BY <1>2 DEF Stages, N
    <2>2. f[0] = r
      BY <1>1, <2>1
    <2>3. ASSUME NEW n \in 0..N, n < N PROVE f[n + 1] = Put(f[n], items[n + 1])
      <3>1. n + 1 \in 0..N /\ n + 1 # 0 /\ n + 1 - 1 = n
        BY <1>1, <2>3
      <3> QED
        BY <2>1, <3>1
    <2> QED
      BY <2>2, <2>3
  <1>4. 0 \in S
    <2>1. Given(0) = {}
      OBVIOUS
    <2>2. Len(r) \in Nat
      BY RegistryPlaces
    <2>3. Grown(r, r, {})
      BY <2>2 DEF Grown
    <2> HIDE DEF Given
    <2>4. Grown(f[0], r, Given(0))
      BY <1>3, <2>1, <2>3
    <2>5. 0 \in 0..N
      BY <1>1
    <2> QED
      BY <2>4, <2>5
  <1>5. ASSUME NEW n \in 0..N, n \in S, n < N PROVE n + 1 \in S
    <2>1. Given(n + 1) = Given(n) \cup {items[n + 1]}
      <3>1. \A i : i \in 1..n + 1 <=> i \in 1..n \/ i = n + 1
        BY <1>1
      <3> QED
        BY <3>1
    <2>2. Grown(f[n], r, Given(n))
      BY <1>5
    <2> HIDE DEF Given
    <2>3. Grown(Put(f[n], items[n + 1]), r, Given(n) \cup {items[n + 1]})
      BY <2>2, PutGrown
    <2>4. n + 1 \in 0..N
      BY <1>1, <1>5
    <2> QED
      BY <1>3, <1>5, <2>1, <2>3, <2>4
  <1> HIDE DEF S
  <1>6. N \in S
    <2>1. \A n \in 0..N : n \in S
      BY <1>1, <1>4, <1>5, PlaceByPlace
    <2>2. N \in 0..N
      BY <1>1
    <2> QED
      BY <2>1, <2>2
  <1>7. Given(N) = Range(items)
    BY <1>1 DEF Range
  <1> QED
    BY <1>2, <1>6, <1>7 DEF S

SameIds(a, b) == Len(a) = Len(b) /\ \A i \in 1..Len(a) : a[i].id = b[i].id

\* What registries have in common stays so when both are given the same items.
Paired(a, b, c, d) ==
    /\ IsRegistry(c) /\ IsRegistry(d)
    /\ SameIds(a, b) => SameIds(c, d)
    /\ Range(a) \subseteq Range(b) => Range(c) \subseteq Range(d)

\* Two registries that are given the same item.
LEMMA PutPaired ==
    ASSUME NEW a, NEW b, NEW c, NEW d, Paired(a, b, c, d), NEW x
    PROVE  Paired(a, b, Put(c, x), Put(d, x))
  <1>1. IsRegistry(c) /\ IsRegistry(d) /\ IsRegistry(Put(c, x)) /\ IsRegistry(Put(d, x))
    BY PutRange DEF Paired
  <1>2. ASSUME Range(c) \subseteq Range(d) PROVE Range(Put(c, x)) \subseteq Range(Put(d, x))
    BY <1>1, <1>2, PutRange
  <1>3. ASSUME SameIds(c, d) PROVE SameIds(Put(c, x), Put(d, x))
    <2>1. Len(c) \in Nat /\ Len(d) = Len(c) /\ \A i \in 1..Len(c) : c[i].id = d[i].id
      BY <1>1, <1>3, RegistryPlaces DEF SameIds
    <2>2. \A k : k \in ItemIdsOf(c) <=> k \in ItemIdsOf(d)
      <3>1. \A k : k \in ItemIdsOf(c) <=> \E i \in 1..Len(c) : c[i].id = k
        BY <1>1, RegistryPlaces
      <3>2. \A k : k \in ItemIdsOf(d) <=> \E i \in 1..Len(c) : d[i].id = k
        BY <1>1, <2>1, RegistryPlaces
      <3> QED
        BY <2>1, <3>1, <3>2
    <2>3. CASE x.id \in ItemIdsOf(c)
      <3>1. /\ Len(Put(c, x)) = Len(c)
            /\ \A i \in 1..Len(c) : Put(c, x)[i] = IF c[i].id = x.id THEN x ELSE c[i]
        BY <1>1, <2>3, PutPlaces
      <3>2. /\ Len(Put(d, x)) = Len(d)
            /\ \A i \in 1..Len(d) : Put(d, x)[i] = IF d[i].id = x.id THEN x ELSE d[i]
        BY <1>1, <2>2, <2>3, PutPlaces
      <3> QED
        BY <2>1, <3>1, <3>2 DEF SameIds
    <2>4. CASE x.id \notin ItemIdsOf(c)
      <3>1. /\ Len(Put(c, x)) = Len(c) + 1 /\ Put(c, x)[Len(c) + 1] = x
            /\ \A i \in 1..Len(c) : Put(c, x)[i] = c[i]
        BY <1>1, <2>4, PutPlaces
      <3>2. /\ Len(Put(d, x)) = Len(d) + 1 /\ Put(d, x)[Len(d) + 1] = x
            /\ \A i \in 1..Len(d) : Put(d, x)[i] = d[i]
        BY <1>1, <2>2, <2>4, PutPlaces
      <3>3. \A i \in 1..Len(c) + 1 : i \in 1..Len(c) \/ i = Len(c) + 1
        BY <2>1
      <3> QED
        BY <2>1, <3>1, <3>2, <3>3 DEF SameIds
    <2> QED
      BY <2>3, <2>4
  <1> QED
    BY <1>1, <1>2, <1>3 DEF Paired

\* Two registries that are given the same row of items.
LEMMA PutAllPaired ==
    ASSUME NEW a, IsRegistry(a), NEW b, IsRegistry(b), NEW items, Len(items) \in Nat
    PROVE  Paired(a, b, PutAll(a, items), PutAll(b, items))
  <1> DEFINE N == Len(items)
  <1>1. PICK f : Stages(f, a, items) /\ PutAll(a, items) = f[N]
    BY PutAllStages
  <1>2. PICK g : Stages(g, b, items) /\ PutAll(b, items) = g[N]
    BY PutAllStages
  <1> DEFINE S == {n \in 0..N : Paired(a, b, f[n], g[n])}
  <1>3. f = [n \in 0..N |-> IF n = 0 THEN a ELSE Put(f[n - 1], items[n])]
    BY <1>1 DEF Stages
  <1>4. g = [n \in 0..N |-> IF n = 0 THEN b ELSE Put(g[n - 1], items[n])]
    BY <1>2 DEF Stages
  <1>5. N \in Nat
    OBVIOUS
  <1> HIDE DEF N
  <1>6. 0 \in S
    <2>1. f[0] = a /\ g[0] = b /\ 0 \in 0..N
      BY <1>3, <1>4, <1>5
    <2>2. Paired(a, b, a, b)
      BY DEF Paired
    <2> QED
      BY <2>1, <2>2
  <1>7. ASSUME NEW n \in 0..N, n \in S, n < N PROVE n + 1 \in S
    <2>1. n + 1 \in 0..N /\ n + 1 # 0 /\ n + 1 - 1 = n
      BY <1>5, <1>7
    <2>2. f[n + 1] = Put(f[n], items[n + 1]) /\ g[n + 1] = Put(g[n], items[n + 1])
      BY <1>3, <1>4, <2>1
    <2>3. Paired(a, b, f[n], g[n])
      BY <1>7
    <2>4. Paired(a, b, Put(f[n], items[n + 1]), Put(g[n], items[n + 1]))
      BY <2>3, PutPaired
    <2> QED
      BY <2>1, <2>2, <2>4
  <1> HIDE DEF S
  <1>8. N \in S
    <2>1. \A n \in 0..N : n \in S
      BY <1>5, <1>6, <1>7, PlaceByPlace
    <2>2. N \in 0..N
      BY <1>5
    <2> QED
      BY <2>1, <2>2
  <1> QED
    BY <1>1, <1>2, <1>8 DEF S

\* The modules of a surface among the first capabilities.
Noted(modules, s, c) == IF s \in workspace.marked[c] THEN Append(modules, c) ELSE modules

Marking(f, s) ==
    f = [n \in 0..Len(workspace.active) |->
            IF n = 0 THEN <<>> ELSE Noted(f[n - 1], s, workspace.active[n])]

\* resolveSurfaceModules goes through the capabilities one by one.
LEMMA ModulesStages ==
    ASSUME NEW s, Len(workspace.active) \in Nat
    PROVE  \E f : Marking(f, s) /\ Modules(s) = f[Len(workspace.active)]
  <1> DEFINE N == Len(workspace.active)
             UpToHere(f, m) == f = [n \in 0..m |-> IF n = 0 THEN <<>> ELSE Noted(f[n - 1], s, workspace.active[n])]
             S == {m \in 0..N : \E f : UpToHere(f, m)}
  <1>1. 0 \in S
    <2> DEFINE f == [n \in 0..0 |-> <<>>]
    <2>1. f = [n \in 0..0 |-> IF n = 0 THEN <<>> ELSE Noted(f[n - 1], s, workspace.active[n])]
      OBVIOUS
    <2>2. UpToHere(f, 0)
      BY <2>1
    <2>3. 0 \in 0..N
      OBVIOUS
    <2> HIDE DEF f, UpToHere
    <2> QED
      BY <2>2, <2>3
  <1>2. ASSUME NEW m \in 0..N, m \in S, m < N PROVE m + 1 \in S
    <2>1. PICK f : UpToHere(f, m)
      BY <1>2
    <2> DEFINE g == [n \in 0..m + 1 |-> IF n <= m THEN f[n] ELSE Noted(f[m], s, workspace.active[m + 1])]
               h == [n \in 0..m + 1 |-> IF n = 0 THEN <<>> ELSE Noted(g[n - 1], s, workspace.active[n])]
    <2>2. ASSUME NEW n \in 0..m + 1 PROVE g[n] = h[n]
      <3>1. m \in Nat /\ n \in Int
        BY <1>2
      <3>2. CASE n = 0
        <4>1. f[0] = <<>>
          BY <2>1, <3>1
        <4> QED
          BY <3>1, <3>2, <4>1
      <3>3. CASE n # 0 /\ n <= m
        <4>1. n \in 0..m /\ n - 1 \in 0..m /\ n - 1 \in 0..m + 1
          BY <3>1, <3>3
        <4>2. f[n] = Noted(f[n - 1], s, workspace.active[n])
          BY <2>1, <3>3, <4>1
        <4>3. g[n] = f[n] /\ g[n - 1] = f[n - 1]
          BY <3>1, <3>3, <4>1
        <4> QED
          BY <3>3, <4>2, <4>3
      <3>4. CASE n = m + 1
        <4>1. m \in 0..m + 1 /\ n # 0 /\ n - 1 = m /\ ~(n <= m) /\ m <= m
          BY <3>1, <3>4
        <4>2. g[n] = Noted(f[m], s, workspace.active[m + 1]) /\ g[m] = f[m]
          BY <4>1
        <4>3. h[n] = Noted(g[m], s, workspace.active[m + 1])
          BY <3>4, <4>1
        <4> QED
          BY <4>2, <4>3
      <3> QED
        BY <3>1, <3>2, <3>3, <3>4
    <2>3. g = h
      BY <2>2
    <2> HIDE DEF g
    <2>4. UpToHere(g, m + 1)
      BY <2>3
    <2>5. m + 1 \in 0..N
      BY <1>2
    <2> QED
      BY <2>4, <2>5
  <1>3. N \in Nat
    OBVIOUS
  <1> HIDE DEF UpToHere
  <1>4. N \in 0..N
    BY <1>3
  <1> HIDE DEF S, N
  <1>5. \A i \in 0..N : i \in S
    BY <1>1, <1>2, <1>3, PlaceByPlace
  <1>6. \E f : UpToHere(f, N)
    BY <1>4, <1>5 DEF S
  <1> DEFINE marked[n \in 0..Len(workspace.active)] == IF n = 0 THEN <<>> ELSE Noted(marked[n - 1], s, workspace.active[n])
  <1>7. marked = CHOOSE f : UpToHere(f, N)
    BY DEF UpToHere, N
  <1>8. UpToHere(marked, N)
    BY <1>6, <1>7
  <1>9. Modules(s) = marked[Len(workspace.active)]
    BY DEF Modules, Noted
  <1>10. Marking(marked, s)
    BY <1>8 DEF Marking, UpToHere, N
  <1> HIDE DEF marked
  <1> QED
    BY <1>9, <1>10

\* The registries one call leaves, one module after the other.
Giving(f, s, M) ==
    f = [n \in 0..M |-> IF n = 0 THEN <<>> ELSE PutAll(f[n - 1], Items(Modules(s)[n], s))]

\* An undisturbed call goes through the modules one by one.
LEMMA RegisteredStages ==
    ASSUME NEW s, NEW M \in Nat
    PROVE  \E f : Giving(f, s, M) /\ RegisteredBy(s, M) = f[M]
  <1> DEFINE N == M
             UpToHere(f, m) == f = [n \in 0..m |-> IF n = 0 THEN <<>> ELSE PutAll(f[n - 1], Items(Modules(s)[n], s))]
             S == {m \in 0..N : \E f : UpToHere(f, m)}
  <1>1. 0 \in S
    <2> DEFINE f == [n \in 0..0 |-> <<>>]
    <2>1. f = [n \in 0..0 |-> IF n = 0 THEN <<>> ELSE PutAll(f[n - 1], Items(Modules(s)[n], s))]
      OBVIOUS
    <2>2. UpToHere(f, 0)
      BY <2>1
    <2>3. 0 \in 0..N
      OBVIOUS
    <2> HIDE DEF f, UpToHere
    <2> QED
      BY <2>2, <2>3
  <1>2. ASSUME NEW m \in 0..N, m \in S, m < N PROVE m + 1 \in S
    <2>1. PICK f : UpToHere(f, m)
      BY <1>2
    <2> DEFINE g == [n \in 0..m + 1 |-> IF n <= m THEN f[n] ELSE PutAll(f[m], Items(Modules(s)[m + 1], s))]
               h == [n \in 0..m + 1 |-> IF n = 0 THEN <<>> ELSE PutAll(g[n - 1], Items(Modules(s)[n], s))]
    <2>2. ASSUME NEW n \in 0..m + 1 PROVE g[n] = h[n]
      <3>1. m \in Nat /\ n \in Int
        BY <1>2
      <3>2. CASE n = 0
        <4>1. f[0] = <<>>
          BY <2>1, <3>1
        <4> QED
          BY <3>1, <3>2, <4>1
      <3>3. CASE n # 0 /\ n <= m
        <4>1. n \in 0..m /\ n - 1 \in 0..m /\ n - 1 \in 0..m + 1
          BY <3>1, <3>3
        <4>2. f[n] = PutAll(f[n - 1], Items(Modules(s)[n], s))
          BY <2>1, <3>3, <4>1
        <4>3. g[n] = f[n] /\ g[n - 1] = f[n - 1]
          BY <3>1, <3>3, <4>1
        <4> QED
          BY <3>3, <4>2, <4>3
      <3>4. CASE n = m + 1
        <4>1. m \in 0..m + 1 /\ n # 0 /\ n - 1 = m /\ ~(n <= m) /\ m <= m
          BY <3>1, <3>4
        <4>2. g[n] = PutAll(f[m], Items(Modules(s)[m + 1], s)) /\ g[m] = f[m]
          BY <4>1
        <4>3. h[n] = PutAll(g[m], Items(Modules(s)[m + 1], s))
          BY <3>4, <4>1
        <4> QED
          BY <4>2, <4>3
      <3> QED
        BY <3>1, <3>2, <3>3, <3>4
    <2>3. g = h
      BY <2>2
    <2> HIDE DEF g
    <2>4. UpToHere(g, m + 1)
      BY <2>3
    <2>5. m + 1 \in 0..N
      BY <1>2
    <2> QED
      BY <2>4, <2>5
  <1>3. N \in Nat
    OBVIOUS
  <1> HIDE DEF UpToHere
  <1>4. N \in 0..N
    BY <1>3
  <1> HIDE DEF S, N
  <1>5. \A i \in 0..N : i \in S
    BY <1>1, <1>2, <1>3, PlaceByPlace
  <1>6. \E f : UpToHere(f, N)
    BY <1>4, <1>5 DEF S
  <1> DEFINE registered[n \in 0..M] == IF n = 0 THEN <<>> ELSE PutAll(registered[n - 1], Items(Modules(s)[n], s))
  <1>7. registered = CHOOSE f : UpToHere(f, N)
    BY DEF UpToHere, N
  <1>8. UpToHere(registered, N)
    BY <1>6, <1>7
  <1>9. RegisteredBy(s, M) = registered[M]
    BY DEF RegisteredBy
  <1>10. Giving(registered, s, M)
    BY <1>8 DEF Giving, UpToHere, N
  <1> HIDE DEF registered
  <1> QED
    BY <1>9, <1>10

\* The modules of a surface are capabilities of the workspace, in a row.
LEMMA ModulesInARow ==
    ASSUME IsWorkspace(workspace), NEW s
    PROVE  /\ Modules(s) \in Seq(Capabilities) /\ Len(Modules(s)) \in Nat
           /\ DOMAIN Modules(s) = 1..Len(Modules(s))
           /\ \A j \in 1..Len(Modules(s)) : Modules(s)[j] \in Capabilities
  <1> DEFINE N == Len(workspace.active)
  <1>1. N \in Nat /\ \A n \in 1..N : workspace.active[n] \in Capabilities
    BY LenProperties DEF IsWorkspace
  <1>2. PICK f : Marking(f, s) /\ Modules(s) = f[N]
    BY <1>1, ModulesStages
  <1> DEFINE S == {n \in 0..N : f[n] \in Seq(Capabilities)}
  <1>3. f = [n \in 0..N |-> IF n = 0 THEN <<>> ELSE Noted(f[n - 1], s, workspace.active[n])]
    BY <1>2 DEF Marking
  <1> HIDE DEF N
  <1>4. 0 \in S
    <2>1. 0 \in 0..N /\ f[0] = <<>>
      BY <1>1, <1>3
    <2>2. f[0] \in Seq(Capabilities)
      BY <2>1, EmptySeq
    <2> QED
      BY <2>1, <2>2
  <1>5. ASSUME NEW n \in 0..N, n \in S, n < N PROVE n + 1 \in S
    <2>1. n + 1 \in 0..N /\ n + 1 \in 1..N /\ n + 1 # 0 /\ n + 1 - 1 = n
      BY <1>1, <1>5
    <2>2. f[n + 1] = Noted(f[n], s, workspace.active[n + 1])
      BY <1>3, <2>1
    <2>3. f[n] \in Seq(Capabilities) /\ workspace.active[n + 1] \in Capabilities
      BY <1>1, <1>5, <2>1
    <2>4. f[n + 1] \in Seq(Capabilities)
      BY <2>2, <2>3 DEF Noted
    <2> QED
      BY <2>1, <2>4
  <1> HIDE DEF S
  <1>6. N \in S
    <2>1. \A n \in 0..N : n \in S
      BY <1>1, <1>4, <1>5, PlaceByPlace
    <2>2. N \in 0..N
      BY <1>1
    <2> QED
      BY <2>1, <2>2
  <1>7. Modules(s) \in Seq(Capabilities)
    BY <1>2, <1>6 DEF S
  <1> HIDE <1>2
  <1> QED
    BY <1>7, LenProperties

\* What a call registers with one module more.
LEMMA RegisteredSteps ==
    ASSUME NEW s, NEW n \in Nat
    PROVE  /\ RegisteredBy(s, 0) = <<>>
           /\ RegisteredBy(s, n + 1) = PutAll(RegisteredBy(s, n), Items(Modules(s)[n + 1], s))
  <1>1. ASSUME NEW f, NEW g, Giving(f, s, n), Giving(g, s, n + 1) PROVE f[n] = g[n]
    <2> DEFINE S == {i \in 0..n : f[i] = g[i]}
    <2>1. f = [i \in 0..n |-> IF i = 0 THEN <<>> ELSE PutAll(f[i - 1], Items(Modules(s)[i], s))]
      BY <1>1 DEF Giving
    <2>2. g = [i \in 0..n + 1 |-> IF i = 0 THEN <<>> ELSE PutAll(g[i - 1], Items(Modules(s)[i], s))]
      BY <1>1 DEF Giving
    <2>3. 0 \in S
      <3>1. 0 \in 0..n /\ 0 \in 0..n + 1
        OBVIOUS
      <3> QED
        BY <2>1, <2>2, <3>1
    <2>4. ASSUME NEW i \in 0..n, i \in S, i < n PROVE i + 1 \in S
      <3>1. i + 1 \in 0..n /\ i + 1 \in 0..n + 1 /\ i + 1 # 0 /\ i + 1 - 1 = i
        BY <2>4
      <3>2. f[i + 1] = PutAll(f[i], Items(Modules(s)[i + 1], s))
        BY <2>1, <3>1
      <3>3. g[i + 1] = PutAll(g[i], Items(Modules(s)[i + 1], s))
        BY <2>2, <3>1
      <3> QED
        BY <2>4, <3>1, <3>2, <3>3
    <2> HIDE DEF S
    <2>5. \A i \in 0..n : i \in S
      BY <2>3, <2>4, PlaceByPlace
    <2>6. n \in S
      BY <2>5
    <2> QED
      BY <2>6 DEF S
  <1>2. PICK z : Giving(z, s, 0) /\ RegisteredBy(s, 0) = z[0]
    BY RegisteredStages
  <1>3. z = [i \in 0..0 |-> IF i = 0 THEN <<>> ELSE PutAll(z[i - 1], Items(Modules(s)[i], s))]
    BY <1>2 DEF Giving
  <1>4. z[0] = <<>>
    BY <1>3
  <1>5. PICK f : Giving(f, s, n) /\ RegisteredBy(s, n) = f[n]
    BY RegisteredStages
  <1>6. n + 1 \in Nat
    OBVIOUS
  <1>7. PICK g : Giving(g, s, n + 1) /\ RegisteredBy(s, n + 1) = g[n + 1]
    BY <1>6, RegisteredStages
  <1>8. g[n + 1] = PutAll(g[n], Items(Modules(s)[n + 1], s))
    <2>1. g = [i \in 0..n + 1 |-> IF i = 0 THEN <<>> ELSE PutAll(g[i - 1], Items(Modules(s)[i], s))]
      BY <1>7 DEF Giving
    <2>2. n + 1 \in 0..n + 1 /\ n + 1 # 0 /\ n + 1 - 1 = n
      OBVIOUS
    <2> QED
      BY <2>1, <2>2
  <1> QED
    BY <1>1, <1>2, <1>4, <1>5, <1>7, <1>8

\* The items of a module are a row, and empty without an export.
LEMMA ItemsInARow ==
    ASSUME IsWorkspace(workspace), NEW c \in Capabilities, NEW s \in Surfaces
    PROVE  /\ Items(c, s) \in Seq(Range(Items(c, s))) /\ Len(Items(c, s)) \in Nat
           /\ ~Exports(c, s) => Items(c, s) = <<>>
  <1> DEFINE row == Items(c, s)
             ids == workspace.items[c][s]
  <1>1. ids \in Seq(Range(ids))
    BY DEF IsWorkspace
  <1> HIDE DEF ids
  <1>2. Len(ids) \in Nat /\ DOMAIN ids = 1..Len(ids)
    BY <1>1, LenProperties
  <1>3. row = [k \in 1..Len(ids) |-> [id |-> ids[k], of |-> c]]
    BY <1>2 DEF Items, ids
  <1>4. ~Exports(c, s) => ids = <<>>
    BY DEF Exports, ids
  <1> HIDE DEF row
  <1>5. DOMAIN row = 1..Len(ids) /\ row = [k \in 1..Len(ids) |-> row[k]]
    BY <1>3
  <1>6. row \in Seq(Range(row)) /\ Len(row) = Len(ids)
    BY <1>2, <1>5, RowOf
  <1>7. ids = <<>> => row = <<>>
    <2> SUFFICES ASSUME ids = <<>> PROVE row = <<>>
      OBVIOUS
    <2>1. Len(row) = 0
      BY <1>6
    <2> QED
      BY <1>6, <2>1, EmptySeq
  <1> QED
    BY <1>2, <1>4, <1>6, <1>7 DEF row

\* An empty row changes nothing.
LEMMA PutNothing ==
    ASSUME NEW r
    PROVE  PutAll(r, <<>>) = r
  <1>1. Len(<<>>) = 0
    OBVIOUS
  <1>2. PICK f : Stages(f, r, <<>>) /\ PutAll(r, <<>>) = f[Len(<<>>)]
    BY <1>1, PutAllStages
  <1>3. f = [n \in 0..0 |-> IF n = 0 THEN r ELSE Put(f[n - 1], <<>>[n])]
    BY <1>1, <1>2 DEF Stages
  <1>4. f[0] = r
    BY <1>3
  <1> QED
    BY <1>1, <1>2, <1>4

\* The items the first modules of a surface bring.
Brought(s, n) == UNION {Range(Items(Modules(s)[j], s)) : j \in 1..n}

\* A registry one call leaves holds what its modules bring, every id once.
LEMMA RegisteredHolds ==
    ASSUME IsWorkspace(workspace), NEW s \in Surfaces
    PROVE  \A n \in 0..Len(Modules(s)) :
              /\ IsRegistry(RegisteredBy(s, n))
              /\ Range(RegisteredBy(s, n)) \subseteq Brought(s, n)
              /\ ItemIdsOf(RegisteredBy(s, n)) = {x.id : x \in Brought(s, n)}
  <1> DEFINE M == Len(Modules(s))
             Holds(n) == /\ IsRegistry(RegisteredBy(s, n))
                         /\ Range(RegisteredBy(s, n)) \subseteq Brought(s, n)
                         /\ ItemIdsOf(RegisteredBy(s, n)) = {x.id : x \in Brought(s, n)}
             S == {n \in 0..M : Holds(n)}
  <1>1. M \in Nat /\ \A j \in 1..M : Modules(s)[j] \in Capabilities
    BY ModulesInARow
  <1> HIDE DEF M
  <1>2. 0 \in S
    <2>1. RegisteredBy(s, 0) = <<>>
      BY RegisteredSteps
    <2>2. Brought(s, 0) = {}
      BY DEF Brought
    <2>3. Range(<<>>) = {} /\ ItemIdsOf(<<>>) = {}
      BY DEF Range, ItemIdsOf
    <2>4. IsRegistry(<<>>)
      BY <2>3 DEF IsRegistry
    <2>5. Holds(0)
      BY <2>1, <2>2, <2>3, <2>4
    <2>6. 0 \in 0..M
      BY <1>1
    <2> HIDE DEF Holds
    <2> QED
      BY <2>5, <2>6
  <1>3. ASSUME NEW n \in 0..M, n \in S, n < M PROVE n + 1 \in S
    <2> DEFINE c == Modules(s)[n + 1]
               row == Items(c, s)
               old == RegisteredBy(s, n)
               new == RegisteredBy(s, n + 1)
    <2>1. n \in Nat /\ n + 1 \in 1..M /\ n + 1 \in 0..M
      BY <1>1, <1>3
    <2>2. Holds(n)
      BY <1>3
    <2>3. c \in Capabilities
      BY <1>1, <2>1
    <2>4. row \in Seq(Range(row))
      BY <2>3, ItemsInARow
    <2>5. Brought(s, n + 1) = Brought(s, n) \cup Range(row)
      <3>1. \A j : j \in 1..n + 1 <=> j \in 1..n \/ j = n + 1
        BY <2>1
      <3> QED
        BY <3>1 DEF Brought
    <2>6. new = PutAll(old, row)
      BY <2>1, RegisteredSteps
    <2>7. IsRegistry(old) /\ Range(old) \subseteq Brought(s, n)
          /\ ItemIdsOf(old) = {x.id : x \in Brought(s, n)}
      BY <2>2
    <2> HIDE DEF row, old, new, Holds
    <2>8. Grown(new, old, Range(row))
      BY <2>4, <2>6, <2>7, PutAllGrown
    <2>9. /\ IsRegistry(new)
          /\ Range(new) \subseteq Brought(s, n + 1)
          /\ ItemIdsOf(new) = {x.id : x \in Brought(s, n + 1)}
      BY <2>5, <2>7, <2>8 DEF Grown
    <2>10. Holds(n + 1)
      BY <2>9 DEF Holds, new
    <2> QED
      BY <2>1, <2>10
  <1> HIDE DEF S, Holds
  <1>4. \A n \in 0..M : n \in S
    BY <1>1, <1>2, <1>3, PlaceByPlace
  <1> QED
    BY <1>4 DEF S, M, Holds

\* The modules a call has given to the registry of its surface.
Progress(call) == IF call.written THEN call.at ELSE call.at - 1

\* Each surface has a registry of its own, and a host holds that one.
HubKept(h, hd) ==
    /\ h = [registries |-> h.registries, contents |-> h.contents]
    /\ h.contents \in Seq(Range(h.contents))
    /\ \A i \in 1..Len(h.contents) : IsRegistry(h.contents[i])
    /\ DOMAIN h.registries \subseteq Surfaces
    /\ \A s \in DOMAIN h.registries : h.registries[s] \in 1..Len(h.contents)
    /\ \A s, t \in DOMAIN h.registries : h.registries[s] = h.registries[t] => s = t
    /\ hd = [s \in Surfaces |-> hd[s]]
    /\ \A s \in Surfaces : hd[s] # 0 => s \in DOMAIN h.registries /\ hd[s] = h.registries[s]

CallShapes ==
    [surface : Surfaces, direct : BOOLEAN, modules : Seq(Capabilities), at : Nat,
     phase : {"loading", "registering", "done", "failed"}, written : BOOLEAN,
     activated : Seq(Capabilities)]

\* A call goes through the modules of its surface; what it passed did load, and what
\* it lists as activated is what it passed and exports.
CallKept(call, hd) ==
    /\ call \in CallShapes
    /\ call.modules = Modules(call.surface)
    /\ call.direct => hd[call.surface] # 0
    /\ call.at \in 1..Len(Modules(call.surface)) + 1
    /\ UnderWay(call) \/ call.written => call.at <= Len(Modules(call.surface))
    /\ call.written => call.phase \in {"registering", "failed"}
    /\ call.phase = "done" => call.at = Len(Modules(call.surface)) + 1
    /\ call.phase = "registering" =>
        /\ Loadable(Current(call), call.surface)
        /\ Exports(Current(call), call.surface)
    /\ \A j \in 1..call.at - 1 : Loadable(Modules(call.surface)[j], call.surface)
    /\ Range(call.activated) =
        {c \in Capabilities : \E j \in 1..call.at - 1 :
            Modules(call.surface)[j] = c /\ Exports(c, call.surface)}

CallsKept(cs, hd) ==
    /\ cs \in Seq(CallShapes)
    /\ \A k \in 1..Len(cs) : CallKept(cs[k], hd)

\* The ids of a registry are those the first modules of its surface bring, as many
\* modules as any call has given it at least.
IdsKept(listed, cs, s) ==
    \E n \in 0..Len(Modules(s)) :
        /\ SameIds(listed, RegisteredBy(s, n))
        /\ \A k \in 1..Len(cs) : cs[k].surface = s => Progress(cs[k]) <= n

\* Every item is one a module of the surface brings.
ItemsKept(listed, s) == Range(listed) \subseteq Brought(s, Len(Modules(s)))

\* Where calls did not overlap, only the last is under way, and what it gave is there.
ValuesKept(listed, cs, over, s) ==
    s \notin over =>
        \A k \in 1..Len(cs) : cs[k].surface = s =>
            /\ UnderWay(cs[k]) => \A j \in 1..Len(cs) : cs[j].surface = s => j <= k
            /\ (\A j \in 1..Len(cs) : cs[j].surface = s => j <= k) =>
                Range(RegisteredBy(s, Progress(cs[k]))) \subseteq Range(listed)

ListingKept(listed, cs, over, s) ==
    IdsKept(listed, cs, s) /\ ItemsKept(listed, s) /\ ValuesKept(listed, cs, over, s)

AllKept(h, hd, cs, over) ==
    /\ HubKept(h, hd)
    /\ CallsKept(cs, hd)
    /\ \A s \in Surfaces : ListingKept(Listed(h, s), cs, over, s)

\* The inductive invariant.
SurfaceInv == IsWorkspace(workspace) /\ AllKept(hub, held, calls, overlapped)

-----------------------------------------------------------------------------
\* The hub.

LEMMA ListedIsRegistry ==
    ASSUME NEW h, NEW hd, HubKept(h, hd), NEW s
    PROVE  IsRegistry(Listed(h, s))
  <1>1. Range(<<>>) = {} /\ IsRegistry(<<>>)
    BY EmptySeq DEF Range, IsRegistry
  <1>2. CASE Created(h, s)
    BY <1>2 DEF Listed, Created, HubKept
  <1>3. CASE ~Created(h, s)
    BY <1>1, <1>3 DEF Listed
  <1> QED
    BY <1>2, <1>3

\* A hub that has been asked for a registry lists what it did.
LEMMA EnsureKeeps ==
    ASSUME NEW h, NEW hd, HubKept(h, hd), NEW s \in Surfaces, NEW e, e = Ensure(h, s)
    PROVE  /\ HubKept(e, hd)
           /\ s \in DOMAIN e.registries
           /\ \A t : t \in DOMAIN h.registries => t \in DOMAIN e.registries /\ e.registries[t] = h.registries[t]
           /\ \A t : Listed(e, t) = Listed(h, t)
  <1>1. CASE Created(h, s)
    <2>1. e = h
      BY <1>1 DEF Ensure
    <2> QED
      BY <1>1, <2>1 DEF Created
  <1>2. CASE ~Created(h, s)
    <2> DEFINE n == Len(h.contents)
               C == e.contents
               R == e.registries
    <2>1. n \in Nat /\ DOMAIN h.contents = 1..n
      BY LenProperties DEF HubKept
    <2>2. e = [registries |-> [t \in DOMAIN h.registries \cup {s} |->
                                IF t = s THEN n + 1 ELSE h.registries[t]],
               contents |-> Append(h.contents, <<>>)]
      BY <1>2 DEF Ensure
    <2>3. R = [t \in DOMAIN h.registries \cup {s} |-> IF t = s THEN n + 1 ELSE h.registries[t]]
      BY <2>2
    <2>4. C = Append(h.contents, <<>>) /\ e = [registries |-> R, contents |-> C]
      BY <2>2
    <2> DEFINE T == Range(h.contents) \cup {<<>>}
    <2>5. h.contents \in Seq(T) /\ <<>> \in T
      <3>1. h.contents \in Seq(Range(h.contents))
        BY DEF HubKept
      <3>2. h.contents \in [1..n -> T]
        BY <2>1, <3>1 DEF Range
      <3> QED
        BY <2>1, <3>2
    <2> HIDE DEF C, R, T, n
    <2>6. C \in Seq(T) /\ Len(C) = n + 1 /\ C[n + 1] = <<>> /\ \A i \in 1..n : C[i] = h.contents[i]
      BY <2>4, <2>5, AppendProperties DEF n
    <2>7. C \in Seq(Range(C))
      <3>1. DOMAIN C = 1..n + 1 /\ C = [i \in 1..n + 1 |-> C[i]]
        BY <2>6, LenProperties
      <3> QED
        BY <2>1, <3>1, RowOf
    <2>8. DOMAIN R = DOMAIN h.registries \cup {s} /\ R[s] = n + 1
          /\ \A t \in DOMAIN h.registries : R[t] = h.registries[t] /\ t # s /\ R[t] \in 1..n
      BY <1>2, <2>3 DEF Created, HubKept, n
    <2>9. IsRegistry(<<>>)
      BY EmptySeq DEF Range, IsRegistry
    <2>10. \A i \in 1..n + 1 : IsRegistry(C[i])
      <3>1. \A i \in 1..n + 1 : i \in 1..n \/ i = n + 1
        BY <2>1
      <3> QED
        BY <2>6, <2>9, <3>1 DEF HubKept, n
    <2>11. DOMAIN R \subseteq Surfaces /\ \A t \in DOMAIN R : R[t] \in 1..n + 1
      BY <2>1, <2>8 DEF HubKept
    <2>12. n + 1 \notin 1..n
      BY <2>1
    <2>13. ASSUME NEW t \in DOMAIN R, NEW u \in DOMAIN R, R[t] = R[u] PROVE t = u
      BY <2>8, <2>12, <2>13 DEF HubKept
    <2>14. \A t \in Surfaces : hd[t] # 0 => t \in DOMAIN R /\ hd[t] = R[t]
      BY <2>8 DEF HubKept
    <2>15. hd = [t \in Surfaces |-> hd[t]]
      BY DEF HubKept
    <2>16. HubKept(e, hd)
      BY <2>4, <2>6, <2>7, <2>10, <2>11, <2>13, <2>14, <2>15 DEF HubKept, C, R
    <2>17. ASSUME NEW t PROVE Listed(e, t) = Listed(h, t)
      <3>1. CASE t = s
        <4>1. Listed(h, t) = <<>>
          BY <1>2, <3>1 DEF Listed
        <4>2. Listed(e, t) = C[n + 1]
          BY <2>8, <3>1 DEF Listed, Created, C, R
        <4> QED
          BY <2>6, <4>1, <4>2
      <3>2. CASE t \in DOMAIN h.registries
        <4>1. Listed(h, t) = h.contents[h.registries[t]]
          BY <3>2 DEF Listed, Created
        <4>2. Listed(e, t) = C[R[t]]
          BY <2>8, <3>2 DEF Listed, Created, C, R
        <4> QED
          BY <2>6, <2>8, <3>2, <4>1, <4>2
      <3>3. CASE t # s /\ t \notin DOMAIN h.registries
        BY <2>8, <3>3 DEF Listed, Created, R
      <3> QED
        BY <3>1, <3>2, <3>3
    <2> QED
      BY <2>8, <2>16, <2>17 DEF R
  <1> QED
    BY <1>1, <1>2

\* Registering on a registry gives its surface the items and no other one.
LEMMA RegisterHeldGives ==
    ASSUME NEW h, NEW hd, HubKept(h, hd), NEW s \in DOMAIN h.registries,
           NEW items, items \in Seq(Range(items)),
           NEW g, g = RegisterHeld(h, h.registries[s], items)
    PROVE  /\ HubKept(g, hd)
           /\ Listed(g, s) = PutAll(Listed(h, s), items)
           /\ \A t : t # s => Listed(g, t) = Listed(h, t)
  <1> DEFINE n == Len(h.contents)
             p == h.registries[s]
             C == g.contents
             new == PutAll(h.contents[p], items)
  <1>1. n \in Nat /\ DOMAIN h.contents = 1..n /\ p \in 1..n /\ s \in Surfaces
    BY LenProperties DEF HubKept
  <1>2. IsRegistry(h.contents[p])
    BY <1>1 DEF HubKept
  <1>3. IsRegistry(new)
    <2>1. Grown(new, h.contents[p], Range(items))
      BY <1>2, PutAllGrown
    <2> QED
      BY <2>1 DEF Grown
  <1> HIDE DEF new, n
  <1>4. /\ g.registries = h.registries
        /\ C = [i \in 1..n |-> IF i = p THEN new ELSE h.contents[i]]
        /\ g = [registries |-> g.registries, contents |-> C]
    <2>1. g = [h EXCEPT !.contents[p] = PutAll(@, items)]
      BY DEF RegisterHeld
    <2>2. h = [registries |-> h.registries, contents |-> h.contents]
      BY DEF HubKept
    <2>3. DOMAIN h = {"registries", "contents"}
      BY <2>2
    <2>4. g.contents = [h.contents EXCEPT ![p] = PutAll(@, items)] /\ g.registries = h.registries
          /\ DOMAIN g = {"registries", "contents"}
      BY <2>1, <2>3
    <2>5. C = [i \in 1..n |-> IF i = p THEN new ELSE h.contents[i]]
      BY <1>1, <2>4 DEF new
    <2>6. g = [registries |-> g.registries, contents |-> C]
      BY <2>1, <2>3, <2>4
    <2> QED
      BY <2>4, <2>5, <2>6
  <1> HIDE DEF C, p
  <1>5. DOMAIN C = 1..n /\ C = [i \in 1..n |-> C[i]] /\ C[p] = new
        /\ \A i \in 1..n : i # p => C[i] = h.contents[i]
    BY <1>1, <1>4
  <1>6. C \in Seq(Range(C)) /\ Len(C) = n
    BY <1>1, <1>5, RowOf
  <1>7. \A i \in 1..n : IsRegistry(C[i])
    BY <1>3, <1>5 DEF HubKept, n
  <1>8. HubKept(g, hd)
    BY <1>4, <1>6, <1>7 DEF HubKept, C, n
  <1>9. Listed(g, s) = new /\ Listed(h, s) = h.contents[p]
    BY <1>1, <1>4, <1>5 DEF Listed, Created, C, p
  <1>10. ASSUME NEW t, t # s PROVE Listed(g, t) = Listed(h, t)
    <2>1. CASE t \in DOMAIN h.registries
      <3>1. h.registries[t] \in 1..n /\ h.registries[t] # p
        BY <1>10, <2>1 DEF HubKept, n, p
      <3> QED
        BY <1>4, <1>5, <2>1, <3>1 DEF Listed, Created, C
    <2>2. CASE t \notin DOMAIN h.registries
      BY <1>4, <2>2 DEF Listed, Created
    <2> QED
      BY <2>1, <2>2
  <1> QED
    BY <1>8, <1>9, <1>10 DEF new

\* Registering through the hub does the same, and creates the registry first.
LEMMA RegisterGives ==
    ASSUME NEW h, NEW hd, HubKept(h, hd), NEW s \in Surfaces,
           NEW items, items \in Seq(Range(items)), NEW g, g = Register(h, s, items)
    PROVE  /\ HubKept(g, hd)
           /\ Listed(g, s) = PutAll(Listed(h, s), items)
           /\ \A t : t # s => Listed(g, t) = Listed(h, t)
  <1> DEFINE e == Ensure(h, s)
  <1>1. g = RegisterHeld(e, e.registries[s], items)
    BY DEF Register
  <1> HIDE DEF e
  <1>2. HubKept(e, hd) /\ s \in DOMAIN e.registries /\ \A t : Listed(e, t) = Listed(h, t)
    BY EnsureKeeps DEF e
  <1>3. /\ HubKept(g, hd)
        /\ Listed(g, s) = PutAll(Listed(e, s), items)
        /\ \A t : t # s => Listed(g, t) = Listed(e, t)
    BY <1>1, <1>2, RegisterHeldGives
  <1> QED
    BY <1>2, <1>3

-----------------------------------------------------------------------------
\* What a surface lists, as calls go on.

\* The calls ds are the calls cs with call k now c, on the same surface and not begun
\* again.
Goes(cs, ds, k, c) ==
    /\ Len(cs) \in Nat /\ Len(ds) = Len(cs) /\ k \in 1..Len(cs)
    /\ ds[k] = c /\ \A j \in 1..Len(cs) : j # k => ds[j] = cs[j]
    /\ c.surface = cs[k].surface
    /\ UnderWay(c) => UnderWay(cs[k])

\* Calls stay on their surfaces, and none of them begins again.
LEMMA SurfacesSame ==
    ASSUME NEW cs, NEW ds, NEW k, NEW c, Goes(cs, ds, k, c)
    PROVE  /\ \A j \in 1..Len(cs) : ds[j].surface = cs[j].surface
           /\ \A j \in 1..Len(cs) : UnderWay(ds[j]) => UnderWay(cs[j])
  BY DEF Goes

\* A step that gives a surface nothing.
LEMMA QuietKeeps ==
    ASSUME NEW cs, NEW ds, NEW k, NEW c, Goes(cs, ds, k, c),
           NEW s, cs[k].surface = s => Progress(c) = Progress(cs[k]),
           NEW listed, NEW over, ListingKept(listed, cs, over, s)
    PROVE  ListingKept(listed, ds, over, s)
  <1> DEFINE n == Len(cs)
  <1>1. n \in Nat /\ Len(ds) = n
    BY DEF Goes
  <1>2. \A j \in 1..n : ds[j].surface = cs[j].surface /\ (UnderWay(ds[j]) => UnderWay(cs[j]))
    BY SurfacesSame
  <1>3. \A j \in 1..n : cs[j].surface = s => Progress(ds[j]) = Progress(cs[j])
    BY DEF Goes
  <1>4. IdsKept(listed, ds, s)
    <2>1. PICK m \in 0..Len(Modules(s)) :
            /\ SameIds(listed, RegisteredBy(s, m))
            /\ \A j \in 1..n : cs[j].surface = s => Progress(cs[j]) <= m
      BY DEF ListingKept, IdsKept
    <2>2. \A j \in 1..n : ds[j].surface = s => Progress(ds[j]) <= m
      BY <1>2, <1>3, <2>1
    <2> QED
      BY <1>1, <2>1, <2>2 DEF IdsKept
  <1>5. ValuesKept(listed, ds, over, s)
    <2> SUFFICES ASSUME s \notin over, NEW j \in 1..n, ds[j].surface = s
                 PROVE  /\ UnderWay(ds[j]) => \A i \in 1..n : ds[i].surface = s => i <= j
                        /\ (\A i \in 1..n : ds[i].surface = s => i <= j) =>
                             Range(RegisteredBy(s, Progress(ds[j]))) \subseteq Range(listed)
      BY <1>1 DEF ValuesKept
    <2>1. cs[j].surface = s /\ Progress(ds[j]) = Progress(cs[j])
      BY <1>2, <1>3
    <2>2. /\ UnderWay(cs[j]) => \A i \in 1..n : cs[i].surface = s => i <= j
          /\ (\A i \in 1..n : cs[i].surface = s => i <= j) =>
               Range(RegisteredBy(s, Progress(cs[j]))) \subseteq Range(listed)
      BY <2>1 DEF ListingKept, ValuesKept
    <2> QED
      BY <1>2, <2>1, <2>2
  <1> QED
    BY <1>4, <1>5 DEF ListingKept

\* A step that gives a surface the items of the call's next module.
LEMMA GivingKeeps ==
    ASSUME IsWorkspace(workspace), NEW s \in Surfaces,
           NEW cs, NEW ds, NEW k, NEW c, Goes(cs, ds, k, c), cs[k].surface = s, UnderWay(cs[k]),
           NEW p \in Nat, Progress(cs[k]) = p, Progress(c) = p + 1, p + 1 \in 1..Len(Modules(s)),
           NEW listed, IsRegistry(listed), NEW over, ListingKept(listed, cs, over, s),
           NEW given, given = PutAll(listed, Items(Modules(s)[p + 1], s)),
           \A j \in 1..Len(cs) : Progress(cs[j]) \in Int
    PROVE  ListingKept(given, ds, over, s)
  <1> DEFINE n == Len(cs)
             M == Len(Modules(s))
             row == Items(Modules(s)[p + 1], s)
  <1>1. n \in Nat /\ Len(ds) = n /\ M \in Nat /\ k \in 1..n
    BY ModulesInARow DEF Goes
  <1>2. \A j \in 1..n : ds[j].surface = cs[j].surface /\ (UnderWay(ds[j]) => UnderWay(cs[j]))
    BY SurfacesSame
  <1>3. \A j \in 1..n : j # k => Progress(ds[j]) = Progress(cs[j])
    BY DEF Goes
  <1>4. Progress(ds[k]) = p + 1
    BY DEF Goes
  <1>5. row \in Seq(Range(row)) /\ Len(row) \in Nat
    BY ModulesInARow, ItemsInARow
  <1>6. Range(row) \subseteq Brought(s, M) /\ \A m \in 0..M : p + 1 <= m => Range(row) \subseteq Brought(s, m)
    <2>1. \A m \in 0..M : p + 1 <= m => p + 1 \in 1..m
      BY <1>1
    <2>2. M \in 0..M /\ p + 1 <= M
      BY <1>1
    <2>3. \A m \in 0..M : p + 1 <= m => Range(row) \subseteq Brought(s, m)
      BY <2>1 DEF Brought
    <2> QED
      BY <2>2, <2>3
  <1> HIDE DEF row, n, M
  <1>7. given = PutAll(listed, row)
    BY DEF row
  <1>8. Grown(given, listed, Range(row))
    BY <1>5, <1>7, PutAllGrown
  <1>9. ItemsKept(given, s)
    BY <1>6, <1>8 DEF ListingKept, ItemsKept, Grown, M
  <1>10. IdsKept(given, ds, s)
    <2>1. PICK m \in 0..M :
            /\ SameIds(listed, RegisteredBy(s, m))
            /\ \A j \in 1..n : cs[j].surface = s => Progress(cs[j]) <= m
      BY DEF ListingKept, IdsKept, n, M
    <2>2. /\ IsRegistry(RegisteredBy(s, m))
          /\ ItemIdsOf(RegisteredBy(s, m)) = {x.id : x \in Brought(s, m)}
      BY RegisteredHolds DEF M
    <2>3. p <= m /\ m \in Nat
      BY <1>1, <2>1
    <2>4. CASE p + 1 <= m
      <3>1. \A j \in 1..n : ds[j].surface = s => Progress(ds[j]) <= m
        BY <1>2, <1>3, <1>4, <2>1, <2>4
      <3>2. ItemIdsOf(listed) = ItemIdsOf(RegisteredBy(s, m))
        <4> DEFINE whole == RegisteredBy(s, m)
        <4>1. \A i : i \in ItemIdsOf(listed) <=> \E j \in 1..Len(listed) : listed[j].id = i
          BY RegistryPlaces
        <4>2. \A i : i \in ItemIdsOf(whole) <=> \E j \in 1..Len(whole) : whole[j].id = i
          BY <2>2, RegistryPlaces
        <4>3. Len(listed) = Len(whole) /\ \A j \in 1..Len(listed) : listed[j].id = whole[j].id
          BY <2>1 DEF SameIds
        <4> HIDE DEF whole
        <4>4. \A i : i \in ItemIdsOf(listed) <=> i \in ItemIdsOf(whole)
          BY <4>1, <4>2, <4>3
        <4>5. ItemIdsOf(listed) = {e.id : e \in Range(listed)} /\ ItemIdsOf(whole) = {e.id : e \in Range(whole)}
          BY DEF ItemIdsOf, Range
        <4>6. ItemIdsOf(listed) = ItemIdsOf(whole)
          BY <4>4, <4>5
        <4> QED
          BY <4>6 DEF whole
      <3>3. \A x \in Range(row) : x.id \in ItemIdsOf(listed)
        BY <1>6, <2>2, <2>4, <3>2
      <3>4. Len(given) = Len(listed) /\ \A i \in 1..Len(listed) : given[i].id = listed[i].id
        BY <1>8, <3>3 DEF Grown
      <3>5. SameIds(given, RegisteredBy(s, m))
        BY <2>1, <3>4 DEF SameIds
      <3> QED
        BY <1>1, <3>1, <3>5 DEF IdsKept, M
    <2>5. CASE m = p
      <3> DEFINE old == RegisteredBy(s, m)
                 new == RegisteredBy(s, m + 1)
      <3>1. new = PutAll(old, row)
        BY <2>3, <2>5, RegisteredSteps DEF row
      <3> HIDE DEF new
      <3>2. Paired(listed, old, given, new)
        BY <1>5, <1>7, <2>2, <3>1, PutAllPaired
      <3>3. SameIds(given, new)
        BY <2>1, <3>2 DEF Paired
      <3>4. m + 1 \in 0..M
        BY <1>1, <2>3, <2>5 DEF M
      <3>5. \A j \in 1..n : ds[j].surface = s => Progress(ds[j]) <= m + 1
        <4> SUFFICES ASSUME NEW j \in 1..n, ds[j].surface = s PROVE Progress(ds[j]) <= m + 1
          OBVIOUS
        <4>1. CASE j = k
          BY <1>4, <2>3, <2>5, <4>1
        <4>2. CASE j # k
          <5>1. Progress(ds[j]) = Progress(cs[j]) /\ Progress(cs[j]) <= m /\ Progress(cs[j]) \in Int
            BY <1>2, <1>3, <2>1, <4>2 DEF n
          <5> QED
            BY <2>3, <5>1
        <4> QED
          BY <4>1, <4>2
      <3> QED
        BY <1>1, <3>3, <3>4, <3>5 DEF IdsKept, M, new
    <2> QED
      BY <2>3, <2>4, <2>5
  <1>11. ValuesKept(given, ds, over, s)
    <2> SUFFICES ASSUME s \notin over, NEW j \in 1..n, ds[j].surface = s
                 PROVE  /\ UnderWay(ds[j]) => \A i \in 1..n : ds[i].surface = s => i <= j
                        /\ (\A i \in 1..n : ds[i].surface = s => i <= j) =>
                             Range(RegisteredBy(s, Progress(ds[j]))) \subseteq Range(given)
      BY <1>1 DEF ValuesKept
    <2>1. \A i \in 1..n : cs[i].surface = s =>
            /\ UnderWay(cs[i]) => \A h \in 1..n : cs[h].surface = s => h <= i
            /\ (\A h \in 1..n : cs[h].surface = s => h <= i) =>
                 Range(RegisteredBy(s, Progress(cs[i]))) \subseteq Range(listed)
      BY DEF ListingKept, ValuesKept, n
    <2>2. \A i \in 1..n : cs[i].surface = s => i <= k
      BY <1>1, <2>1
    <2>3. Range(RegisteredBy(s, p)) \subseteq Range(listed)
      BY <1>1, <2>1, <2>2
    <2>4. UnderWay(ds[j]) => \A i \in 1..n : ds[i].surface = s => i <= j
      BY <1>2, <2>1
    <2>5. ASSUME \A i \in 1..n : ds[i].surface = s => i <= j
          PROVE  Range(RegisteredBy(s, Progress(ds[j]))) \subseteq Range(given)
      <3>1. j = k
        <4>1. ds[k].surface = s
          BY <1>1, <1>2
        <4>2. k <= j /\ j <= k
          BY <1>1, <1>2, <2>2, <2>5, <4>1
        <4> QED
          BY <1>1, <4>2
      <3>2. p \in 0..M /\ p + 1 \in Nat
        BY <1>1 DEF M
      <3>3. IsRegistry(RegisteredBy(s, p))
        BY <3>2, RegisteredHolds DEF M
      <3>4. RegisteredBy(s, p + 1) = PutAll(RegisteredBy(s, p), row)
        BY RegisteredSteps DEF row
      <3>5. Paired(RegisteredBy(s, p), listed, RegisteredBy(s, p + 1), given)
        BY <1>5, <1>7, <3>3, <3>4, PutAllPaired
      <3> QED
        BY <1>4, <2>3, <3>1, <3>5 DEF Paired
    <2> QED
      BY <2>4, <2>5
  <1> QED
    BY <1>9, <1>10, <1>11 DEF ListingKept

\* The calls ds are the calls cs and c, which has given nothing.
Joins(cs, ds, c) ==
    /\ Len(cs) \in Nat /\ Len(ds) = Len(cs) + 1
    /\ ds[Len(cs) + 1] = c /\ \A j \in 1..Len(cs) : ds[j] = cs[j]
    /\ Progress(c) = 0

\* The surfaces with overlapping calls, once the call c is made.
Overlaps(cs, c, over) ==
    IF \E j \in 1..Len(cs) : cs[j].surface = c.surface /\ UnderWay(cs[j])
    THEN over \cup {c.surface} ELSE over

LEMMA ComposeKeeps ==
    ASSUME NEW cs, NEW ds, NEW c, Joins(cs, ds, c), NEW s, NEW over,
           NEW listed, ListingKept(listed, cs, over, s)
    PROVE  ListingKept(listed, ds, Overlaps(cs, c, over), s)
  <1> DEFINE n == Len(cs)
             after == Overlaps(cs, c, over)
  <1>1. n \in Nat
    BY DEF Joins
  <1>2. \A j \in 1..n + 1 : j \in 1..n \/ j = n + 1
    BY <1>1
  <1>3. \A j \in 1..n : j \in 1..n + 1 /\ j # n + 1 /\ ~(n + 1 <= j) /\ j <= n + 1
    BY <1>1
  <1>4. n + 1 \in 1..n + 1 /\ n + 1 <= n + 1
    BY <1>1
  <1> HIDE DEF n, after
  <1>5. Progress(c) = 0 /\ Len(ds) = n + 1 /\ ds[n + 1] = c /\ \A j \in 1..n : ds[j] = cs[j]
    BY DEF Joins, n
  <1>6. IdsKept(listed, ds, s)
    <2>1. PICK m \in 0..Len(Modules(s)) :
            /\ SameIds(listed, RegisteredBy(s, m))
            /\ \A j \in 1..n : cs[j].surface = s => Progress(cs[j]) <= m
      BY DEF ListingKept, IdsKept, n
    <2>2. 0 <= m
      BY <2>1
    <2>3. \A j \in 1..n + 1 : ds[j].surface = s => Progress(ds[j]) <= m
      BY <1>2, <1>5, <2>1, <2>2
    <2> QED
      BY <1>5, <2>1, <2>3 DEF IdsKept
  <1>7. ValuesKept(listed, ds, after, s)
    <2> SUFFICES ASSUME s \notin after, NEW j \in 1..n + 1, ds[j].surface = s
                 PROVE  /\ UnderWay(ds[j]) => \A i \in 1..n + 1 : ds[i].surface = s => i <= j
                        /\ (\A i \in 1..n + 1 : ds[i].surface = s => i <= j) =>
                             Range(RegisteredBy(s, Progress(ds[j]))) \subseteq Range(listed)
      BY <1>5 DEF ValuesKept
    <2>1. s \notin over /\ (c.surface = s => \A i \in 1..n : cs[i].surface = s => ~UnderWay(cs[i]))
      BY DEF n, after, Overlaps
    <2>2. \A i \in 1..n : cs[i].surface = s =>
            /\ UnderWay(cs[i]) => \A h \in 1..n : cs[h].surface = s => h <= i
            /\ (\A h \in 1..n : cs[h].surface = s => h <= i) =>
                 Range(RegisteredBy(s, Progress(cs[i]))) \subseteq Range(listed)
      BY <2>1 DEF ListingKept, ValuesKept, n
    <2>3. CASE j = n + 1
      <3>1. RegisteredBy(s, 0) = <<>>
        BY RegisteredSteps
      <3>2. Range(RegisteredBy(s, 0)) = {}
        BY <3>1 DEF Range
      <3>3. \A i \in 1..n + 1 : i <= j
        BY <1>2, <1>3, <1>4, <2>3
      <3>4. Progress(ds[j]) = 0
        BY <1>5, <2>3
      <3> QED
        BY <3>2, <3>3, <3>4
    <2>4. CASE j \in 1..n /\ c.surface = s
      <3>1. ~UnderWay(ds[j])
        BY <1>5, <2>1, <2>4
      <3>2. ds[n + 1].surface = s /\ ~(n + 1 <= j)
        BY <1>3, <1>5, <2>4
      <3> QED
        BY <1>4, <3>1, <3>2
    <2>5. CASE j \in 1..n /\ c.surface # s
      <3>1. ds[j] = cs[j] /\ cs[j].surface = s
        BY <1>5, <2>5
      <3>2. \A i \in 1..n + 1 : ds[i].surface = s => i \in 1..n /\ cs[i].surface = s
        BY <1>2, <1>5, <2>5
      <3>3. \A i \in 1..n : cs[i].surface = s => i \in 1..n + 1 /\ ds[i].surface = s
        BY <1>3, <1>5
      <3> QED
        BY <2>2, <2>5, <3>1, <3>2, <3>3
    <2> QED
      BY <1>2, <2>3, <2>4, <2>5
  <1> QED
    BY <1>6, <1>7 DEF ListingKept, after

-----------------------------------------------------------------------------
\* The calls.

LEMMA NewCallKept ==
    ASSUME IsWorkspace(workspace), NEW s \in Surfaces, NEW direct \in BOOLEAN, NEW hd,
           direct => hd[s] # 0, NEW c, c = Call(s, direct)
    PROVE  CallKept(c, hd) /\ Progress(c) = 0 /\ c.surface = s
  <1>1. Modules(s) \in Seq(Capabilities) /\ Len(Modules(s)) \in Nat
    BY ModulesInARow
  <1>2. /\ c.surface = s /\ c.direct = direct /\ c.modules = Modules(s) /\ c.at = 1
        /\ c.phase = (IF Modules(s) = <<>> THEN "done" ELSE "loading")
        /\ c.written = FALSE /\ c.activated = <<>>
    BY DEF Call
  <1>3. <<>> \in Seq(Capabilities) /\ Len(<<>>) = 0 /\ (Modules(s) # <<>> => Len(Modules(s)) \in Nat \ {0})
    BY <1>1, EmptySeq
  <1>4. c \in CallShapes
    BY <1>1, <1>3 DEF Call, CallShapes
  <1>5. 1..c.at - 1 = {}
    BY <1>2
  <1>6. Range(c.activated) = {}
    BY <1>2 DEF Range
  <1>7. c.phase = "done" => Len(Modules(s)) = 0
    BY <1>2, <1>3
  <1>8. UnderWay(c) => 1 <= Len(Modules(s))
    BY <1>2, <1>3 DEF UnderWay
  <1>9. 1 \in 1..Len(Modules(s)) + 1
    BY <1>1
  <1>10. Range(c.activated) = {d \in Capabilities : \E j \in 1..c.at - 1 :
                                  Modules(c.surface)[j] = d /\ Exports(d, c.surface)}
    BY <1>5, <1>6
  <1>11. Progress(c) = 0
    BY <1>2 DEF Progress
  <1> HIDE DEF Progress
  <1> QED
    BY <1>2, <1>4, <1>5, <1>7, <1>8, <1>9, <1>10, <1>11 DEF CallKept

\* What is known of a call under way.
LEMMA UnderWayCall ==
    ASSUME IsWorkspace(workspace), NEW hd, NEW c, CallKept(c, hd), UnderWay(c), NEW s, s = c.surface
    PROVE  /\ s \in Surfaces /\ c.at \in Nat /\ c.at \in 1..Len(Modules(s)) /\ Len(Modules(s)) \in Nat
           /\ Current(c) = Modules(s)[c.at] /\ Current(c) \in Capabilities
           /\ c.modules = Modules(s)
  <1>1. /\ Len(Modules(s)) \in Nat
        /\ \A j \in 1..Len(Modules(s)) : Modules(s)[j] \in Capabilities
    BY ModulesInARow
  <1>2. c.surface \in Surfaces /\ c.modules = Modules(s) /\ c.at \in 1..Len(Modules(s)) + 1
        /\ c.at <= Len(Modules(s))
    BY DEF CallKept, CallShapes
  <1>3. c.at \in 1..Len(Modules(s)) /\ c.at \in Nat
    BY <1>1, <1>2
  <1> QED
    BY <1>1, <1>2, <1>3 DEF Current

\* A call that ends in failure.
LEMMA FailKept ==
    ASSUME NEW hd, NEW c, CallKept(c, hd), UnderWay(c), NEW d, d = [c EXCEPT !.phase = "failed"]
    PROVE  CallKept(d, hd) /\ Progress(d) = Progress(c) /\ d.surface = c.surface /\ ~UnderWay(d)
  <1>1. c \in CallShapes
    BY DEF CallKept
  <1>2. /\ d \in CallShapes
        /\ d.surface = c.surface /\ d.direct = c.direct /\ d.modules = c.modules /\ d.at = c.at
        /\ d.phase = "failed" /\ d.written = c.written /\ d.activated = c.activated
    BY <1>1 DEF CallShapes
  <1>3. ~UnderWay(d)
    BY <1>2 DEF UnderWay
  <1>4. CallKept(d, hd)
    BY <1>2, <1>3 DEF CallKept
  <1> QED
    BY <1>2, <1>3, <1>4 DEF Progress

\* A loaded module is handed to the host.
LEMMA HandOverKept ==
    ASSUME NEW hd, NEW c, CallKept(c, hd), c.phase = "loading",
           Loadable(Current(c), c.surface), Exports(Current(c), c.surface),
           NEW d, d = [c EXCEPT !.phase = "registering"]
    PROVE  CallKept(d, hd) /\ Progress(d) = Progress(c) /\ d.surface = c.surface /\ UnderWay(c)
  <1>1. c \in CallShapes /\ UnderWay(c)
    BY DEF CallKept, UnderWay
  <1>2. /\ d \in CallShapes
        /\ d.surface = c.surface /\ d.direct = c.direct /\ d.modules = c.modules /\ d.at = c.at
        /\ d.phase = "registering" /\ d.written = c.written /\ d.activated = c.activated
    BY <1>1 DEF CallShapes
  <1>3. Current(d) = Current(c)
    BY <1>2 DEF Current
  <1>4. CallKept(d, hd)
    BY <1>1, <1>2, <1>3 DEF CallKept
  <1> QED
    BY <1>1, <1>2, <1>4 DEF Progress

\* The host has written.
LEMMA WriteKept ==
    ASSUME NEW hd, NEW c, CallKept(c, hd), c.phase = "registering", ~c.written,
           NEW d, d = [c EXCEPT !.written = TRUE]
    PROVE  /\ CallKept(d, hd) /\ Progress(c) = c.at - 1 /\ Progress(d) = c.at
           /\ d.surface = c.surface /\ UnderWay(c)
  <1>1. c \in CallShapes /\ UnderWay(c)
    BY DEF CallKept, UnderWay
  <1>2. /\ d \in CallShapes
        /\ d.surface = c.surface /\ d.direct = c.direct /\ d.modules = c.modules /\ d.at = c.at
        /\ d.phase = c.phase /\ d.written = TRUE /\ d.activated = c.activated
    BY <1>1 DEF CallShapes
  <1>3. Current(d) = Current(c)
    BY <1>2 DEF Current
  <1>4. CallKept(d, hd)
    BY <1>1, <1>2, <1>3 DEF CallKept
  <1> QED
    BY <1>1, <1>2, <1>4 DEF Progress

\* The loop goes on, past a module that is listed as activated when it exports.
LEMMA AdvanceKept ==
    ASSUME IsWorkspace(workspace), NEW hd, NEW c, CallKept(c, hd), UnderWay(c),
           Loadable(Current(c), c.surface),
           NEW act, act = IF Exports(Current(c), c.surface) THEN Append(c.activated, Current(c))
                                                            ELSE c.activated,
           NEW d, d = Advance([c EXCEPT !.activated = act])
    PROVE  /\ CallKept(d, hd) /\ d.surface = c.surface
           /\ Progress(d) = c.at
  <1> DEFINE s == c.surface
             M == Len(Modules(s))
             b == [c EXCEPT !.activated = act]
  <1>1. c \in CallShapes
    BY DEF CallKept
  <1>2. /\ s \in Surfaces /\ c.at \in Nat /\ c.at \in 1..M /\ M \in Nat
        /\ Current(c) = Modules(s)[c.at] /\ Current(c) \in Capabilities
        /\ c.modules = Modules(s)
    BY UnderWayCall
  <1>3. c.activated \in Seq(Capabilities) /\ act \in Seq(Capabilities)
    BY <1>1, <1>2 DEF CallShapes
  <1>4. /\ b \in CallShapes /\ b.surface = s /\ b.direct = c.direct /\ b.modules = c.modules
        /\ b.at = c.at /\ b.activated = act
    BY <1>1, <1>3 DEF CallShapes
  <1> HIDE DEF b
  <1> DEFINE phase == IF b.at = Len(b.modules) THEN "done" ELSE "loading"
  <1>5. d = [b EXCEPT !.at = b.at + 1, !.written = FALSE, !.phase = phase]
    BY DEF Advance, b
  <1>6. b.at + 1 \in Nat /\ phase \in {"loading", "registering", "done", "failed"}
        /\ phase = IF c.at = M THEN "done" ELSE "loading"
    BY <1>2, <1>4
  <1> HIDE DEF phase
  <1>7. /\ d \in CallShapes /\ d.surface = s /\ d.direct = c.direct /\ d.modules = Modules(s)
        /\ d.at = c.at + 1 /\ d.written = FALSE /\ d.activated = act
        /\ d.phase = IF c.at = M THEN "done" ELSE "loading"
    <2>1. /\ d \in CallShapes /\ d.surface = b.surface /\ d.direct = b.direct
          /\ d.modules = b.modules /\ d.at = b.at + 1 /\ d.written = FALSE
          /\ d.activated = b.activated /\ d.phase = phase
      BY <1>4, <1>5, <1>6 DEF CallShapes
    <2> QED
      BY <1>2, <1>4, <1>6, <2>1
  <1>8. c.at + 1 \in 1..M + 1 /\ c.at + 1 - 1 = c.at
    BY <1>2
  <1>9. Progress(d) = c.at
    <2>1. ~d.written /\ d.at - 1 = c.at
      BY <1>2, <1>7
    <2> QED
      BY <2>1 DEF Progress
  <1>10. UnderWay(d) => c.at + 1 <= M
    BY <1>2, <1>7 DEF UnderWay
  <1>11. \A j : j \in 1..d.at - 1 <=> j \in 1..c.at - 1 \/ j = c.at
    BY <1>2, <1>7
  <1>12. \A j \in 1..d.at - 1 : Loadable(Modules(s)[j], s)
    BY <1>2, <1>11 DEF CallKept
  <1>13. Range(act) = {x \in Capabilities : \E j \in 1..d.at - 1 : Modules(s)[j] = x /\ Exports(x, s)}
    <2>1. Range(c.activated) = {x \in Capabilities : \E j \in 1..c.at - 1 : Modules(s)[j] = x /\ Exports(x, s)}
      BY DEF CallKept
    <2>2. CASE Exports(Current(c), s)
      <3>1. Range(act) = Range(c.activated) \cup {Current(c)}
        <4> DEFINE a == c.activated
                   m == Len(a)
        <4>1. act = Append(a, Current(c)) /\ a \in Seq(Capabilities)
          BY <1>3, <2>2
        <4> HIDE DEF a
        <4>2. /\ Len(act) = m + 1 /\ act[m + 1] = Current(c)
              /\ \A i \in 1..m : act[i] = a[i]
          BY <1>2, <4>1, AppendProperties
        <4>3. m \in Nat /\ DOMAIN a = 1..m /\ DOMAIN act = 1..m + 1
          BY <1>3, <4>1, <4>2, LenProperties
        <4> HIDE DEF m
        <4>4. \A i : i \in 1..m + 1 <=> i \in 1..m \/ i = m + 1
          BY <4>3
        <4> QED
          BY <4>2, <4>3, <4>4 DEF Range, a
      <3> QED
        BY <1>2, <1>11, <2>1, <2>2, <3>1
    <2>3. CASE ~Exports(Current(c), s)
      <3>1. act = c.activated
        BY <2>3
      <3> QED
        BY <1>2, <1>11, <2>1, <2>3, <3>1
    <2> QED
      BY <2>2, <2>3
  <1>14. d.direct => hd[s] # 0
    BY <1>7 DEF CallKept
  <1>15. ~d.written /\ d.phase # "registering" /\ (d.phase = "done" => d.at = M + 1)
    BY <1>2, <1>7
  <1>16. UnderWay(d) \/ d.written => d.at <= M
    BY <1>7, <1>10, <1>15
  <1> HIDE DEF s, M, UnderWay
  <1>17. d.surface = s /\ d.modules = Modules(s) /\ d.at \in 1..M + 1 /\ d \in CallShapes /\ d.activated = act
    BY <1>7, <1>8
  <1>18. CallKept(d, hd)
    BY <1>12, <1>13, <1>14, <1>15, <1>16, <1>17 DEF CallKept, M
  <1> QED
    BY <1>9, <1>17, <1>18 DEF s

-----------------------------------------------------------------------------
\* The steps.

LEMMA CallsInARow ==
    ASSUME NEW cs, NEW hd, CallsKept(cs, hd)
    PROVE  /\ Len(cs) \in Nat /\ DOMAIN cs = 1..Len(cs)
           /\ \A k \in 1..Len(cs) : cs[k] \in CallShapes /\ CallKept(cs[k], hd)
  <1>1. cs \in Seq(CallShapes)
    BY DEF CallsKept
  <1> QED
    BY <1>1, LenProperties DEF CallsKept

\* What a call has given is a number of modules.
LEMMA ProgressWhole ==
    ASSUME NEW cs, NEW hd, CallsKept(cs, hd)
    PROVE  \A k \in 1..Len(cs) : Progress(cs[k]) \in Int
  <1>1. \A k \in 1..Len(cs) : cs[k].at \in Nat
    BY CallsInARow DEF CallShapes
  <1> QED
    BY <1>1 DEF Progress

\* One call goes on.
LEMMA CallGoes ==
    ASSUME NEW cs, NEW hd, CallsKept(cs, hd), NEW k \in 1..Len(cs), NEW d, CallKept(d, hd),
           d.surface = cs[k].surface, UnderWay(d) => UnderWay(cs[k]),
           NEW ds, ds = [cs EXCEPT ![k] = d]
    PROVE  CallsKept(ds, hd) /\ Goes(cs, ds, k, d)
  <1>1. /\ Len(cs) \in Nat /\ DOMAIN cs = 1..Len(cs) /\ cs \in Seq(CallShapes)
        /\ \A j \in 1..Len(cs) : CallKept(cs[j], hd)
    BY CallsInARow DEF CallsKept
  <1>2. d \in CallShapes
    BY DEF CallKept
  <1>3. ds \in Seq(CallShapes) /\ Len(ds) = Len(cs)
    BY <1>1, <1>2
  <1>4. ds[k] = d /\ \A j \in 1..Len(cs) : j # k => ds[j] = cs[j]
    BY <1>1
  <1>5. CallsKept(ds, hd)
    BY <1>1, <1>3, <1>4 DEF CallsKept
  <1> QED
    BY <1>1, <1>3, <1>4, <1>5 DEF Goes

\* A call that goes on without giving its surface anything.
LEMMA QuietStep ==
    ASSUME NEW h, NEW hd, NEW cs, NEW over, AllKept(h, hd, cs, over),
           NEW k \in 1..Len(cs), NEW d, CallKept(d, hd), d.surface = cs[k].surface,
           UnderWay(d) => UnderWay(cs[k]), Progress(d) = Progress(cs[k]),
           NEW ds, ds = [cs EXCEPT ![k] = d]
    PROVE  AllKept(h, hd, ds, over)
  <1>1. CallsKept(cs, hd)
    BY DEF AllKept
  <1>2. CallsKept(ds, hd) /\ Goes(cs, ds, k, d)
    BY <1>1, CallGoes
  <1>3. ASSUME NEW s \in Surfaces PROVE ListingKept(Listed(h, s), ds, over, s)
    <2>1. ListingKept(Listed(h, s), cs, over, s)
      BY DEF AllKept
    <2> QED
      BY <1>2, <2>1, QuietKeeps
  <1> QED
    BY <1>2, <1>3 DEF AllKept

\* The hub h becomes g: the surface s is given the items, and no other one.
Gives(h, g, hd, s, items) ==
    /\ HubKept(g, hd)
    /\ Listed(g, s) = PutAll(Listed(h, s), items)
    /\ \A t \in Surfaces : t # s => Listed(g, t) = Listed(h, t)

\* A call that gives its surface its next module's items.
LEMMA GivingStep ==
    ASSUME IsWorkspace(workspace), NEW h, NEW hd, NEW cs, NEW over, AllKept(h, hd, cs, over),
           NEW k \in 1..Len(cs), UnderWay(cs[k]), Progress(cs[k]) = cs[k].at - 1,
           NEW d, CallKept(d, hd), d.surface = cs[k].surface, Progress(d) = cs[k].at,
           NEW g, Gives(h, g, hd, d.surface, Items(Current(cs[k]), d.surface))
    PROVE  AllKept(g, hd, [cs EXCEPT ![k] = d], over)
  <1> DEFINE s == d.surface
             c == cs[k]
             p == c.at - 1
             ds == [cs EXCEPT ![k] = d]
  <1>1. CallsKept(cs, hd) /\ CallKept(c, hd)
    BY CallsInARow DEF AllKept
  <1>2. /\ s \in Surfaces /\ c.at \in Nat /\ c.at \in 1..Len(Modules(s))
        /\ Current(c) = Modules(s)[c.at]
    BY <1>1, UnderWayCall
  <1>3. p \in Nat /\ p + 1 = c.at
    BY <1>2
  <1>4. CallsKept(ds, hd) /\ Goes(cs, ds, k, d)
    BY <1>1, CallGoes
  <1> HIDE DEF ds
  <1>5. \A j \in 1..Len(cs) : Progress(cs[j]) \in Int
    BY <1>1, ProgressWhole
  <1>6. ListingKept(Listed(g, s), ds, over, s)
    <2>1. ListingKept(Listed(h, s), cs, over, s) /\ IsRegistry(Listed(h, s))
      BY <1>2, ListedIsRegistry DEF AllKept
    <2>2. Listed(g, s) = PutAll(Listed(h, s), Items(Modules(s)[p + 1], s))
      BY <1>2, <1>3 DEF Gives
    <2>3. Progress(c) = p /\ Progress(d) = p + 1 /\ p + 1 \in 1..Len(Modules(s))
          /\ cs[k].surface = s
      BY <1>2, <1>3
    <2> HIDE DEF s, p
    <2> QED
      BY <1>2, <1>3, <1>4, <1>5, <2>1, <2>2, <2>3, GivingKeeps
  <1>7. ASSUME NEW t \in Surfaces PROVE ListingKept(Listed(g, t), ds, over, t)
    <2>1. CASE t = s
      BY <1>6, <2>1
    <2>2. CASE t # s
      <3>1. ListingKept(Listed(g, t), cs, over, t)
        BY <2>2 DEF AllKept, Gives
      <3>2. cs[k].surface = t => Progress(d) = Progress(cs[k])
        BY <2>2
      <3> QED
        BY <1>4, <3>1, <3>2, QuietKeeps
    <2> QED
      BY <2>1, <2>2
  <1> QED
    BY <1>4, <1>7 DEF AllKept, Gives, ds

\* One lemma per action: the host takes a registry,
LEMMA HoldKept ==
    ASSUME SurfaceInv, NEW s \in Surfaces, Hold(s)
    PROVE  AllKept(hub', held', calls', overlapped')
  <1>1. held[s] = 0 /\ hub' = Ensure(hub, s) /\ held' = [held EXCEPT ![s] = hub'.registries[s]]
        /\ calls' = calls /\ overlapped' = overlapped
    BY DEF Hold
  <1>2. HubKept(hub, held) /\ CallsKept(calls, held)
    BY DEF SurfaceInv, AllKept
  <1>3. /\ HubKept(hub', held) /\ s \in DOMAIN hub'.registries
        /\ \A t : Listed(hub', t) = Listed(hub, t)
    BY <1>1, <1>2, EnsureKeeps
  <1>4. \A i \in 1..Len(hub'.contents) : i # 0
    <2>1. Len(hub'.contents) \in Nat
      BY <1>3, LenProperties DEF HubKept
    <2> QED
      BY <2>1
  <1>5. hub'.registries[s] # 0
    BY <1>3, <1>4 DEF HubKept
  <1>6. DOMAIN held = Surfaces
    BY <1>2 DEF HubKept
  <1>7. held'[s] = hub'.registries[s] /\ held' = [t \in Surfaces |-> held'[t]]
        /\ \A t \in Surfaces : t # s => held'[t] = held[t]
    BY <1>1, <1>6
  <1>8. HubKept(hub', held')
    BY <1>3, <1>7 DEF HubKept
  <1>9. \A t \in Surfaces : held[t] # 0 => held'[t] # 0
    BY <1>1, <1>7
  <1>10. CallsKept(calls, held')
    <2>1. \A k \in 1..Len(calls) : CallKept(calls[k], held) /\ calls[k].surface \in Surfaces
      BY <1>2, CallsInARow DEF CallShapes
    <2>2. \A k \in 1..Len(calls) : CallKept(calls[k], held')
      BY <1>9, <2>1 DEF CallKept
    <2> QED
      BY <1>2, <2>2 DEF CallsKept
  <1>11. \A t \in Surfaces : ListingKept(Listed(hub', t), calls, overlapped, t)
    BY <1>3 DEF SurfaceInv, AllKept
  <1> QED
    BY <1>1, <1>8, <1>10, <1>11 DEF AllKept

\* a call is made,
LEMMA ComposeKept ==
    ASSUME SurfaceInv, NEW s \in Surfaces, NEW direct \in BOOLEAN, Compose(s, direct)
    PROVE  AllKept(hub', held', calls', overlapped')
  <1> DEFINE c == Call(s, direct)
  <1>1. (direct => held[s] # 0) /\ calls' = Append(calls, c)
        /\ hub' = hub /\ held' = held
    BY DEF Compose
  <1>2. HubKept(hub, held) /\ CallsKept(calls, held) /\ IsWorkspace(workspace)
    BY DEF SurfaceInv, AllKept
  <1>3. Len(calls) \in Nat /\ DOMAIN calls = 1..Len(calls) /\ calls \in Seq(CallShapes)
        /\ \A k \in 1..Len(calls) : CallKept(calls[k], held)
    BY <1>2, CallsInARow DEF CallsKept
  <1>4. overlapped' = IF \E k \in 1..Len(calls) : calls[k].surface = s /\ UnderWay(calls[k])
                      THEN overlapped \cup {s} ELSE overlapped
    BY <1>3 DEF Compose
  <1>5. CallKept(c, held) /\ Progress(c) = 0 /\ c.surface = s
    BY <1>1, <1>2, NewCallKept
  <1> HIDE DEF c
  <1>6. c \in CallShapes
    BY <1>5 DEF CallKept
  <1>7. calls' \in Seq(CallShapes) /\ Len(calls') = Len(calls) + 1
        /\ calls'[Len(calls) + 1] = c /\ \A j \in 1..Len(calls) : calls'[j] = calls[j]
    BY <1>1, <1>3, <1>6, AppendProperties
  <1>8. CallsKept(calls', held)
    <2>1. \A j \in 1..Len(calls) + 1 : j \in 1..Len(calls) \/ j = Len(calls) + 1
      BY <1>3
    <2> QED
      BY <1>3, <1>5, <1>7, <2>1 DEF CallsKept
  <1>9. ASSUME NEW t \in Surfaces PROVE ListingKept(Listed(hub, t), calls', overlapped', t)
    <2>1. ListingKept(Listed(hub, t), calls, overlapped, t)
      BY DEF SurfaceInv, AllKept
    <2>2. overlapped' = Overlaps(calls, c, overlapped)
      BY <1>4, <1>5 DEF Overlaps
    <2>3. Joins(calls, calls', c)
      BY <1>3, <1>5, <1>7 DEF Joins
    <2> QED
      BY <2>1, <2>2, <2>3, ComposeKeeps
  <1> QED
    BY <1>1, <1>2, <1>8, <1>9 DEF AllKept

\* a load or a registration rejects,
LEMMA FailStepKept ==
    ASSUME SurfaceInv, NEW k \in DOMAIN calls, LoadRejects(k) \/ RegisterRejects(k)
    PROVE  AllKept(hub', held', calls', overlapped')
  <1> DEFINE c == calls[k]
             d == [c EXCEPT !.phase = "failed"]
  <1>1. /\ AllKept(hub, held, calls, overlapped) /\ CallsKept(calls, held)
        /\ k \in 1..Len(calls) /\ CallKept(c, held)
    BY CallsInARow DEF SurfaceInv, AllKept
  <1>2. UnderWay(c) /\ calls' = [calls EXCEPT ![k] = d]
        /\ hub' = hub /\ held' = held /\ overlapped' = overlapped
    BY DEF LoadRejects, RegisterRejects, Step, UnderWay
  <1> HIDE DEF c
  <1>3. CallKept(d, held) /\ Progress(d) = Progress(c) /\ d.surface = c.surface /\ ~UnderWay(d)
    BY <1>1, <1>2, FailKept
  <1> HIDE DEF d
  <1>4. AllKept(hub, held, calls', overlapped)
    BY <1>1, <1>2, <1>3, QuietStep DEF c
  <1> QED
    BY <1>2, <1>4

\* a module with the export is loaded,
LEMMA LoadResolvesKept ==
    ASSUME SurfaceInv, NEW k \in DOMAIN calls, LoadResolves(k)
    PROVE  AllKept(hub', held', calls', overlapped')
  <1> DEFINE c == calls[k]
             d == [c EXCEPT !.phase = "registering"]
  <1>1. /\ AllKept(hub, held, calls, overlapped) /\ CallsKept(calls, held)
        /\ k \in 1..Len(calls) /\ CallKept(c, held)
    BY CallsInARow DEF SurfaceInv, AllKept
  <1>2. /\ c.phase = "loading" /\ Loadable(Current(c), c.surface) /\ Exports(Current(c), c.surface)
        /\ calls' = [calls EXCEPT ![k] = d]
        /\ hub' = hub /\ held' = held /\ overlapped' = overlapped
    BY DEF LoadResolves, Step
  <1> HIDE DEF c
  <1>3. CallKept(d, held) /\ Progress(d) = Progress(c) /\ d.surface = c.surface /\ UnderWay(c)
    BY <1>1, <1>2, HandOverKept
  <1> HIDE DEF d
  <1>4. AllKept(hub, held, calls', overlapped)
    BY <1>1, <1>2, <1>3, QuietStep DEF c
  <1> QED
    BY <1>2, <1>4

\* The host's callback gives the surface the items the module exports.
LEMMA HostGives ==
    ASSUME SurfaceInv, NEW k \in DOMAIN calls, HostWrites(k),
           NEW c, c = calls[k], NEW items, items = Items(Current(c), c.surface)
    PROVE  /\ Gives(hub, hub', held, c.surface, items)
           /\ c.surface \in Surfaces /\ items \in Seq(Range(items))
  <1> DEFINE s == c.surface
  <1>1. /\ CallsKept(calls, held) /\ HubKept(hub, held)
        /\ k \in 1..Len(calls) /\ CallKept(c, held) /\ IsWorkspace(workspace)
    BY CallsInARow DEF SurfaceInv, AllKept
  <1>2. /\ c.phase = "registering"
        /\ hub' = IF c.direct THEN RegisterHeld(hub, held[s], items) ELSE Register(hub, s, items)
    BY DEF HostWrites
  <1>3. s \in Surfaces /\ Current(c) \in Capabilities
    BY <1>1, <1>2, UnderWayCall DEF UnderWay
  <1>4. items \in Seq(Range(items))
    BY <1>1, <1>3, ItemsInARow
  <1>5. c.direct => s \in DOMAIN hub.registries /\ held[s] = hub.registries[s]
    BY <1>1, <1>3 DEF CallKept, HubKept
  <1> HIDE DEF s
  <1>6. /\ HubKept(hub', held)
        /\ Listed(hub', s) = PutAll(Listed(hub, s), items)
        /\ \A t : t # s => Listed(hub', t) = Listed(hub, t)
    <2>1. CASE c.direct
      BY <1>1, <1>2, <1>4, <1>5, <2>1, RegisterHeldGives
    <2>2. CASE ~c.direct
      BY <1>1, <1>2, <1>3, <1>4, <2>2, RegisterGives
    <2> QED
      BY <2>1, <2>2
  <1> QED
    BY <1>3, <1>4, <1>6 DEF Gives, s

\* the host's callback registers,
LEMMA HostWritesKept ==
    ASSUME SurfaceInv, NEW k \in DOMAIN calls, HostWrites(k)
    PROVE  AllKept(hub', held', calls', overlapped')
  <1> DEFINE c == calls[k]
             d == [c EXCEPT !.written = TRUE]
  <1>1. /\ AllKept(hub, held, calls, overlapped) /\ CallsKept(calls, held)
        /\ k \in 1..Len(calls) /\ CallKept(c, held) /\ IsWorkspace(workspace)
    BY CallsInARow DEF SurfaceInv, AllKept
  <1>2. /\ c.phase = "registering" /\ ~c.written
        /\ calls' = [calls EXCEPT ![k] = d]
        /\ held' = held /\ overlapped' = overlapped
    BY DEF HostWrites, Step
  <1> HIDE DEF c
  <1>3. /\ CallKept(d, held) /\ Progress(c) = c.at - 1 /\ Progress(d) = c.at
        /\ d.surface = c.surface /\ UnderWay(c)
    BY <1>1, <1>2, WriteKept
  <1> HIDE DEF d
  <1>4. Gives(hub, hub', held, c.surface, Items(Current(c), c.surface))
    BY HostGives DEF c
  <1>5. AllKept(hub', held, [calls EXCEPT ![k] = d], overlapped)
    <2>1. Gives(hub, hub', held, d.surface, Items(Current(calls[k]), d.surface))
      BY <1>3, <1>4 DEF c
    <2>2. UnderWay(calls[k]) /\ Progress(calls[k]) = calls[k].at - 1 /\ Progress(d) = calls[k].at
          /\ d.surface = calls[k].surface
      BY <1>3 DEF c
    <2> QED
      BY <1>1, <1>3, <2>1, <2>2, GivingStep
  <1> QED
    BY <1>2, <1>5

\* a module without the export is passed over,
LEMMA WithoutExportKept ==
    ASSUME SurfaceInv, NEW k \in DOMAIN calls, LoadWithoutExport(k)
    PROVE  AllKept(hub', held', calls', overlapped')
  <1> DEFINE c == calls[k]
             d == Advance([c EXCEPT !.activated = c.activated])
  <1>1. /\ AllKept(hub, held, calls, overlapped) /\ CallsKept(calls, held) /\ HubKept(hub, held)
        /\ k \in 1..Len(calls) /\ CallKept(c, held) /\ IsWorkspace(workspace)
    BY CallsInARow DEF SurfaceInv, AllKept
  <1>2. /\ c.phase = "loading" /\ Loadable(Current(c), c.surface) /\ ~Exports(Current(c), c.surface)
        /\ calls' = [calls EXCEPT ![k] = Advance(c)]
        /\ hub' = hub /\ held' = held /\ overlapped' = overlapped
    BY DEF LoadWithoutExport, Step
  <1> HIDE DEF c
  <1>3. c \in CallShapes /\ UnderWay(c) /\ ~c.written
    BY <1>1, <1>2 DEF CallKept, UnderWay
  <1>4. Advance(c) = d
    <2>1. [c EXCEPT !.activated = c.activated] = c
      BY <1>3 DEF CallShapes
    <2> QED
      BY <2>1
  <1> HIDE DEF d
  <1>5. CallKept(d, held) /\ d.surface = c.surface /\ Progress(d) = c.at
    <2>1. d = Advance([c EXCEPT !.activated = c.activated])
      BY DEF d
    <2> QED
      BY <1>1, <1>2, <1>3, <2>1, AdvanceKept
  <1>6. Progress(c) = c.at - 1
    BY <1>3 DEF Progress
  <1>7. c.surface \in Surfaces /\ Current(c) \in Capabilities
    BY <1>1, <1>3, UnderWayCall
  <1>8. Items(Current(c), c.surface) = <<>>
    BY <1>1, <1>2, <1>7, ItemsInARow
  <1>9. PutAll(Listed(hub, c.surface), <<>>) = Listed(hub, c.surface)
    BY PutNothing
  <1>10. AllKept(hub, held, calls', overlapped)
    <2>1. Gives(hub, hub, held, d.surface, Items(Current(calls[k]), d.surface))
      BY <1>1, <1>5, <1>8, <1>9 DEF Gives, c
    <2>2. UnderWay(calls[k]) /\ Progress(calls[k]) = calls[k].at - 1 /\ Progress(d) = calls[k].at
          /\ d.surface = calls[k].surface /\ calls' = [calls EXCEPT ![k] = d]
      BY <1>2, <1>3, <1>4, <1>5, <1>6 DEF c
    <2>3. AllKept(hub, held, [calls EXCEPT ![k] = d], overlapped)
      BY <1>1, <1>5, <2>1, <2>2, GivingStep
    <2> QED
      BY <2>2, <2>3
  <1> QED
    BY <1>2, <1>10

\* and a registration resolves.
LEMMA RegisterResolvesKept ==
    ASSUME SurfaceInv, NEW k \in DOMAIN calls, RegisterResolves(k)
    PROVE  AllKept(hub', held', calls', overlapped')
  <1> DEFINE c == calls[k]
             act == Append(c.activated, Current(c))
             d == Advance([c EXCEPT !.activated = act])
  <1>1. /\ AllKept(hub, held, calls, overlapped) /\ CallsKept(calls, held)
        /\ k \in 1..Len(calls) /\ CallKept(c, held) /\ IsWorkspace(workspace)
    BY CallsInARow DEF SurfaceInv, AllKept
  <1>2. /\ c.phase = "registering" /\ c.written
        /\ calls' = [calls EXCEPT ![k] = d]
        /\ hub' = hub /\ held' = held /\ overlapped' = overlapped
    BY DEF RegisterResolves, Step
  <1> HIDE DEF c
  <1>3. c \in CallShapes /\ UnderWay(c) /\ Loadable(Current(c), c.surface) /\ Exports(Current(c), c.surface)
    BY <1>1, <1>2 DEF CallKept, UnderWay
  <1> HIDE DEF d
  <1>4. CallKept(d, held) /\ d.surface = c.surface /\ Progress(d) = c.at
    <2>1. d = Advance([c EXCEPT !.activated = act])
      BY DEF d
    <2> HIDE DEF act
    <2>2. act = IF Exports(Current(c), c.surface) THEN Append(c.activated, Current(c)) ELSE c.activated
      BY <1>3 DEF act
    <2> QED
      BY <1>1, <1>3, <2>1, <2>2, AdvanceKept
  <1>5. Progress(c) = c.at
    BY <1>2 DEF Progress
  <1>6. AllKept(hub, held, calls', overlapped)
    BY <1>1, <1>2, <1>3, <1>4, <1>5, QuietStep DEF c
  <1> QED
    BY <1>2, <1>6

-----------------------------------------------------------------------------
\* Nothing writes to the workspace, so what was said of it before a step holds after it.
LEMMA WorkspaceStays ==
    ASSUME workspace' = workspace, IsWorkspace(workspace),
           AllKept(hub', held', calls', overlapped')
    PROVE  SurfaceInv'
  <1>1. \A s : Modules(s)' = Modules(s)
    BY DEF Modules
  <1>2. \A c, s : Items(c, s)' = Items(c, s)
    BY DEF Items
  <1>3. \A s, n : RegisteredBy(s, n)' = RegisteredBy(s, n)
    <2> SUFFICES ASSUME NEW s, NEW n PROVE RegisteredBy(s, n)' = RegisteredBy(s, n)
      OBVIOUS
    <2> QED
      BY <1>1, <1>2 DEF RegisteredBy
  <1>4. \A c, s : (Loadable(c, s)' <=> Loadable(c, s)) /\ (Exports(c, s)' <=> Exports(c, s))
    BY DEF Loadable, Exports
  <1>5. \A s, n : Brought(s, n)' = Brought(s, n)
    BY <1>1, <1>2 DEF Brought
  <1>6. IsWorkspace(workspace)'
    BY DEF IsWorkspace
  <1>7. HubKept(hub, held)'
    BY DEF AllKept, HubKept
  <1>8. CallsKept(calls, held)'
    BY <1>1, <1>4 DEF AllKept, CallsKept, CallKept
  <1>9. (\A s \in Surfaces : ListingKept(Listed(hub, s), calls, overlapped, s))'
    BY <1>1, <1>3, <1>5 DEF AllKept, ListingKept, IdsKept, ItemsKept, ValuesKept
  <1> QED
    BY <1>6, <1>7, <1>8, <1>9 DEF SurfaceInv, AllKept

\* The first state.
LEMMA InitKept == SurfaceInit => SurfaceInv
  <1> SUFFICES ASSUME SurfaceInit PROVE SurfaceInv
    OBVIOUS
  <1>1. IsWorkspace(workspace)
    BY WorkspacesAssumption DEF SurfaceInit
  <1>2. hub = EmptyHub /\ held = [s \in Surfaces |-> 0] /\ calls = <<>>
    BY DEF SurfaceInit
  <1>3. DOMAIN <<>> = {} /\ Len(<<>>) = 0 /\ Range(<<>>) = {}
    BY DEF Range
  <1>4. HubKept(hub, held)
    <2>1. hub.registries = <<>> /\ hub.contents = <<>> /\ hub = [registries |-> <<>>, contents |-> <<>>]
      BY <1>2 DEF EmptyHub
    <2>2. <<>> \in Seq(Range(<<>>))
      BY EmptySeq
    <2>3. \A s \in Surfaces : held[s] = 0
      BY <1>2
    <2>4. held = [s \in Surfaces |-> held[s]]
      BY <1>2
    <2> QED
      BY <1>3, <2>1, <2>2, <2>3, <2>4 DEF HubKept
  <1>5. CallsKept(calls, held)
    BY <1>2, <1>3, EmptySeq DEF CallsKept
  <1>6. ASSUME NEW s \in Surfaces PROVE ListingKept(Listed(hub, s), calls, overlapped, s)
    <2>1. Listed(hub, s) = <<>>
      BY <1>2, <1>3 DEF EmptyHub, Listed, Created
    <2>2. RegisteredBy(s, 0) = <<>>
      BY RegisteredSteps
    <2>3. 0 \in 0..Len(Modules(s))
      BY <1>1, ModulesInARow
    <2>4. 1..Len(calls) = {}
      BY <1>2, <1>3
    <2>5. SameIds(<<>>, <<>>)
      BY <1>3 DEF SameIds
    <2>6. IdsKept(Listed(hub, s), calls, s)
      BY <2>1, <2>2, <2>3, <2>4, <2>5 DEF IdsKept
    <2>7. ItemsKept(Listed(hub, s), s)
      BY <1>3, <2>1 DEF ItemsKept
    <2>8. ValuesKept(Listed(hub, s), calls, overlapped, s)
      BY <2>4 DEF ValuesKept
    <2> QED
      BY <2>6, <2>7, <2>8 DEF ListingKept
  <1> QED
    BY <1>1, <1>4, <1>5, <1>6 DEF SurfaceInv, AllKept

\* Every step.
LEMMA SurfaceStepKept == SurfaceInv /\ [SurfaceNext]_surfaceVars => SurfaceInv'
  <1> SUFFICES ASSUME SurfaceInv, [SurfaceNext]_surfaceVars PROVE SurfaceInv'
    OBVIOUS
  <1>1. IsWorkspace(workspace)
    BY DEF SurfaceInv
  <1>2. workspace' = workspace
    BY DEF SurfaceNext, surfaceVars, Hold, Compose, LoadRejects, LoadWithoutExport, LoadResolves,
           HostWrites, RegisterResolves, RegisterRejects, Step
  <1>3. AllKept(hub', held', calls', overlapped')
    <2>1. CASE UNCHANGED surfaceVars
      BY <2>1 DEF SurfaceInv, surfaceVars
    <2>2. ASSUME NEW s \in Surfaces, Hold(s) PROVE AllKept(hub', held', calls', overlapped')
      BY <2>2, HoldKept
    <2>3. ASSUME NEW s \in Surfaces, NEW direct \in BOOLEAN, Compose(s, direct)
          PROVE  AllKept(hub', held', calls', overlapped')
      BY <2>3, ComposeKept
    <2>4. ASSUME NEW k \in DOMAIN calls, LoadRejects(k) \/ RegisterRejects(k)
          PROVE  AllKept(hub', held', calls', overlapped')
      BY <2>4, FailStepKept
    <2>5. ASSUME NEW k \in DOMAIN calls, LoadWithoutExport(k)
          PROVE  AllKept(hub', held', calls', overlapped')
      BY <2>5, WithoutExportKept
    <2>6. ASSUME NEW k \in DOMAIN calls, LoadResolves(k)
          PROVE  AllKept(hub', held', calls', overlapped')
      BY <2>6, LoadResolvesKept
    <2>7. ASSUME NEW k \in DOMAIN calls, HostWrites(k)
          PROVE  AllKept(hub', held', calls', overlapped')
      BY <2>7, HostWritesKept
    <2>8. ASSUME NEW k \in DOMAIN calls, RegisterResolves(k)
          PROVE  AllKept(hub', held', calls', overlapped')
      BY <2>8, RegisterResolvesKept
    <2> QED
      BY <2>1, <2>2, <2>3, <2>4, <2>5, <2>6, <2>7, <2>8 DEF SurfaceNext
  <1> QED
    BY <1>1, <1>2, <1>3, WorkspaceStays

\* The invariant holds throughout.
LEMMA SurfaceInductive == SurfaceSpec => []SurfaceInv
  <1> QED
    BY InitKept, SurfaceStepKept, PTL DEF SurfaceSpec

-----------------------------------------------------------------------------
\* What the invariant says of the listings.

LEMMA ModulesBring ==
    ASSUME IsWorkspace(workspace), NEW s \in Surfaces, NEW n \in 0..Len(Modules(s))
    PROVE  Brought(s, n) \subseteq Brought(s, Len(Modules(s)))
  <1>1. Len(Modules(s)) \in Nat
    BY ModulesInARow
  <1>2. \A j \in 1..n : j \in 1..Len(Modules(s))
    BY <1>1
  <1> QED
    BY <1>2 DEF Brought

\* Two registries with the same items at the same places.
LEMMA EqualRows ==
    ASSUME NEW a, IsRegistry(a), NEW b, IsRegistry(b), Len(a) = Len(b),
           \A i \in 1..Len(a) : a[i] = b[i]
    PROVE  a = b
  <1>1. a = [i \in 1..Len(a) |-> a[i]] /\ b = [i \in 1..Len(a) |-> b[i]]
    BY RegistryPlaces
  <1> QED
    BY <1>1

\* Where the modules' items are apart, an id says which item it is.
LEMMA ApartEqual ==
    ASSUME IsWorkspace(workspace), NEW s \in Surfaces, Apart(s),
           NEW listed, IsRegistry(listed), ItemsKept(listed, s),
           NEW n \in 0..Len(Modules(s)), SameIds(listed, RegisteredBy(s, n))
    PROVE  listed = RegisteredBy(s, n)
  <1> DEFINE M == Len(Modules(s))
             whole == RegisteredBy(s, n)
  <1>1. IsRegistry(whole) /\ Range(whole) \subseteq Brought(s, M)
    BY RegisteredHolds, ModulesBring
  <1>2. DOMAIN Modules(s) = 1..M
    BY ModulesInARow
  <1>3. ASSUME NEW x \in Brought(s, M), NEW y \in Brought(s, M), x.id = y.id PROVE x = y
    <2>1. PICK i \in DOMAIN Modules(s) : x \in Range(Items(Modules(s)[i], s))
      BY <1>2 DEF Brought
    <2>2. PICK k \in DOMAIN Items(Modules(s)[i], s) : x = Items(Modules(s)[i], s)[k]
      BY <2>1 DEF Range
    <2>3. PICK j \in DOMAIN Modules(s) : y \in Range(Items(Modules(s)[j], s))
      BY <1>2 DEF Brought
    <2>4. PICK l \in DOMAIN Items(Modules(s)[j], s) : y = Items(Modules(s)[j], s)[l]
      BY <2>3 DEF Range
    <2>5. i = j /\ k = l
      BY <1>3, <2>2, <2>4 DEF Apart
    <2> QED
      BY <2>2, <2>4, <2>5
  <1> HIDE DEF whole, M
  <1>4. Len(listed) = Len(whole) /\ \A i \in 1..Len(listed) : listed[i].id = whole[i].id
    BY DEF SameIds, whole
  <1>5. ASSUME NEW i \in 1..Len(listed) PROVE listed[i] = whole[i]
    <2>1. listed[i] \in Brought(s, M)
      BY RegistryPlaces DEF ItemsKept, M
    <2>2. whole[i] \in Brought(s, M)
      BY <1>1, <1>4, RegistryPlaces
    <2> QED
      BY <1>3, <1>4, <2>1, <2>2
  <1>6. listed = whole
    BY <1>1, <1>4, <1>5, EqualRows
  <1> QED
    BY <1>6 DEF whole

\* Where every item of a call is listed, the ids say the rest.
LEMMA HoldingEqual ==
    ASSUME NEW a, IsRegistry(a), NEW b, IsRegistry(b), SameIds(a, b), Range(b) \subseteq Range(a)
    PROVE  a = b
  <1>1. Len(a) = Len(b) /\ \A i \in 1..Len(a) : a[i].id = b[i].id
    BY DEF SameIds
  <1>2. \A i, j \in 1..Len(a) : a[i].id = a[j].id => i = j
    BY RegistryPlaces DEF IsRegistry
  <1>3. ASSUME NEW i \in 1..Len(a) PROVE a[i] = b[i]
    <2>1. b[i] \in Range(a)
      BY <1>1, RegistryPlaces
    <2>2. PICK j \in 1..Len(a) : a[j] = b[i]
      BY <2>1, RegistryPlaces
    <2> QED
      BY <1>1, <1>2, <2>2
  <1> QED
    BY <1>1, <1>3, EqualRows

\* A call that returned went through all modules of its surface.
LEMMA DoneFacts ==
    ASSUME SurfaceInv, NEW k \in DOMAIN calls, calls[k].phase = "done", NEW s, s = calls[k].surface
    PROVE  /\ s \in Surfaces /\ k \in 1..Len(calls) /\ DOMAIN calls = 1..Len(calls)
           /\ CallKept(calls[k], held)
           /\ Len(Modules(s)) \in Nat /\ DOMAIN Modules(s) = 1..Len(Modules(s))
           /\ \A j \in 1..Len(Modules(s)) : Modules(s)[j] \in Capabilities
           /\ Progress(calls[k]) = Len(Modules(s)) /\ calls[k].at - 1 = Len(Modules(s))
  <1>1. CallsKept(calls, held) /\ IsWorkspace(workspace)
    BY DEF SurfaceInv, AllKept
  <1>2. DOMAIN calls = 1..Len(calls) /\ k \in 1..Len(calls) /\ CallKept(calls[k], held)
        /\ calls[k] \in CallShapes
    BY <1>1, CallsInARow
  <1>3. s \in Surfaces /\ calls[k].at = Len(Modules(s)) + 1 /\ ~calls[k].written
    BY <1>2 DEF CallKept, CallShapes
  <1>4. /\ Len(Modules(s)) \in Nat /\ DOMAIN Modules(s) = 1..Len(Modules(s))
        /\ \A j \in 1..Len(Modules(s)) : Modules(s)[j] \in Capabilities
    BY <1>1, ModulesInARow
  <1>5. calls[k].at - 1 = Len(Modules(s))
    BY <1>3, <1>4
  <1> QED
    BY <1>2, <1>3, <1>4, <1>5 DEF Progress

\* ReturnedIsWhole: ids by IdsKept, values by being apart or by ValuesKept.
LEMMA InvReturned == SurfaceInv => ReturnedIsWhole
  <1> SUFFICES ASSUME SurfaceInv, NEW k \in DOMAIN calls, calls[k].phase = "done",
                      NEW s, s = calls[k].surface,
                      Apart(s) \/ (s \notin overlapped /\ LastOn(s, k))
               PROVE  Listed(hub, s) = RegisteredBy(s, Len(Modules(s)))
    BY DEF ReturnedIsWhole
  <1> DEFINE M == Len(Modules(s))
             listed == Listed(hub, s)
             whole == RegisteredBy(s, M)
  <1>1. /\ s \in Surfaces /\ k \in 1..Len(calls) /\ DOMAIN calls = 1..Len(calls)
        /\ M \in Nat /\ Progress(calls[k]) = M
    BY DoneFacts
  <1>2. ListingKept(listed, calls, overlapped, s) /\ IsRegistry(listed) /\ IsWorkspace(workspace)
    BY <1>1, ListedIsRegistry DEF SurfaceInv, AllKept
  <1>3. M \in 0..M
    BY <1>1
  <1>4. SameIds(listed, whole)
    <2>1. PICK n \in 0..M : /\ SameIds(listed, RegisteredBy(s, n))
                            /\ \A j \in 1..Len(calls) : calls[j].surface = s => Progress(calls[j]) <= n
      BY <1>2 DEF ListingKept, IdsKept
    <2>2. n = M
      BY <1>1, <2>1
    <2> QED
      BY <2>1, <2>2
  <1>5. CASE Apart(s)
    BY <1>1, <1>2, <1>3, <1>4, <1>5, ApartEqual DEF ListingKept
  <1>6. CASE s \notin overlapped /\ LastOn(s, k)
    <2>1. \A j \in 1..Len(calls) : calls[j].surface = s => j <= k
      BY <1>1, <1>6 DEF LastOn, On
    <2>2. Range(RegisteredBy(s, Progress(calls[k]))) \subseteq Range(listed)
      BY <1>1, <1>2, <1>6, <2>1 DEF ListingKept, ValuesKept
    <2>3. Range(whole) \subseteq Range(listed)
      BY <1>1, <2>2
    <2>4. IsRegistry(whole)
      BY <1>1, <1>2, <1>3, RegisteredHolds
    <2> QED
      BY <1>2, <1>4, <2>3, <2>4, HoldingEqual
  <1> QED
    BY <1>5, <1>6

\* NoGaps: IdsKept, and being apart for the values.
LEMMA InvNoGaps == SurfaceInv => NoGaps
  <1> SUFFICES ASSUME SurfaceInv, NEW s \in Surfaces, Apart(s)
               PROVE  \E n \in 0..Len(Modules(s)) : Listed(hub, s) = RegisteredBy(s, n)
    BY DEF NoGaps
  <1>1. ListingKept(Listed(hub, s), calls, overlapped, s) /\ IsRegistry(Listed(hub, s))
        /\ IsWorkspace(workspace)
    BY ListedIsRegistry DEF SurfaceInv, AllKept
  <1>2. PICK n \in 0..Len(Modules(s)) : SameIds(Listed(hub, s), RegisteredBy(s, n))
    BY <1>1 DEF ListingKept, IdsKept
  <1>3. Listed(hub, s) = RegisteredBy(s, n)
    BY <1>1, <1>2, ApartEqual DEF ListingKept
  <1> QED
    BY <1>3

\* BuildAgrees: CallKept, once the call is past its last module.
LEMMA InvBuildAgrees == SurfaceInv => BuildAgrees
  <1> SUFFICES ASSUME SurfaceInv, NEW k \in DOMAIN calls, calls[k].phase = "done",
                      NEW s, s = calls[k].surface
               PROVE  /\ ~EntriesAbort(s)
                      /\ Entries(s) = {calls[k].activated[j] : j \in DOMAIN calls[k].activated}
                                      \cup {c \in Entries(s) : ~Exports(c, s)}
    BY DEF BuildAgrees
  <1> DEFINE M == Len(Modules(s))
  <1>1. /\ CallKept(calls[k], held) /\ calls[k].at - 1 = M
        /\ DOMAIN Modules(s) = 1..M /\ \A j \in 1..M : Modules(s)[j] \in Capabilities
    BY DoneFacts
  <1>2. /\ \A j \in 1..M : Loadable(Modules(s)[j], s)
        /\ Range(calls[k].activated) =
            {c \in Capabilities : \E j \in 1..M : Modules(s)[j] = c /\ Exports(c, s)}
    BY <1>1 DEF CallKept
  <1> HIDE DEF M
  <1>3. ~EntriesAbort(s)
    BY <1>1, <1>2 DEF EntriesAbort, Loadable
  <1>4. Entries(s) = {Modules(s)[j] : j \in 1..M}
    BY <1>1 DEF Entries
  <1>5. Range(calls[k].activated) = {c \in Entries(s) : Exports(c, s)}
    BY <1>1, <1>2, <1>4
  <1>6. {calls[k].activated[j] : j \in DOMAIN calls[k].activated} = Range(calls[k].activated)
    BY DEF Range
  <1> QED
    BY <1>3, <1>5, <1>6

\* Where an item stands, it stays.
PlacesStay ==
    \A s \in Surfaces : \A k \in DOMAIN Listed(hub, s) :
        k \in DOMAIN Listed(hub, s)' /\ Listed(hub, s)'[k].id = Listed(hub, s)[k].id

\* Only Hold and HostWrites touch the hub, and neither moves an item.
LEMMA StepPlaces == SurfaceInv /\ [SurfaceNext]_surfaceVars => PlacesStay
  <1> SUFFICES ASSUME SurfaceInv, [SurfaceNext]_surfaceVars, NEW s \in Surfaces, NEW i \in DOMAIN Listed(hub, s)
               PROVE  i \in DOMAIN Listed(hub', s) /\ Listed(hub', s)[i].id = Listed(hub, s)[i].id
    BY DEF PlacesStay, Listed, Created
  <1>1. HubKept(hub, held)
    BY DEF SurfaceInv, AllKept
  <1>2. CASE UNCHANGED hub
    BY <1>2
  <1>3. ASSUME NEW t \in Surfaces, Hold(t)
        PROVE  i \in DOMAIN Listed(hub', s) /\ Listed(hub', s)[i].id = Listed(hub, s)[i].id
    <2>1. hub' = Ensure(hub, t)
      BY <1>3 DEF Hold
    <2>2. Listed(hub', s) = Listed(hub, s)
      BY <1>1, <2>1, EnsureKeeps
    <2> QED
      BY <2>2
  <1>4. ASSUME NEW k \in DOMAIN calls, HostWrites(k)
        PROVE  i \in DOMAIN Listed(hub', s) /\ Listed(hub', s)[i].id = Listed(hub, s)[i].id
    <2> DEFINE t == calls[k].surface
               items == Items(Current(calls[k]), t)
    <2>1. Gives(hub, hub', held, t, items) /\ items \in Seq(Range(items))
      BY <1>4, HostGives
    <2> HIDE DEF items
    <2>2. CASE s = t
      <3>1. Listed(hub', s) = PutAll(Listed(hub, s), items) /\ IsRegistry(Listed(hub, s))
        BY <1>1, <2>1, <2>2, ListedIsRegistry DEF Gives
      <3>2. Grown(Listed(hub', s), Listed(hub, s), Range(items))
        BY <2>1, <3>1, PutAllGrown
      <3>3. DOMAIN Listed(hub, s) = 1..Len(Listed(hub, s)) /\ Len(Listed(hub, s)) \in Nat
        BY <3>1, RegistryPlaces
      <3>4. IsRegistry(Listed(hub', s))
        BY <3>2 DEF Grown
      <3>5. DOMAIN Listed(hub', s) = 1..Len(Listed(hub', s)) /\ Len(Listed(hub', s)) \in Nat
        BY <3>4, RegistryPlaces
      <3>6. Len(Listed(hub, s)) <= Len(Listed(hub', s))
            /\ \A j \in 1..Len(Listed(hub, s)) : Listed(hub', s)[j].id = Listed(hub, s)[j].id
        BY <3>2 DEF Grown
      <3>7. i \in 1..Len(Listed(hub, s)) /\ i \in 1..Len(Listed(hub', s))
        BY <3>3, <3>5, <3>6
      <3> QED
        BY <3>5, <3>6, <3>7
    <2>3. CASE s # t
      BY <2>1, <2>3 DEF Gives
    <2> QED
      BY <2>2, <2>3
  <1>5. ASSUME NEW t \in Surfaces, NEW direct \in BOOLEAN, Compose(t, direct) PROVE UNCHANGED hub
    BY <1>5 DEF Compose
  <1>6. ASSUME NEW k \in DOMAIN calls,
               \/ LoadRejects(k) \/ LoadWithoutExport(k) \/ LoadResolves(k)
               \/ RegisterResolves(k) \/ RegisterRejects(k)
        PROVE  UNCHANGED hub
    BY <1>6 DEF LoadRejects, LoadWithoutExport, LoadResolves, RegisterResolves, RegisterRejects
  <1>7. CASE UNCHANGED surfaceVars
    BY <1>2, <1>7 DEF surfaceVars
  <1> QED
    BY <1>2, <1>3, <1>4, <1>5, <1>6, <1>7 DEF SurfaceNext

\* SurfaceTypeOK is part of it, but for the surfaces with overlapping calls.
LEMMA InvTypeOK == SurfaceInv /\ overlapped \subseteq Surfaces => SurfaceTypeOK
  <1> SUFFICES ASSUME SurfaceInv, overlapped \subseteq Surfaces PROVE SurfaceTypeOK
    OBVIOUS
  <1>1. IsWorkspace(workspace) /\ HubKept(hub, held) /\ CallsKept(calls, held)
    BY DEF SurfaceInv, AllKept
  <1>2. DOMAIN hub.contents = 1..Len(hub.contents)
    BY <1>1, LenProperties DEF HubKept
  <1>3. /\ DOMAIN hub.registries \subseteq Surfaces
        /\ \A s \in DOMAIN hub.registries : hub.registries[s] \in DOMAIN hub.contents
    BY <1>1, <1>2 DEF HubKept
  <1>4. \A s \in Surfaces : held[s] \in {0} \cup DOMAIN hub.contents
    BY <1>1, <1>3 DEF HubKept
  <1>5. ASSUME NEW k \in DOMAIN calls
        PROVE  /\ calls[k].surface \in Surfaces
               /\ calls[k].phase \in {"loading", "registering", "done", "failed"}
               /\ UnderWay(calls[k]) => calls[k].at \in DOMAIN calls[k].modules
    <2>1. CallKept(calls[k], held) /\ calls[k] \in CallShapes
      BY <1>1, CallsInARow
    <2>2. UnderWay(calls[k]) => calls[k].at \in DOMAIN calls[k].modules
      <3>1. ASSUME UnderWay(calls[k]) PROVE calls[k].at \in DOMAIN calls[k].modules
        BY <1>1, <2>1, <3>1, UnderWayCall, ModulesInARow
      <3> QED
        BY <3>1
    <2> QED
      BY <2>1, <2>2 DEF CallShapes
  <1> QED
    BY <1>1, <1>3, <1>4, <1>5 DEF SurfaceTypeOK

-----------------------------------------------------------------------------
\* Every call is one of its surface and within its modules, and every registry a host
\* holds or a name leads to is one of the hub's.
\* (createRegistryHub, CompositionRun.compose)
THEOREM SurfacesTypeCorrect == SurfaceSpec => []SurfaceTypeOK
  <1>1. SurfaceInv /\ overlapped \subseteq Surfaces => SurfaceTypeOK
    BY InvTypeOK
  <1>2. SurfaceSpec => [](overlapped \subseteq Surfaces)
    <2>1. SurfaceInit => overlapped \subseteq Surfaces
      BY DEF SurfaceInit
    <2>2. overlapped \subseteq Surfaces /\ [SurfaceNext]_surfaceVars => (overlapped \subseteq Surfaces)'
      BY DEF SurfaceNext, surfaceVars, Hold, Compose, LoadRejects, LoadWithoutExport, LoadResolves,
             HostWrites, RegisterResolves, RegisterRejects, Step
    <2> QED
      BY <2>1, <2>2, PTL DEF SurfaceSpec
  <1> QED
    BY SurfaceInductive, <1>1, <1>2, PTL

\* A call that returned leaves the registry of its surface as one undisturbed call would,
\* items, values and order: for every workspace, every number of calls, wherever they
\* failed or overlapped.  Where two modules bring the same id, when calls did not overlap.
\* (activateSurface, createRegistryHub)
THEOREM ReturnsWhole == SurfaceSpec => []ReturnedIsWhole
  <1> QED
    BY SurfaceInductive, InvReturned, PTL

\* What a surface lists is at any moment what its first modules bring, up to some module:
\* a failed call leaves no gap.
\* (activateSurface, resolveSurfaceModules)
THEOREM LeavesNoGaps == SurfaceSpec => []NoGaps
  <1> QED
    BY SurfaceInductive, InvNoGaps, PTL

\* A call that returned activated the files the build lists for its surface, except those
\* without the export, and the build does not abort on it.
\* (activateSurface, resolveSurfaceEntries)
THEOREM AgreesWithTheBuild == SurfaceSpec => []BuildAgrees
  <1> QED
    BY SurfaceInductive, InvBuildAgrees, PTL

\* No step takes an item out of a listing or moves it, whichever call takes the step.
\* (createRegistry)
THEOREM KeepsPlaces == SurfaceSpec => PlacesKept
  <1>1. SurfaceInv /\ [SurfaceNext]_surfaceVars => [PlacesStay]_surfaceVars
    BY StepPlaces
  <1>2. SurfaceSpec => [][PlacesStay]_surfaceVars
    BY <1>1, SurfaceInductive, PTL DEF SurfaceSpec
  <1> QED
    BY <1>2 DEF PlacesKept, PlacesStay
=============================================================================
