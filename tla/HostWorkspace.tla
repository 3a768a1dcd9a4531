--------------------------- MODULE HostWorkspace ---------------------------
(***************************************************************************)
(* The workspace the build-time hosts compose from, what discovery makes   *)
(* of it, the edits made to it while hosts run, and the one resolution     *)
(* both hosts ask for.                                                     *)
(*                                                                         *)
(* The disk is what a host's pattern matches: directories with a           *)
(* descriptor and what lies beside it, and the bundle manifests of the     *)
(* directories from the host's own upward.                                 *)
(***************************************************************************)
EXTENDS SelectionRequests, SelectionSeed, Naturals

CONSTANTS
    Dirs,        \* the directories, named by their last segment
    Broken,      \* a file that cannot be parsed
    Workspaces,  \* every state a workspace can be in
    Disks,       \* the workspaces hosts start with
    Edited(_),   \* what one edit makes of a workspace
    MaxEdits     \* bound on the edits of one behaviour

ASSUME WorkspacesAssumption ==
    Disks \subseteq Workspaces /\ \A ws \in Workspaces : Edited(ws) \subseteq Workspaces

\* An object's keys over another's, and an object with one key.
Over(f, g) == [key \in DOMAIN f \cup DOMAIN g |-> IF key \in DOMAIN f THEN f[key] ELSE g[key]]
Keyed(key, value) == [k \in {key} |-> value]

(***************************************************************************)
(* A descriptor document: id (or Nothing), version, disabled, whether the  *)
(* schema accepts it (valid), dependencies, providesFor, defaultFor, the   *)
(* documents nested in it (Broken if that is no list of objects), its      *)
(* validation policy (or Nothing) and the public configuration it brings.  *)
(*                                                                         *)
(* A directory: document, manifest (its package.json: a name or Nothing,   *)
(* whether ./capability is exported, where ./contributions leads), marker  *)
(* (the file of a surface), routes, config (a Nuxt config file), parts     *)
(* (some other part of a Nuxt layer) and schema.                           *)
(***************************************************************************)
Physical(d) == [kind |-> "disk", name |-> d]

\* virtualDescriptorDirectory: no such directory exists.
VirtualDirectory(id) == [kind |-> "virtual", name |-> id]

\* resolveDescriptorId.
EntryId(doc, fallback) == IF doc.id = Nothing THEN fallback ELSE doc.id

NestedIn(doc, o) == IF o.nestedField THEN doc.nested ELSE {}

Normalized(doc, id) == [doc EXCEPT !.id = id, !.nested = {}]

Entry(doc, id, dir, nested, file) ==
    [id |-> id, dir |-> dir, nested |-> nested, file |-> file, descriptor |-> Normalized(doc, id)]

\* expandNestedDescriptors: a nested descriptor shares its parent's file and directory.
Expand(doc, d, o) ==
    {Entry(doc, EntryId(doc, d), Physical(d), FALSE, d)}
    \cup {Entry(n, n.id, Physical(d), TRUE, d) : n \in NestedIn(doc, o)}

\* A document discovery refuses: one that is no JSON, one the schema rejects, one
\* whose nested descriptors are no list, have no id or nest others.
Unreadable(doc, o) ==
    \/ doc = Broken
    \/ o.schema /\ ~doc.valid
    \/ NestedIn(doc, o) = Broken
    \/ \E n \in NestedIn(doc, o) : n.id = Nothing \/ n.nested # {}

Files(disk) == {d \in Dirs : disk.dirs[d] # Nothing /\ disk.dirs[d].document # Nothing}

\* Files are finite, and so are the lists in them.
ASSUME FilesAssumption ==
    /\ IsFiniteSet(Dirs)
    /\ \A ws \in Workspaces :
        /\ \A d \in Files(ws) :
            LET doc == ws.dirs[d].document
            IN  doc = Broken \/ doc.nested = Broken \/ IsFiniteSet(doc.nested)
        /\ \A k \in DOMAIN ws.manifests :
            k \in Nat /\ (ws.manifests[k] \in {Nothing, Broken} \/ IsFiniteSet(ws.manifests[k]))

\* discoverDescriptors.
Discovered(disk, o) ==
    IF \E d \in Files(disk) : Unreadable(disk.dirs[d].document, o) THEN Nothing
    ELSE UNION {Expand(disk.dirs[d].document, d, o) : d \in Files(disk)}

-----------------------------------------------------------------------------
\* findManifestUp: the manifest nearest to where the host stands.
Nearest(manifests) ==
    LET there == {k \in DOMAIN manifests : manifests[k] # Nothing}
    IN  IF there = {} THEN Nothing ELSE manifests[Min(there)]

\* loadBundleManifest: the groupings of a manifest, unless there is none or it, or
\* one of them, is malformed.
Bundles(disk) ==
    LET manifest == Nearest(disk.manifests)
    IN  IF manifest \in {Nothing, Broken} THEN Nothing
        ELSE IF \E doc \in manifest : doc.id = Nothing \/ ~doc.valid THEN Nothing
        ELSE {Entry(doc, doc.id, VirtualDirectory(doc.id), FALSE, "manifest") : doc \in manifest}

\* The groupings a host passes in, from its options and from the manifest.
Virtual(disk, o) ==
    LET given == {Entry(doc, doc.id, VirtualDirectory(doc.id), FALSE, "options") : doc \in o.virtualDescriptors}
    IN  IF ~o.bundles THEN given
        ELSE IF Bundles(disk) = Nothing THEN Nothing ELSE given \cup Bundles(disk)

-----------------------------------------------------------------------------
EntryOf(items, id) == CHOOSE e \in items : e.id = id

Present(items) == {e.id : e \in items}
Enabled(items) == {e.id : e \in {f \in items : ~f.descriptor.disabled}}

FieldOf(items, field(_)) ==
    [id \in Ids |-> IF id \in Enabled(items) THEN field(EntryOf(items, id)) ELSE {}]

\* What descriptor selection is asked: the members of a group are its dependencies.
\* (getSelectionGroupMembers)
SelectionAsked(items, groups, seed) ==
    [enabled      |-> Enabled(items),
     dependencies |-> FieldOf(items, LAMBDA e : e.descriptor.dependencies),
     providesFor  |-> FieldOf(items, LAMBDA e : e.descriptor.providesFor),
     defaultFor   |-> FieldOf(items, LAMBDA e : e.descriptor.defaultFor),
     members      |-> FieldOf(items, LAMBDA e : IF e \in groups THEN e.descriptor.dependencies ELSE {}),
     roots        |-> seed.selected \cup seed.base]

\* assertKnownProviderCapabilities: against everything declared, disabled or not.
UnknownCapability(items) ==
    \E e \in items : ~e.descriptor.disabled
        /\ ~(e.descriptor.providesFor \cup e.descriptor.defaultFor \subseteq Present(items))

\* What descriptor selection answers, or Nothing where the answer is refused.
Answer(items, seed, asked, outcome) ==
    IF outcome = Refused \/ UnmetDependency(asked, outcome.slots, outcome.composed) THEN Nothing
    ELSE [seed |-> seed, discovered |-> items,
          items |-> {EntryOf(items, id) : id \in outcome.composed},
          slots |-> outcome.slots]

ResolveAsked(items, seedInput, seed, asked) ==
    LET versions == [id \in Enabled(items) |-> EntryOf(items, id).descriptor.version]
    IN  IF \/ UnknownCapability(items)
           \/ \E e, f \in items : e # f /\ e.id = f.id
           \/ UnknownSeed(asked) \/ UnavailableDependency(asked)
           \/ \E spec \in seed.specs : ~Meets(seedInput, spec, versions)
        THEN Nothing
        ELSE Answer(items, seed, asked, OutcomeOf(asked))

ResolveSeed(items, groups, seedInput, seed) ==
    IF seed = Nothing THEN Nothing
    ELSE ResolveAsked(items, seedInput, seed, SelectionAsked(items, groups, seed))

\* selectDescriptorsWithProviders: the one resolution of the hosts, or Nothing where
\* it is refused.  No two descriptors of an instance differ in their version only.
Resolve(items, groups, seedInput) == ResolveSeed(items, groups, seedInput, SeedOf(seedInput))

-----------------------------------------------------------------------------
Composed(resolution) == Present(resolution.items)

\* describeComposition, and what of it notResolved leaves.
ReportSlots(slots, resolved) ==
    [c \in DOMAIN slots |->
        [winner |-> slots[c].winner, resolved |-> slots[c].winner \subseteq resolved]]

Report(seed, discovered, resolved, slots) ==
    [requested |-> seed.requested, selected |-> seed.selected, base |-> seed.base,
     resolved |-> resolved, discovered |-> discovered,
     notResolved |-> discovered \ resolved,
     slots |-> ReportSlots(slots, resolved)]

-----------------------------------------------------------------------------
\* resolveSurfaceEntries over the contribution surface: the files of the capabilities
\* whose package exports one, or Nothing if a name is no longer in the package
\* sources or a file is gone.  names are the package names the host holds, and
\* sources what it read of the packages.  Two packages have two names.
ContributionEntries(names, sources) ==
    LET active == {id \in DOMAIN names : sources[id].contributions # "none"}
    IN  IF \E id \in active : \/ \A j \in DOMAIN sources : sources[j].name # names[id]
                              \/ sources[id].contributions = "gone"
        THEN Nothing ELSE active

\* projectContributionPlan, as far as the descriptors are identities.
PlanOf(resolution) == [selected |-> Composed(resolution), catalog |-> Present(resolution.discovered)]

-----------------------------------------------------------------------------
\* The disk under the hosts, and the edits made while they run.
VARIABLES
    disk,
    edits        \* how many edits there were

Edit ==
    /\ edits < MaxEdits
    /\ disk' \in Edited(disk)
    /\ edits' = edits + 1
=============================================================================
