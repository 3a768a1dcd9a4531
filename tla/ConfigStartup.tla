---------------------------- MODULE ConfigStartup ----------------------------
(***************************************************************************)
(* How a Nuxt host takes its runtime configuration from files: it lists    *)
(* the files of its sources, reads them one by one, projects what it could *)
(* read, then reads the schemas of its extensions, lists the files again   *)
(* and validates them from the disk, before it starts or refuses to. Once  *)
(* started, its code reads the configuration by scope, validated or not.   *)
(*                                                                         *)
(* Other processes write fragments meanwhile. A write empties the file     *)
(* before it fills it, and its process may die in between.                 *)
(*                                                                         *)
(* What a file holds is a record: its public and private sections (empty   *)
(* if missing), there, those it has, its contexts, and more, whatever else *)
(* a schema can see of it: keys nobody reads, a section that is no object, *)
(* or that the JSON is a list, say, which the host takes for a fragment    *)
(* without sections.  Falsy JSON it passes over.                           *)
(***************************************************************************)
EXTENDS RuntimeConfig

CONSTANTS
    FileOrder,     \* the configuration files in the order of their paths
    FileScope,     \* the scope the wildcard of a file's pattern stands for
    TreeFile,      \* the file of a scope below the default directory
    Absent, Broken,\* no file; no JSON
    Falsy,         \* the JSON that counts as no fragment: null, false, 0, ""
    Nothing,       \* nothing else in a file
    Unregistered,  \* a registry's answer for a scope without a schema
    Accepts(_, _), \* whether a schema accepts a document, or falsy JSON
    Inputs         \* what the host is given

ASSUME FilesAssumption ==
    /\ FileOrder \in Seq(DOMAIN FileScope)
    /\ \A f \in DOMAIN FileScope : FileScope[f] \in Range(ScopeOrder)
    /\ \A s \in DOMAIN TreeFile : TreeFile[s] \in DOMAIN FileScope /\ FileScope[TreeFile[s]] = s
ASSUME FalsyAssumption == Falsy \cap {Absent, Broken} = {}
ASSUME UnregisteredAssumption == Unregistered \notin BOOLEAN

VARIABLES
    input,      \* disk before the start, extensions, options; never modified
    disk,       \* the content of the files
    writing,    \* the fragments other processes have begun to write
    written,    \* how many fragments other processes have begun to write
    undisturbed,\* whether none did since the host listed its files
    phase,      \* where the host is
    files,      \* the places in FileOrder of the files it has yet to read
    fragments,  \* the fragments it read
    runtime,    \* its runtime configuration
    registry,   \* the schemas by scope, for validation on use
    located,    \* the file validation takes for a scope
    targets,    \* the extensions it has yet to look at
    skipped,    \* the scopes it could not validate
    validated,  \* the scopes whose file it validates
    invalid,    \* those a schema did not accept
    compiled,   \* the scopes whose validator is cached
    answer      \* the last validated read

setup == <<files, fragments, registry, located, targets, skipped, validated, invalid>>
outside == <<disk, writing, written, undisturbed>>
vars == <<input, outside, phase, setup, runtime, compiled, answer>>

\* An extension: its scope, validation mode, whether it has a directory, its schema.
Mode(t) == t.mode
Registers(t) == Mode(t) # "none"
Reports(t) == Mode(t) # "optional"
Requires(t) == Mode(t) = "startup"

\* Mutated form of ScopeIds: no resolved extension, no scope.
ScopeIdsResolved == input.resolved

\* The scopes to project: the resolved extensions, or all without any.
ScopeIds == IF input.resolved = {} THEN DOMAIN fragments ELSE input.resolved

\* The places of the files there are, in the order they are listed.
Listed == {k \in DOMAIN FileOrder : disk[FileOrder[k]] # Absent}

ScopeAt(k) == FileScope[FileOrder[k]]

PlacesOf(s) == {k \in Listed : ScopeAt(k) = s}

\* Mutated form of LocatedFile: the first file of a scope counts.
LocatedFileFirst(s) == FileOrder[CHOOSE k \in PlacesOf(s) : \A j \in PlacesOf(s) : k <= j]

\* The file validation takes for a scope: a later one counts.
LocatedFile(s) == FileOrder[CHOOSE k \in PlacesOf(s) : \A j \in PlacesOf(s) : j <= k]

Reads(content) == content \notin {Absent, Broken} \cup Falsy

\* What a schema sees of a file: the sections it has, its contexts and the rest.
Document(f) ==
    [sections |-> [v \in f.there |-> Assigned(f[v])],
     contexts |-> [c \in DOMAIN f.contexts |-> [v \in Visibilities |-> Assigned(f.contexts[c][v])]],
     more     |-> f.more]

\* What it sees on use: both sections, and never anything else.
Rebuilt(view) == [sections |-> view, contexts |-> <<>>, more |-> Nothing]

\* A schema is asked about a file as it stands, about falsy JSON too.
Passes(schema, content) == Accepts(schema, IF content \in Falsy THEN content ELSE Document(content))

\* The fragments with one put in its scope's place.
Held(scope, content) ==
    [s \in DOMAIN fragments \cup {scope} |-> IF s = scope THEN content ELSE fragments[s]]

IsFragment(f) ==
    /\ DOMAIN f.contexts \subseteq Contexts
    /\ \A v \in Visibilities : IsSection(f[v]) /\ \A c \in DOMAIN f.contexts : IsSection(f.contexts[c][v])
    /\ f.there \subseteq Visibilities /\ \A v \in Visibilities \ f.there : f[v] = <<>>

\* A host is given its extensions in a row, each with a scope of its own, and those it
\* validates are among the resolved ones if it has any.
\* (resolveRuntimeConfigValidationTargets)
ExtensionsOf(i) == {i.targets[k] : k \in DOMAIN i.targets}

ASSUME InputsAssumption ==
    \A i \in Inputs :
        /\ i.targets \in Seq(ExtensionsOf(i))
        /\ \A t, u \in ExtensionsOf(i) : t.scope = u.scope => t = u
        /\ i.resolved = {} \/ \A t \in ExtensionsOf(i) : t.scope \in i.resolved
        /\ DOMAIN i.disk = DOMAIN FileScope
        /\ \A f \in DOMAIN i.disk : Reads(i.disk[f]) => IsFragment(i.disk[f])
        /\ i.writes \in Seq(Range(i.writes))
        /\ \A w \in Range(i.writes) : Reads(w.content) => IsFragment(w.content)
        /\ \A v \in Visibilities : IsSection(i.host[v])

-----------------------------------------------------------------------------
Init ==
    /\ input \in Inputs
    /\ disk = input.disk /\ writing = {} /\ written = 0 /\ undisturbed = TRUE
    /\ phase = "list"
    /\ files = {} /\ fragments = <<>> /\ runtime = <<>> /\ registry = <<>>
    /\ located = <<>> /\ targets = <<>>
    /\ skipped = {} /\ validated = <<>> /\ invalid = {}
    /\ compiled = {} /\ answer = <<>>

\* resolveRuntimeConfigSourceFiles.
ListSources ==
    /\ phase = "list"
    /\ files' = Listed
    /\ phase' = "read"
    /\ UNCHANGED <<input, outside, fragments, runtime, registry, located, targets,
                   skipped, validated, invalid, compiled, answer>>

\* loadRuntimeConfigSourceTree, one file. What cannot be read is passed over.
ReadSource ==
    /\ phase = "read"
    /\ \E k \in files :
        /\ \A j \in files : k <= j
        /\ files' = files \ {k}
        /\ fragments' = IF Reads(disk[FileOrder[k]]) THEN Held(ScopeAt(k), disk[FileOrder[k]]) ELSE fragments
    /\ UNCHANGED <<input, outside, phase, runtime, registry, located, targets,
                   skipped, validated, invalid, compiled, answer>>

\* createConfiguredNuxtRuntimeConfig, once the fragments are read.
Project ==
    /\ phase = "read" /\ files = {}
    /\ runtime' = ProjectSectioned(fragments, ScopeIds)
    /\ phase' = "schemas"
    /\ UNCHANGED <<input, outside, setup, compiled, answer>>

HasSchema(t) == t.directory /\ t.schema # Absent

\* createRuntimeConfigValidationSchemas, and what validateRuntimeConfigSource starts from.
ReadSchemas ==
    /\ phase = "schemas"
    /\ LET registered == {t \in ExtensionsOf(input) : input.validation /\ Registers(t) /\ HasSchema(t)}
       IN  IF \E t \in registered : t.schema = Broken
           THEN /\ phase' = "threw"
                /\ UNCHANGED <<registry, targets>>
           ELSE /\ registry' = [s \in {t.scope : t \in registered} |->
                                   (CHOOSE t \in registered : t.scope = s).schema]
                /\ phase' = IF input.validation /\ input.targets # <<>> THEN "locate" ELSE "start"
                /\ targets' = input.targets
    /\ UNCHANGED <<input, outside, files, fragments, runtime, located,
                   skipped, validated, invalid, compiled, answer>>

\* validateRuntimeConfigSourceScopes lists the files once more.
Locate ==
    /\ phase = "locate"
    /\ located' = [s \in {ScopeAt(k) : k \in Listed} |-> LocatedFile(s)]
    /\ phase' = "sort"
    /\ UNCHANGED <<input, outside, files, fragments, runtime, registry, targets,
                   skipped, validated, invalid, compiled, answer>>

\* One extension: passed over, to be reported, or to be validated.
SortTarget ==
    /\ phase = "sort" /\ targets # <<>>
    /\ targets' = Tail(targets)
    /\ LET t       == Head(targets)
           missing == ~t.directory \/ t.scope \notin DOMAIN located
       IN  IF ~Registers(t) \/ (missing /\ ~Reports(t)) THEN UNCHANGED <<skipped, validated>>
           ELSE IF missing \/ t.schema = Absent
           THEN skipped' = skipped \cup {t.scope} /\ UNCHANGED validated
           ELSE validated' = Append(validated, t) /\ UNCHANGED skipped
    /\ UNCHANGED <<input, outside, phase, files, fragments, runtime, registry, located,
                   invalid, compiled, answer>>

EndTargets ==
    /\ phase = "sort" /\ targets = <<>>
    /\ phase' = "validate"
    /\ UNCHANGED <<input, outside, setup, runtime, compiled, answer>>

\* collectRuntimeConfigSchemaTargetValidationErrors, one target, from the disk.
Validate ==
    /\ phase = "validate" /\ validated # <<>>
    /\ LET t       == Head(validated)
           content == disk[located[t.scope]]
       IN  IF Broken \in {content, t.schema}
           THEN phase' = "threw" /\ UNCHANGED <<validated, invalid>>
           ELSE /\ invalid' = IF Passes(t.schema, content) THEN invalid ELSE invalid \cup {t.scope}
                /\ validated' = Tail(validated)
                /\ UNCHANGED phase
    /\ UNCHANGED <<input, outside, files, fragments, runtime, registry, located, targets,
                   skipped, compiled, answer>>

\* assertRequiredRuntimeConfigValidationTargets.
AssertRequired ==
    /\ phase = "validate" /\ validated = <<>>
    /\ LET required == {t.scope : t \in {u \in ExtensionsOf(input) : Requires(u)}}
       IN  phase' = IF required \cap (skipped \cup invalid) = {} THEN "start" ELSE "refused"
    /\ UNCHANGED <<input, outside, setup, runtime, compiled, answer>>

\* The end of applyRuntimeConfigModule.
Start ==
    /\ phase = "start"
    /\ runtime' = Merge(input.host, runtime, input.privateOutput)
    /\ phase' = "ready"
    /\ UNCHANGED <<input, outside, setup, compiled, answer>>

\* useValidatedRuntimeConfigFragment.
UseValidated ==
    /\ phase = "ready"
    /\ \E s \in Range(ScopeOrder) :
        IF s \in DOMAIN registry
        THEN /\ compiled' = compiled \cup {s}
             /\ answer' = <<s, Accepts(registry[s], Rebuilt(FragmentView(runtime, s)))>>
        ELSE /\ UNCHANGED compiled
             /\ answer' = <<s, Unregistered>>
    /\ UNCHANGED <<input, outside, phase, setup, runtime>>

-----------------------------------------------------------------------------
\* writeRuntimeConfigFragment in another process opens the file, which empties it.
\* Bounded by input.writes; the host does not look at the disk after it has ended.
BeginWrite ==
    /\ phase \notin {"ready", "refused", "threw"}
    /\ written < Len(input.writes)
    /\ LET w == input.writes[written + 1] IN
        /\ disk' = [disk EXCEPT ![w.file] = Broken]
        /\ writing' = writing \cup {w}
    /\ written' = written + 1
    /\ undisturbed' = (undisturbed /\ phase = "list")
    /\ UNCHANGED <<input, phase, setup, runtime, compiled, answer>>

EndWrite ==
    /\ \E w \in writing :
        /\ disk' = [disk EXCEPT ![w.file] = w.content]
        /\ writing' = writing \ {w}
    /\ undisturbed' = (undisturbed /\ phase = "list")
    /\ UNCHANGED <<input, written, phase, setup, runtime, compiled, answer>>

Next ==
    \/ ListSources \/ ReadSource \/ Project \/ ReadSchemas \/ Locate \/ SortTarget \/ EndTargets
    \/ Validate \/ AssertRequired \/ Start \/ UseValidated
    \/ BeginWrite \/ EndWrite

Spec == Init /\ [][Next]_vars

-----------------------------------------------------------------------------
Projected == DOMAIN fragments \cap ScopeIds

\* The keys of a fragment's sections for one visibility, those of contexts included.
KeysOf(fragment, v) ==
    {e.key : e \in Range(fragment[v]) \cup UNION {Range(InContext(fragment, c, v)) : c \in Contexts}}

\* No other scope has a joint key that begins with this one.
Apart(s) ==
    \A t \in Projected \ {s} : \A v \in Visibilities : \A k \in KeysOf(fragments[t], v) :
        ~BeginsWith(Joint(t, k), s)

\* A fragment's values under its own keys, as camel case has them.
Local(section) ==
    Assigned([i \in DOMAIN section |-> [key |-> CamelCase(section[i].key), value |-> section[i].value]])

\* What the host configured itself, where it goes into one object with the fragments.
HostSection(v) == IF v = "private" /\ input.privateOutput = "section" THEN <<>> ELSE input.host[v]

HostUnder(s, v) == ScopeValues(HostSection(v), s)

\* No two keys of the host are one in the view of the scope.
HostClear(s, v) ==
    \A e, f \in Range(HostSection(v)) :
        BeginsWith(e.key, s) /\ BeginsWith(f.key, s) /\ Strip(s, e.key) = Strip(s, f.key) => e.key = f.key

\* What the tree helpers of another process read for a key: the scope alone,
\* from the default directory (getRuntimeConfigValue).
TreeValue(s, key, v, c) ==
    LET held == {t \in DOMAIN TreeFile : Reads(disk[TreeFile[t]])}
    IN  Resolve(ProjectSectioned([t \in held |-> disk[TreeFile[t]]], {s}), s, key, v, c)

\* The last file of a scope holds what loading passes over and validation does not.
LastIsFalsy(s) == PlacesOf(s) # {} /\ disk[LocatedFile(s)] \in Falsy

\* A host that started without a write in between holds, for every extension
\* that must be valid at startup, a fragment its schema accepts: although the
\* fragments were read before, and separately from, the files that were
\* validated. But where the last file of the scope holds falsy JSON that the schema
\* itself accepts, it holds the fragment of an earlier file, which no schema
\* saw, or none (applyRuntimeConfigModule, validateRuntimeConfigSourceScopes).
StartedMeansChecked ==
    phase = "ready" /\ undisturbed /\ input.validation =>
        \A t \in ExtensionsOf(input) : Requires(t) =>
            IF LastIsFalsy(t.scope) THEN Accepts(t.schema, disk[LocatedFile(t.scope)])
            ELSE t.scope \in Projected /\ Accepts(t.schema, Document(fragments[t.scope]))

\* The view of a scope that is apart from the others is its own fragment,
\* the context's values over its common ones, and those over what the host
\* configured under it: whatever the other scopes hold, and however private
\* values are passed on, but for two keys of the host that read alike: mailEr and
\* mailer, of which the view of mail takes the later (getRuntimeConfigScope).
ViewsReadBack ==
    phase = "ready" => \A s \in Projected : Apart(s) =>
        \A v \in Visibilities, c \in Contexts \cup {"none"} : HostClear(s, v) =>
            ScopeView(runtime, s, v, c) =
                Over(Local(InContext(fragments[s], c, v)), Over(Local(fragments[s][v]), HostUnder(s, v)))

\* What a query of the tree answers for a key of a scope is what the started
\* host resolves it to, unless another scope has the same joint key or another
\* source has a file of the scope (getRuntimeConfigValue, resolveNuxtRuntimeConfigValue).
QueriesAgree ==
    phase = "ready" /\ undisturbed =>
        \A s \in Projected \cap DOMAIN TreeFile :
        \A v \in Visibilities, c \in Contexts \cup {"none"} : \A e \in Range(fragments[s][v]) :
            \/ \E k \in PlacesOf(s) : FileOrder[k] # TreeFile[s]
            \/ \E t \in Projected \ {s} : \E k \in KeysOf(fragments[t], v) : Joint(t, k) = Joint(s, e.key)
            \/ TreeValue(s, e.key, v, c) = Resolve(runtime, s, e.key, v, c)

\* The schema accepts a fragment as its file has it, and refuses its values where
\* both sections are always there, and the contexts and the rest never are.
TellsRebuilt(schema, f) ==
    /\ Accepts(schema, Document(f))
    /\ ~Accepts(schema, Rebuilt([v \in Visibilities |-> Assigned(f[v])]))

\* A fragment that was valid at startup is not refused on use, where it is put
\* together again from the joint object, unless its last file was falsy JSON, the
\* schema itself tells it from what is put together (a file without private where
\* the schema allows no other property than public), another scope or the host
\* contributes keys that begin with its scope, or keys of its own are not in camel
\* case, which they are on use (useValidatedRuntimeConfigFragment).
ValidStaysValid ==
    answer # <<>> /\ undisturbed =>
        \A t \in ExtensionsOf(input) : Requires(t) /\ answer = <<t.scope, FALSE>> =>
            \/ LastIsFalsy(t.scope)
            \/ TellsRebuilt(t.schema, fragments[t.scope])
            \/ ~Apart(t.scope)
            \/ \E v \in Visibilities : HostUnder(t.scope, v) # <<>>
            \/ \E v \in Visibilities : \E e \in Range(fragments[t.scope][v]) : CamelCase(e.key) # e.key

\* "The scope id becomes a transport prefix so many fragments can coexist
\* without key collisions" (packages/runtime-config/README.md:77-78): every key of
\* every projected fragment resolves to that fragment's value.
KeysCoexist ==
    phase = "schemas" => \A s \in Projected, v \in Visibilities : \A e \in Range(fragments[s][v]) :
        Resolve(runtime, s, e.key, v, "none") = {e.value}
=============================================================================
