------------------------------- MODULE NuxtHost -------------------------------
(***************************************************************************)
(* The host of Nuxt: a bootstrap composed when nuxt.config is evaluated    *)
(* or when the module is set up, the layers it mounts, and what the        *)
(* application is told of the composition.                                 *)
(*                                                                         *)
(* Options are those of HostWorkspace and                                  *)
(*   extensions    Nothing without, else enabled and the seed              *)
(*   shared        nuxt.config composes the bootstrap, extends its layer   *)
(*                 paths and hands it to the module                        *)
(*   own           the directories nuxt.config extends besides             *)
(*   host          the public configuration of nuxt.config                 *)
(*   providers     the provider selection is published                     *)
(*   contributions, reporter, scan (auto-imports are on)                   *)
(*   config        the options of the runtime configuration: Nothing if    *)
(*                 left out, else enabled, source, fragments (by scope),   *)
(*                 imports (Nothing if left out), assets, validation and   *)
(*                 contextKey                                              *)
(*                                                                         *)
(* What the runtime configuration of the scopes comes to is ConfigStartup; *)
(* here a workspace holds the joint keys of each scope in scopes, in       *)
(* invalid the scopes whose validation ends the start, whether the default *)
(* source is there (defaultSource) and whether a source has a directory of *)
(* public files (publicFiles).                                             *)
(***************************************************************************)
EXTENDS HostWorkspace

CONSTANT ProjectDir    \* the directory of nuxt.config

(***************************************************************************)
(*   phase       "start", "configured", then in the module's setup         *)
(*               "composed" and "mounted", "set up"; "refused"             *)
(*   options     never modified                                            *)
(*   bootstrap   Nothing until there is one, and without extensions        *)
(*   layers      the roots of _layers, the project's first                 *)
(*   public      the public runtime configuration                          *)
(*   plugin      what the contributions plug-in holds, or Nothing          *)
(*   reported    what the reporter was told, or Nothing                    *)
(*   assets, imports   what else the module registered                     *)
(*   before, seen, read   the disk nuxt.config, the module's setup and its *)
(*               runtime configuration met; history, for the properties    *)
(***************************************************************************)
VARIABLE nuxt

Root(dir) == Physical(dir)
NoKeys == [key \in {} |-> Nothing]

-----------------------------------------------------------------------------
\* Mutated form of NuxtEntry: a nested extension keeps its parent's directory.
NuxtEntryInPlace(ws, e) ==
    LET place == ws.dirs[e.dir.name]
        owns  == e.dir.kind = "disk"
    IN  [id |-> e.id, dir |-> e.dir, file |-> e.file, descriptor |-> e.descriptor,
         configFile |-> owns /\ place.config, parts |-> owns /\ place.parts]

\* createExtensionEntry: what a directory holds of a layer; a nested extension's
\* directory does not exist.
NuxtEntry(ws, e) ==
    LET dir   == IF e.nested THEN VirtualDirectory(e.id) ELSE e.dir
        place == ws.dirs[dir.name]
        owns  == dir.kind = "disk"
    IN  [id |-> e.id, dir |-> dir, file |-> e.file, descriptor |-> e.descriptor,
         configFile |-> owns /\ place.config, parts |-> owns /\ place.parts]

\* canRegisterExtensionLayer and canExtendExtensionLayer.
RegistersLayer(e) == e.configFile \/ e.parts
ExtendsLayer(e) == e.configFile

\* Whether an entry groups: it stands at the synthetic directory of its id.
GroupsExtensions(e) == e.dir = VirtualDirectory(e.id)

\* discoverNuxtExtensionEntries, or Nothing where it throws.
EntriesOf(ws, found, virtual) ==
    IF found = Nothing \/ virtual = Nothing THEN Nothing
    ELSE {NuxtEntry(ws, e) : e \in found \cup virtual}

NuxtEntries(ws, o) == EntriesOf(ws, Discovered(ws, o), Virtual(ws, o))

-----------------------------------------------------------------------------
IsObject(value) == value.kind = "object"

\* mergeRuntimeConfigSection, two levels deep.
Deepened(target, source) ==
    [key \in DOMAIN target \cup DOMAIN source |->
        IF key \notin DOMAIN source THEN target[key]
        ELSE IF key \in DOMAIN target /\ IsObject(target[key]) /\ IsObject(source[key])
        THEN [kind |-> "object", held |-> Over(source[key].held, target[key].held)]
        ELSE source[key]]

\* createExtensionSelectionRuntimeConfig: what the active extensions bring, in some
\* order of theirs, and the composition under a key of its own.
SelectionConfig(discovered, resolution, active) ==
    LET row     == SetToSeq(active)
        brought == FoldLeft(Deepened, NoKeys, [k \in DOMAIN row |-> row[k].descriptor.public])
        told    == [kind |-> "selection", discovered |-> Present(discovered),
                    resolved |-> Composed(resolution), selected |-> resolution.seed.selected]
    IN  Over(Keyed("extensionSelection", told), brought)

\* A bootstrap without a composition.
EmptyBootstrap(entries, seed, base) ==
    [requested |-> seed.requested, selected |-> seed.selected, base |-> base,
     discovered |-> entries, resolved |-> {}, active |-> {}, slots |-> <<>>, public |-> NoKeys]

BootstrapOf(resolution) ==
    IF resolution = Nothing THEN Nothing
    ELSE LET active == {e \in resolution.items : RegistersLayer(e)}
         IN  [requested |-> resolution.seed.requested, selected |-> resolution.seed.selected,
              base |-> resolution.seed.base, discovered |-> resolution.discovered,
              resolved |-> resolution.items, active |-> active, slots |-> resolution.slots,
              public |-> SelectionConfig(resolution.discovered, resolution, active)]

\* createNuxtExtensionBootstrap: without entries only a seed that names a version
\* selector is resolved.
BootstrapWith(extensions, entries, seed) ==
    LET named == \E spec \in seed.specs : NamedSelector(extensions.seed, spec)
    IN  IF entries = Nothing \/ seed = Nothing THEN Nothing
        ELSE IF entries = {} /\ (~extensions.enabled \/ ~named)
        THEN EmptyBootstrap({}, seed, IF extensions.enabled THEN seed.base ELSE {})
        ELSE BootstrapOf(Resolve(entries, {e \in entries : GroupsExtensions(e)}, extensions.seed))

Bootstrap(ws, o) ==
    BootstrapWith(o.extensions, IF o.extensions.enabled THEN NuxtEntries(ws, o) ELSE {},
                  SeedOf(o.extensions.seed))

\* createNuxtExtensionLayerPaths.  The order of the extensions among each other is
\* left open.
LayerPaths(bootstrap) ==
    LET extending == SetToSeq({e \in bootstrap.active : ExtendsLayer(e)})
    IN  [k \in DOMAIN extending |-> extending[k].dir]

-----------------------------------------------------------------------------
\* registerContributions: of the resolved extensions with a package.json, read now.
ContributionPlugin(ws, bootstrap) ==
    LET place(e)  == ws.dirs[e.dir.name]
        physical  == {e \in bootstrap.resolved :
                        e.dir.kind = "disk" /\ place(e) # Nothing /\ place(e).manifest # Nothing}
        manifest(id) == place(EntryOf(physical, id)).manifest
        sources   == [id \in Present(physical) |-> manifest(id)]
        entries   == ContributionEntries([id \in Present(physical) |-> sources[id].name], sources)
    IN  IF \/ \E e \in physical : place(e).manifest = Broken \/ place(e).manifest.name = Nothing
           \/ entries = Nothing
        THEN Nothing
        ELSE [modules |-> entries,
              plan |-> [selected |-> Present(bootstrap.resolved), catalog |-> Present(bootstrap.discovered)]]

\* registerFileOnlyExtensionLayers: after the project's layer and before the others,
\* none whose root is there.
WithFileOnly(layers, bootstrap) ==
    LET added == {e.dir : e \in {f \in bootstrap.active : ~f.configFile}}
        roots == SetToSeq(added \ ToSet(layers))
    IN  IF layers = <<>> THEN roots ELSE <<Head(layers)>> \o roots \o Tail(layers)

\* createProviderSelectionRuntimeConfig.
PublishedSlots(o, bootstrap) ==
    IF o.providers THEN Keyed("providerSelection", [kind |-> "slots", slots |-> bootstrap.slots]) ELSE NoKeys

\* createNuxtExtensionBootstrapLogEvent, as the report rendered from it: without the
\* provider selection it shows no slots.
LogReport(o, bootstrap) ==
    Report([requested |-> bootstrap.requested, selected |-> bootstrap.selected, base |-> bootstrap.base],
           Present(bootstrap.discovered), Present(bootstrap.resolved),
           IF o.providers THEN bootstrap.slots ELSE <<>>)

-----------------------------------------------------------------------------
\* resolveRuntimeConfigModuleOptions and createDefaultRuntimeConfigOptions.
ModuleConfig(ws, o) ==
    IF o.config # Nothing THEN (IF o.config.enabled THEN o.config ELSE Nothing)
    ELSE IF ws.defaultSource
    THEN [enabled |-> TRUE, source |-> TRUE, fragments |-> NoKeys, imports |-> Nothing,
          assets |-> TRUE, validation |-> FALSE, contextKey |-> "__contexts"]
    ELSE Nothing

ResolvedIds(bootstrap) == IF bootstrap = Nothing THEN {} ELSE Present(bootstrap.resolved)

\* createConfiguredNuxtRuntimeConfig: the scopes of the resolved extensions, or all
\* without any.
ScopeKeys(ws, config, bootstrap) ==
    LET scopes == IF config.source THEN ws.scopes ELSE config.fragments
        taken  == IF ResolvedIds(bootstrap) = {} THEN DOMAIN scopes
                  ELSE DOMAIN scopes \cap ResolvedIds(bootstrap)
        owner(key) == CHOOSE s \in taken : key \in DOMAIN scopes[s]
    IN  [key \in UNION {DOMAIN scopes[s] : s \in taken} |-> scopes[owner(key)][key]]

\* createRuntimeConfigDefaultsConfig.
ComposableDefaults(config) == Keyed("__lorionNuxt", [kind |-> "defaults", contextKey |-> config.contextKey])

\* resolveRuntimeConfigValidationTargets.
Targets(bootstrap) ==
    IF bootstrap = Nothing THEN {} ELSE {e \in bootstrap.resolved : e.descriptor.policy # Nothing}

SchemaBroken(ws, e) ==
    /\ e.descriptor.policy # "none" /\ e.dir.kind = "disk"
    /\ ws.dirs[e.dir.name] # Nothing /\ ws.dirs[e.dir.name].schema = Broken

\* createRuntimeConfigValidationSchemas and validateRuntimeConfigSource throw.
ConfigRefused(ws, config, bootstrap) ==
    /\ config # Nothing /\ config.validation
    /\ \E e \in Targets(bootstrap) : SchemaBroken(ws, e) \/ (config.source /\ e.id \in ws.invalid)

\* shouldRegisterRuntimeConfigImports.
RegistersImports(o, config) ==
    config # Nothing /\ (IF config.imports # Nothing THEN config.imports ELSE o.scan)

\* registerRuntimeConfigPublicAssets.
ServesPublicFiles(ws, config) ==
    config # Nothing /\ config.assets /\ config.source /\ ws.publicFiles

-----------------------------------------------------------------------------
IdleNuxt(o) ==
    [phase |-> "start", options |-> o, bootstrap |-> Nothing, layers |-> <<>>, public |-> NoKeys,
     plugin |-> Nothing, reported |-> Nothing, assets |-> FALSE, imports |-> FALSE,
     before |-> Nothing, seen |-> Nothing, read |-> Nothing]

Refuse == nuxt' = [nuxt EXCEPT !.phase = "refused"]

Configured(o, bootstrap) ==
    IF o.shared /\ bootstrap = Nothing THEN Refuse
    ELSE LET paths == IF o.shared THEN LayerPaths(bootstrap) ELSE <<>>
         IN  nuxt' = [nuxt EXCEPT !.phase = "configured", !.before = disk, !.bootstrap = bootstrap,
                                  !.layers = <<Root(ProjectDir)>> \o o.own \o paths, !.public = o.host]

\* nuxt.config is evaluated, and Nuxt loads what it extends.
NuxtStart ==
    /\ nuxt.phase = "start"
    /\ Configured(nuxt.options, IF nuxt.options.shared THEN Bootstrap(disk, nuxt.options) ELSE Nothing)
    /\ UNCHANGED <<disk, edits>>

\* Mutated form of ModuleBootstrap: the module composes its own.
ModuleBootstrapAnew(n, ws) ==
    IF n.options.extensions # Nothing /\ n.options.extensions.enabled THEN Bootstrap(ws, n.options) ELSE Nothing

\* The bootstrap handed to the module, or one of its own.
ModuleBootstrap(n, ws) ==
    IF n.options.shared THEN n.bootstrap
    ELSE IF n.options.extensions # Nothing /\ n.options.extensions.enabled THEN Bootstrap(ws, n.options)
    ELSE Nothing

ComposedFrom(o, bootstrap, plugin) ==
    LET asked == o.shared \/ (o.extensions # Nothing /\ o.extensions.enabled)
    IN  IF (asked /\ bootstrap = Nothing) \/ (o.contributions /\ plugin = Nothing) THEN Refuse
        ELSE nuxt' = [nuxt EXCEPT !.phase = "composed", !.bootstrap = bootstrap, !.seen = disk, !.plugin = plugin]

ComposedWith(o, bootstrap) ==
    ComposedFrom(o, bootstrap,
        IF o.contributions /\ bootstrap # Nothing THEN ContributionPlugin(disk, bootstrap) ELSE Nothing)

\* The module's setup: the bootstrap and, before anything is mounted, the contributions.
NuxtCompose ==
    /\ nuxt.phase = "configured"
    /\ ComposedWith(nuxt.options, ModuleBootstrap(nuxt, disk))
    /\ UNCHANGED <<disk, edits>>

NuxtMount ==
    LET o == nuxt.options
        b == nuxt.bootstrap
    IN  /\ nuxt.phase = "composed"
        /\ nuxt' = IF b = Nothing THEN [nuxt EXCEPT !.phase = "mounted"]
                   ELSE [nuxt EXCEPT !.phase = "mounted",
                                     !.reported = IF o.reporter THEN LogReport(o, b) ELSE Nothing,
                                     !.layers = WithFileOnly(@, b),
                                     !.public = Over(PublishedSlots(o, b), Over(b.public, @))]
        /\ UNCHANGED <<disk, edits>>

\* applyRuntimeConfigModule.
NuxtApplyConfig ==
    LET config == ModuleConfig(disk, nuxt.options)
        b      == nuxt.bootstrap
    IN  /\ nuxt.phase = "mounted"
        /\ IF ConfigRefused(disk, config, b) THEN Refuse
           ELSE nuxt' = [nuxt EXCEPT
                    !.phase = "set up", !.read = disk,
                    !.imports = RegistersImports(nuxt.options, config),
                    !.assets = ServesPublicFiles(disk, config),
                    !.public = IF config = Nothing THEN @
                               ELSE Over(ScopeKeys(disk, config, b), Over(ComposableDefaults(config), @))]
        /\ UNCHANGED <<disk, edits>>

NuxtNext == NuxtStart \/ NuxtCompose \/ NuxtMount \/ NuxtApplyConfig

-----------------------------------------------------------------------------
\* getNuxtExtensionSelection and getNuxtProviderSelection.
ToldSelection(public) ==
    IF "extensionSelection" \in DOMAIN public /\ public["extensionSelection"].kind = "selection"
    THEN LET told == public["extensionSelection"]
         IN  [discovered |-> told.discovered, resolved |-> told.resolved, selected |-> told.selected,
              notInjected |-> told.discovered \ told.resolved]
    ELSE [discovered |-> {}, resolved |-> {}, selected |-> {}, notInjected |-> {}]

ToldSlots(public) ==
    IF "providerSelection" \in DOMAIN public /\ public["providerSelection"].kind = "slots"
    THEN public["providerSelection"].slots ELSE Nothing

OnceIn(layers, dir) == \E k \in DOMAIN layers : \A j \in DOMAIN layers : layers[j] = dir <=> j = k

\* A scope of the runtime configuration has a joint key the composition is told under,
\* and is merged over it.  (applyRuntimeConfigModule)
ScopesWrite(n) ==
    LET config == ModuleConfig(n.read, n.options)
    IN  /\ config # Nothing
        /\ DOMAIN ScopeKeys(n.read, config, n.bootstrap) \cap {"extensionSelection", "providerSelection"} # {}

\* The application is told of the composition that is mounted: every layer besides the
\* project's and the host's own is one of a resolved extension, no layer is mounted twice
\* that nuxt.config does not name twice, each extension with a layer is mounted, the
\* project's own layer stays in front, and unless a scope of the runtime configuration
\* writes there, the ids and the slots are those of the same bootstrap, whatever is
\* edited between nuxt.config and the module's setup.  (Where nothing was discovered no
\* ids are told, and what nuxt.config itself wrote there stays.)  Without a shared
\* bootstrap nothing extends the config layers, and only the others are mounted.
\* (createNuxtExtensionBootstrap, createNuxtExtensionLayerPaths,
\* registerFileOnlyExtensionLayers, getNuxtExtensionSelection, getNuxtProviderSelection)
MountedAsTold ==
    nuxt.phase = "set up" /\ nuxt.bootstrap # Nothing =>
        LET b      == nuxt.bootstrap
            layers == nuxt.layers
            own    == <<Root(ProjectDir)>> \o nuxt.options.own
            told   == ToldSelection(nuxt.public)
            OwnOnce(dir) ==
                /\ OnceIn(own, dir)
                /\ nuxt.options.shared => \A e \in b.resolved : e.dir = dir => ~ExtendsLayer(e)
        IN  /\ layers # <<>> /\ Head(layers) = Root(ProjectDir)
            /\ \A dir \in ToSet(layers) : (dir \in ToSet(own) => OwnOnce(dir)) => OnceIn(layers, dir)
            /\ \A dir \in ToSet(layers) \ ToSet(own) : \E e \in b.resolved : e.dir = dir
            /\ \A e \in b.resolved :
                RegistersLayer(e) /\ (nuxt.options.shared \/ ~e.configFile) => e.dir \in ToSet(layers)
            /\ ~ScopesWrite(nuxt) =>
                /\ b.discovered # {} \/ "extensionSelection" \notin DOMAIN nuxt.options.host =>
                    {e.id : e \in b.resolved} = told.resolved
                /\ nuxt.options.providers => ToldSlots(nuxt.public) = b.slots
=============================================================================
