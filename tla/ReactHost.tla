------------------------------ MODULE ReactHost ------------------------------
(***************************************************************************)
(* The build-time host of React (lorionReact, capabilityLoader): what it   *)
(* composes when the bundler's configuration is evaluated, what it         *)
(* composes again for each build, and the modules a build loads from it.   *)
(*                                                                         *)
(* Options are those of HostWorkspace and                                  *)
(*   run              a sealed run in place of options of its own          *)
(*   contributions    the contribution modules are emitted                 *)
(*   descriptorPaths  patterns are given: no directory has to exist        *)
(*   activation       "default", "surface", "custom", or "both"            *)
(*   seed             what is asked for                                    *)
(*   config           the options of the runtime configuration             *)
(***************************************************************************)
EXTENDS ReactRuntimeConfig

CONSTANT MaxBuilds    \* bound on the builds of one configuration

(***************************************************************************)
(* What a host holds, in one record:                                       *)
(*   phase    "start", "created", then for each build "contribute",        *)
(*            "configure" and "built", or "threw"; "refused" if there is   *)
(*            no host                                                      *)
(*   options  never modified                                               *)
(*   virtual  the groupings the loader's options hold                      *)
(*   held     the composition made beforehand: a prepared one or a sealed  *)
(*            run's, or Nothing                                            *)
(*   routes   the route directories handed to the router                   *)
(*   loader   what the plug-in's closure holds                             *)
(*   current  the composition of the build under way                       *)
(*   builds   how many there were                                          *)
(*   before, seen, read   the disk the configuration, the last build and   *)
(*            its runtime configuration met; history, for the properties   *)
(***************************************************************************)
VARIABLE react

-----------------------------------------------------------------------------
\* resolveActivationEntry: the convention is an export the package must have; a surface
\* is brought by a file, and a resolver of the host's own is asked about the export.
Activates(place, o) ==
    IF o.activation = "surface" THEN place.marker ELSE place.manifest.capability

LacksEntry(place, o) == o.activation = "default" /\ ~place.manifest.capability

Unnamed(place) == place.manifest \in {Nothing, Broken} \/ place.manifest.name = Nothing

\* discoverCapability.
Capability(e, place, o) ==
    [id |-> e.id, dir |-> e.dir, file |-> e.file, descriptor |-> e.descriptor,
     packageName |-> place.manifest.name, active |-> Activates(place, o), routes |-> place.routes]

\* toVirtualCapability: graph-only, in a directory that never exists.
GroupingOf(e) ==
    [id |-> e.id, dir |-> VirtualDirectory(e.id), file |-> e.file, descriptor |-> e.descriptor,
     packageName |-> Nothing, active |-> FALSE, routes |-> FALSE]

IsGrouping(c) == c.packageName = Nothing

\* discoverCapabilities: one capability that is no package fails them all, selected or
\* not.
Capabilities(ws, o, found) ==
    IF \/ ~o.descriptorPaths /\ ~ws.present
       \/ o.activation = "both"
       \/ found = Nothing
       \/ \E e \in found : ~e.nested /\ (Unnamed(ws.dirs[e.file]) \/ LacksEntry(ws.dirs[e.file], o))
    THEN Nothing
    ELSE {IF e.nested THEN GroupingOf(e) ELSE Capability(e, ws.dirs[e.file], o) : e \in found}

DiscoverCapabilities(ws, o) == Capabilities(ws, o, Discovered(ws, o))

\* resolveDiscoveredCapabilitySelection, with the groupings the options hold by then.
ResolveCapabilities(items, seed) == Resolve(items, {c \in items : IsGrouping(c)}, seed)

SelectionAmong(found, virtual, o) ==
    IF virtual = Nothing \/ found = Nothing THEN Nothing
    ELSE ResolveCapabilities(found \cup {GroupingOf(e) : e \in virtual}, o.seed)

CapabilitySelection(ws, virtual, o) == SelectionAmong(DiscoverCapabilities(ws, o), virtual, o)

\* routeConfigFromCapabilities.
RouteConfig(selection) == {c.dir : c \in {d \in selection.items : d.routes /\ ~d.descriptor.disabled}}

\* describeCapabilityComposition: a composition of its own, whenever it is asked.
ReportOf(selection) ==
    IF selection = Nothing THEN Nothing
    ELSE Report(selection.seed, Present(selection.discovered), Composed(selection), selection.slots)

ReactReport(ws, o) == ReportOf(CapabilitySelection(ws, Virtual(ws, o), o))

-----------------------------------------------------------------------------
\* A run over a package snapshot, as far as hosts see it: every directory with a
\* descriptor is a package with a name of its own.  CompositionRuns is about the rest.
RunItems(ws, o, found) ==
    IF \/ found = Nothing
       \/ \E d \in Files(ws) : Unnamed(ws.dirs[d])
       \/ \E d, e \in Files(ws) : d # e /\ ws.dirs[d].manifest.name = ws.dirs[e].manifest.name
    THEN Nothing
    ELSE {IF e.nested THEN GroupingOf(e)
          ELSE [Capability(e, ws.dirs[e.file], o) EXCEPT !.routes = FALSE] : e \in found}

RunSelection(ws, o) == SelectionAmong(RunItems(ws, o, Discovered(ws, o)), Virtual(ws, o), o)

\* capabilityLoaderFromRun: a capability of the run without an entry fails it.
WithEntries(ws, o, selection) ==
    IF \/ o.activation = "both" \/ selection = Nothing
       \/ \E c \in selection.items : ~IsGrouping(c) /\ LacksEntry(ws.dirs[c.file], o)
    THEN Nothing ELSE selection

SealedRun(ws, o) == WithEntries(ws, o, RunSelection(ws, o))

-----------------------------------------------------------------------------
\* createContributionSource: the packages are read again, and go by the names they had.
ContributionSource(ws, selection) ==
    LET physical == {c \in selection.items : ~IsGrouping(c)}
        place(c) == ws.dirs[c.dir.name]
        name     == [id \in Present(physical) |-> EntryOf(physical, id).packageName]
        sources  == [id \in Present(physical) |->
                        [name          |-> name[id],
                         contributions |-> place(EntryOf(physical, id)).manifest.contributions]]
        entries  == ContributionEntries(name, sources)
    IN  IF \/ \E c \in physical : place(c) = Nothing \/ place(c).manifest \in {Nothing, Broken}
           \/ entries = Nothing
        THEN Nothing
        ELSE [modules |-> entries, plan |-> PlanOf(selection)]

-----------------------------------------------------------------------------
NoLoader ==
    [capabilities |-> {}, discovered |-> {}, selected |-> {}, slots |-> <<>>,
     contribution |-> Nothing, config |-> NoConfig]

IdleReact(o) ==
    [phase |-> "start", options |-> o, virtual |-> Nothing, held |-> Nothing, routes |-> {},
     loader |-> NoLoader, current |-> Nothing, builds |-> 0,
     before |-> Nothing, seen |-> Nothing, read |-> Nothing]

\* The loader's closure after a composition is taken over whole.
TakenOver(loader, selection, source) ==
    [loader EXCEPT !.capabilities = selection.items,
                   !.discovered   = Present(selection.discovered),
                   !.selected     = selection.seed.selected,
                   !.slots        = selection.slots,
                   !.contribution = source]

\* A configuration that throws leaves no host.
Created(virtual, held, routes, loader) ==
    react' = [react EXCEPT !.phase = "created", !.before = disk, !.virtual = virtual,
                           !.held = held, !.routes = routes, !.loader = loader]

RefuseConfiguration == react' = [react EXCEPT !.phase = "refused"]

Prepared(virtual, selection) ==
    IF selection = Nothing THEN RefuseConfiguration
    ELSE Created(virtual, IF react.options.contributions THEN selection ELSE Nothing,
                 RouteConfig(selection), NoLoader)

\* The routes are composed when the configuration is evaluated.  With contributions
\* the builds take that composition over, without them a build composes again.
ReactConfigure ==
    /\ react.phase = "start" /\ ~react.options.run
    /\ LET virtual == Virtual(disk, react.options)
       IN  Prepared(virtual, CapabilitySelection(disk, virtual, react.options))
    /\ UNCHANGED <<disk, edits>>

SealedWith(selection, source) ==
    IF selection = Nothing \/ (react.options.contributions /\ source = Nothing) THEN RefuseConfiguration
    ELSE Created(Nothing, selection, {}, TakenOver(NoLoader, selection, source))

SealedOver(o, selection) ==
    SealedWith(selection,
        IF o.contributions /\ selection # Nothing THEN ContributionSource(disk, selection) ELSE NoLoader.contribution)

\* capabilityLoader over a run: all but the runtime configuration is settled now.
ReactSeal ==
    /\ react.phase = "start" /\ react.options.run
    /\ SealedOver(react.options, SealedRun(disk, react.options))
    /\ UNCHANGED <<disk, edits>>

-----------------------------------------------------------------------------
\* Mutated form of BuildSelection: a prepared composition is not used.
BuildSelectionAnew(r, ws) == IF r.options.run THEN r.held ELSE CapabilitySelection(ws, r.virtual, r.options)

\* What a build is composed of: what was held for it, or what there is now.
BuildSelection(r, ws) == IF r.held # Nothing THEN r.held ELSE CapabilitySelection(ws, r.virtual, r.options)

Throw == react' = [react EXCEPT !.phase = "threw", !.builds = @ + 1]

Resolved(selection) ==
    IF selection = Nothing THEN Throw
    ELSE react' = [react EXCEPT !.phase = "contribute", !.current = selection, !.seen = disk,
                                !.loader.capabilities = selection.items,
                                !.loader.discovered = Present(selection.discovered)]

\* configResolved takes over the capabilities first; what the closure held besides
\* stays until the steps below.
ReactResolve ==
    /\ react.phase \in {"created", "built", "threw"} /\ react.builds < MaxBuilds
    /\ Resolved(BuildSelection(react, disk))
    /\ UNCHANGED <<disk, edits>>

\* The contributions are those of this build, or the run's.
ReactContribute ==
    LET o      == react.options
        source == IF o.contributions /\ ~o.run THEN ContributionSource(disk, react.current)
                  ELSE react.loader.contribution
    IN  /\ react.phase = "contribute"
        /\ IF o.contributions /\ source = Nothing THEN Throw
           ELSE react' = [react EXCEPT !.phase = "configure", !.loader = TakenOver(@, react.current, source)]
        /\ UNCHANGED <<disk, edits>>

Emitted(config) ==
    IF config = Nothing THEN Throw
    ELSE react' = [react EXCEPT !.phase = "built", !.builds = @ + 1, !.read = disk, !.loader.config = config]

ReactEmit ==
    /\ react.phase = "configure"
    /\ Emitted(CreateConfig(disk, react.loader.capabilities, react.options.config))
    /\ UNCHANGED <<disk, edits>>

ReactNext ==
    ReactConfigure \/ ReactSeal \/ ReactResolve \/ ReactContribute \/ ReactEmit

-----------------------------------------------------------------------------
\* load, for each virtual module: the server's configuration only for a server.
CapabilityModule(loader) ==
    [discovered |-> loader.discovered, selected |-> loader.selected,
     resolved |-> Present(loader.capabilities), slots |-> loader.slots,
     modules |-> Present({c \in loader.capabilities : c.active})]

ConfigModule(loader) == [public |-> loader.config.public, stray |-> loader.config.stray]

ServerConfigModule(loader, ssr) == IF ssr THEN loader.config ELSE Nothing

-----------------------------------------------------------------------------
\* What was composed when the configuration was evaluated is what every build loads
\* and contributes, for a prepared host and a sealed run whatever is edited in the
\* meantime, and for any other host if nothing is.
\* (lorionReact, createCapabilityLoader, capabilityLoaderFromRun, createContributionSource)
OneComposition ==
    react.phase = "built" =>
        LET module == CapabilityModule(react.loader)
            source == react.loader.contribution
            first  == IF react.options.run THEN RunSelection(react.before, react.options)
                      ELSE CapabilitySelection(react.before, react.virtual, react.options)
        IN  /\ react.held # Nothing \/ react.seen = react.before =>
                /\ module.resolved = Composed(first) /\ module.slots = first.slots
                /\ ~react.options.run => react.routes = RouteConfig([items |-> react.loader.capabilities])
            /\ source # Nothing =>
                /\ source.plan = [selected |-> module.resolved, catalog |-> module.discovered]
                /\ source.modules \subseteq module.resolved

\* What a build emits under a scope is what the scope's schema accepted: the file's
\* values with the environment's over them, as a whole, wherever the descriptor or
\* the host asks for it, and nothing under a scope that takes no part.  What a file
\* holds besides the values of its sections was before the schema too, and is not
\* emitted.  The private values of a scope called "public" are excepted, which land
\* among the public scopes: the one they are meant for, and each whose name they take.
\* (createReactRuntimeConfig, mergeRuntimeConfigFragmentMaps, validateReactRuntimeConfig,
\* projectRuntimeConfigNamespaces, getCapabilityRuntimeConfigScope)
EmittedChecked ==
    react.phase = "built" /\ react.options.config.enabled =>
        LET o      == react.options.config
            loader == react.loader
            spilt  == DOMAIN Spilt(Fragments(react.read, loader.capabilities, o))
        IN  /\ \A v \in Visibilities : DOMAIN loader.config[v] \subseteq Present(loader.capabilities)
            /\ DOMAIN loader.config.stray \subseteq spilt
            /\ o.validation # Nothing =>
                \A c \in loader.capabilities :
                    LET mode     == Policy(o, c)
                        schema   == SchemaOf(react.read, c)
                        fragment(extra) ==
                            [public  |-> ScopeOf(ConfigModule(loader), "public", c.id),
                             private |-> ScopeOf(ServerConfigModule(loader, TRUE), "private", c.id),
                             extra   |-> extra]
                        apart    == c.id \notin spilt /\ (c.id = "public" => spilt = {})
                    IN  apart /\ schema # Nothing
                        /\ (mode = "startup" \/ (mode = "optional" /\ fragment(Nothing) # NoFragment))
                        => \E extra \in Extras : Accepts(schema, fragment(extra))
=============================================================================
