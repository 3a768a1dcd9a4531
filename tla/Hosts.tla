-------------------------------- MODULE Hosts --------------------------------
(***************************************************************************)
(* The build-time hosts over one workspace: a React build, a Nuxt          *)
(* application, or both of one product, while the workspace is edited.     *)
(* Both discover, resolve and report through the same packages; each has   *)
(* its own view of a directory, of a grouping and of what is read when.    *)
(***************************************************************************)
EXTENDS ReactHost, NuxtHost

CONSTANT Setups    \* pairs of options, Nothing for a host that is not there

\* Of the options of Nuxt, the groupings are a finite set and the own layers a row.
ASSUME SetupsAssumption ==
    \A setup \in Setups : setup.nuxt # Nothing =>
        /\ IsFiniteSet(setup.nuxt.virtualDescriptors)
        /\ setup.nuxt.own \in Seq({setup.nuxt.own[k] : k \in DOMAIN setup.nuxt.own})

hostVars == <<disk, edits, react, nuxt>>

Absent(host) == [host EXCEPT !.phase = "absent"]

HostsInit ==
    /\ disk \in Disks /\ edits = 0
    /\ \E setup \in Setups :
        /\ react = IF setup.react = Nothing THEN Absent(IdleReact(Nothing)) ELSE IdleReact(setup.react)
        /\ nuxt = IF setup.nuxt = Nothing THEN Absent(IdleNuxt(Nothing)) ELSE IdleNuxt(setup.nuxt)

HostsNext ==
    \/ ReactNext /\ UNCHANGED nuxt
    \/ NuxtNext /\ UNCHANGED react
    \/ Edit /\ UNCHANGED <<react, nuxt>>

HostsSpec == HostsInit /\ [][HostsNext]_hostVars

-----------------------------------------------------------------------------
\* Both hosts are asked for one thing in one workspace.
AskedAlike ==
    LET r == react.options
        n == nuxt.options
    IN  /\ n.extensions # Nothing /\ n.extensions.enabled /\ n.extensions.seed = r.seed
        /\ <<n.nestedField, n.schema, n.virtualDescriptors, n.bundles>>
            = <<r.nestedField, r.schema, r.virtualDescriptors, r.bundles>>

\* Nothing but the module writes the keys the application is told under.
KeysKept == "extensionSelection" \notin DOMAIN nuxt.options.host /\ ~ScopesWrite(nuxt)

\* Two hosts asked for one thing in a workspace nobody edits compose alike, whether the
\* React build composes beforehand, for itself or from a sealed run and the Nuxt
\* application in its configuration or its module: what each tells of the discovered, the
\* resolved and the selected and of the slots is the same, unless somebody else writes
\* where the application is told, they load the same contributions under the same plan,
\* and print the same report.
\* (resolveDiscoveredCapabilitySelection, createNuxtExtensionBootstrap,
\* capabilityLoaderFromRun, createContributionSource, registerContributions,
\* describeCapabilityComposition, formatNuxtExtensionBootstrapLog)
HostsAgree ==
    react.phase = "built" /\ nuxt.phase = "set up" /\ edits = 0 /\ AskedAlike =>
        LET module == CapabilityModule(react.loader)
            told   == ToldSelection(nuxt.public)
        IN  /\ KeysKept =>
                /\ <<module.discovered, module.resolved, module.selected>>
                    = <<told.discovered, told.resolved, told.selected>>
                /\ nuxt.options.providers => ToldSlots(nuxt.public) = module.slots
            /\ react.options.contributions /\ nuxt.options.contributions =>
                nuxt.plugin = react.loader.contribution
            /\ ~react.options.run /\ nuxt.options.providers /\ nuxt.options.reporter =>
                nuxt.reported = ReactReport(disk, react.options)

\* Whoever gives the flag a value is heard, where there is a flag: an argument that
\* happens to equal the bare key does not outrank it, and neither does a variable, unless
\* the host's own options select.
\* (resolveCliKeys, readCliValue, readDescriptorSelectionSeed, resolveRequestedSelection)
FlagHeard ==
    react.phase = "built" /\ react.options.seed.selectionSeed /\ 1 \in DOMAIN CliKeys(react.options.seed) =>
        LET seed  == react.options.seed
            key   == IF seed.cliKeys = Nothing THEN seed.key ELSE seed.cliKeys[1].key
            value == CliValue(seed.argv, Flag(key))
        IN  SpecsOf(seed.selected) = {} /\ ~Blank(value) /\ SpecsIn(value) # {} =>
                react.loader.selected = {IdOf(spec) : spec \in SpecsIn(value)}
=============================================================================
