# Formal models of lorion

TLA+ models of the composition toolkit in this repository: how a workspace of
descriptors, a seed and a set of provider choices become one composition, and
what a host may rely on when it does. TLC checks the models on small
instances; TLAPS proves the properties that matter most for every instance.
Paths below are relative to `src/packages/`.

## The system

lorion composes *descriptors* (`{ id, version, dependencies, providesFor,
defaultFor, ... }`) found in a workspace into a *composition*: the set of
descriptors that takes part. A *capability* is a descriptor id that other
descriptors provide for; each capability is a *slot* with at most one winner. A
*grouping* is a descriptor whose members a host relation names. A *seed* names
what a run selects, a *base* what every run stands on.

| Component | State it keeps | Operations | Works with |
| --- | --- | --- | --- |
| composition-graph | the descriptor map and the adjacency lists, immutable once built | transitive closure, dependents, paths, provenance; contribution catalogs | read by descriptor-selection and the reports |
| provider-selection | none | decides each slot from three tiers of requests | called on every pass of descriptor-selection |
| descriptor-selection | worklists, fixpoint variables and the assignment of one call | checks a request, opens groupings, alternates closure and provider choice, composes; searches versions around all that | composition-graph, provider-selection |
| descriptor-discovery | a package-snapshot cache owned by the caller | reads descriptors and manifests from the file system, in several roots | capability-composition |
| capability-composition | one sealed resolution and one snapshot per run | resolves, seals, loads and registers surfaces, lists surface entries, reports | everything above; host callbacks `load` and `register` |
| contributions | a runtime: its plan, submitted items, collections | reads a plan, checks modules, runs factories, publishes | capability-composition |
| surface-activation | none | which capabilities bring a surface, and how their modules are addressed | capability-composition |
| registry-hub | ordered maps of items, by name | creates registries on demand, registers, lists | hosts, from `register` |
| runtime-config | a cache of compiled schemas | joins the fragments of scopes into one object per visibility, reads scopes and keys back, validates on use | adapters |
| runtime-config-node | none; the files of a source | lists, reads, writes and validates fragments, answers queries of a directory | runtime-config, adapters |
| react adapter | the closure of a bundler plug-in: capabilities, selection, contributions, runtime configuration | composes when the bundler's configuration is evaluated, again for each build or from a sealed run; serves virtual modules | everything above, the bundler |
| nuxt adapter | Nuxt's layers and runtime configuration | composes in `nuxt.config` or in its module, mounts layers, tells the application; starts from configuration files | everything above, Nuxt |

How they interact: a host (an adapter or an application) creates a
*composition run*. That reads packages and descriptors
(descriptor-discovery), resolves the seed against them (descriptor-selection,
which searches versions and, for every assignment, alternates
composition-graph's closure with provider-selection), checks that both readings
belong together, and seals the result. A sealed run is then asked for reports,
contribution plans, the static entries of a surface, or to `compose` a surface:
load each module and hand its export to the host's `register`, commonly a
registry hub.

Beside that, a host takes its *runtime configuration* from files: every scope (an
extension) has a fragment, and all fragments are projected into one flat object, in
which a key carries its scope as a prefix. Code reads a scope back by that prefix.

Nearly all of it is synchronous and single-threaded. What is hard is

- *fixpoints and search* whose answer must not depend on worklist order and
  which could loop: the member loop, the provider passes, the version search;
- *two readings of one disk* at different times, and a cache between runs;
- *files written by others* while a host starts: it reads the fragments, then lists
  and reads them again to validate them;
- *a host's several moments*: evaluating the configuration, each build, the module's
  setup, between which people edit files and some of which throw half-way;
- *two hosts of one product*, which share the selection but read directories,
  groupings and entries each in its own way;
- *awaited callbacks* in `compose`: calls overlap, fail half-way, are retried;
- *two packages that must agree*: the plan projection and the plan's reader,
  the build-time entries and the runtime loader, discovery's defaulting and the
  snapshot's;
- *order independence*: modules, factories, items, edges come in any order, and
  none of it may show in an answer or in the choice between answer and error.

What makes each component correct, in short: a closure is least and exact; a
provider choice justifies itself; a version answer is the first the preference
order admits and a refusal means there is none; a sealed run holds one snapshot;
the contribution runtime answers by content, not by order; a registry ends as
one undisturbed call would leave it; a host runs on the configuration it validated
and a scope reads back what its fragment says; what a host serves, mounts and tells
is one composition, and two hosts asked for the same compose alike. The hazards
behind these are listed line by
line in `PROJECT.json`.

## Modules

In reading order. "State" is the code's variable unless said otherwise.

### Closure: `composition-graph/src/descriptorGraph.ts`, `descriptor-selection/src/index.ts:522-553`

- `Reachability`: the least set that holds some roots and is closed under a
  relation, defined without recursion, and the lemmas about it that the other proofs
  use.
- `CatalogRequests`: the catalog as adjacency lists with relations, groups and
  an admission callback (a set).
- `ClosureContract`: the abstract specification. In one step a request is refused,
  exactly if it names an unknown id, or answered with the least closed set.
- `CompositionClosure`: `getTransitiveTargets` pop by pop and edge by edge, the
  root check, and `resolveWithMembers`' loop around it. The initial stack is
  taken in every order, which includes the sorted one. `Outcome` is the refinement
  mapping. `MCCompositionClosure` instantiates it.
- `GraphQueries`: `explainPath` entry by entry and edge by edge for a batch
  of pairs. `MCGraphQueries` derives the batches from compositions as
  `getCompositionProvenance` does.
- `Dependents`: `getDependents`, the walk over incoming edges; `GraphQueries`
  instantiates it over variables of its own, so that one run asks both queries.

### Selection: `provider-selection/src/index.ts`, `descriptor-selection/src/index.ts`

- `ProviderSelection`: tiers of requests, their validation and the outcome of
  every slot, as operators.
- `SelectionRequests`: catalogs and seeds, the checks made before any provider is
  chosen, what a pass asks of provider selection, the graphs that are walked, and
  the outcome of `DescriptorSelection` as a function of the request (`OutcomeOf`),
  which is what the version search's `resolve` callback is to the search.
- `SelectionContract`: the abstract specification. An answer is *coherent*: its
  slots are what provider selection decides for the very descriptors those
  slots activate. A refusal has a reason: a failed check, an unanswerable choice
  on the way, a coherent answer that is flawed, or a choice that depends on itself.
  One slot *bears* on another if who wins it can change what is asked of the other;
  requests in which no slot bears on itself are *stratified*, and have one coherent
  choice.
- `DescriptorSelection`: `selectSingleVersionDescriptors`, one action per
  check, opened grouping, pass and final closure.
- `CompositionOrigins` (`capability-composition/src/report.ts`): the rows in which a
  run tells where each descriptor came from, read off an answer of
  `DescriptorSelection` for every way to split its roots into selected and base.
  A composition's groupings are its virtual descriptors, whose dependencies are
  their members; other requests have no origins.

### Versions: `descriptor-selection/src/versions.ts`

- `VersionRequests`, `VersionSearch`: `selectVersions`. The roles of ids, the
  candidates eligible, the ids fixed before the search, the fast path, the frames
  of the search with their pruning and backtracking.
- `VersionSearchReference`: the reference definition, every assignment in
  preference order, against which the search is checked.

### Runs: `descriptor-discovery/src`, `capability-composition/src/index.ts`

- `Workspace`: manifests and descriptor documents on disk, ids and versions with
  their defaulting, when a candidate matches a package source.
- `CompositionRuns`: creation of runs, from the snapshot's own documents, from the
  snapshot's paths or from a pattern. Directories are listed in one step and read
  one file per step, while `Edit` changes the disk in between; a snapshot may go to
  a cache the next run uses.
- `RegistryHub`: registries as ordered maps, and which registry object a name
  stands for.
- `SurfaceComposition`: `activateSurface` for overlapping calls of `compose`,
  with `load` and `register` resolving, rejecting or never settling; the
  build-time `resolveSurfaceEntries` beside it.

### Contributions: `composition-graph/src/contributions.ts`, `capability-composition/src/contributions.ts`, `contributions/src/index.ts`

- `ContributionPlan`: the versioned catalog, its validation, the projection to a
  plan, and the runtime's notion of a consistent plan.
- `ContributionRuntime`: `createContributionRuntime`, module by module, factory by
  factory, item by item.
  What modules submitted stays where it is, with a counter for the contribution and one
  for the item under way, as the two loops of the code have them. Sorting is any order
  of the entries in which none is before the one it follows: entries between which the
  comparison does not tell are equal.
- `ContributionContract`: what it promises in terms of what it is given.

### Runtime configuration: `runtime-config/src`, `runtime-config-node/src/index.ts`, `nuxt/src/module.ts`

- `RuntimeConfig`: joint keys, the projection of fragments, the merge with the
  host's own configuration, views of a scope and single values, as operators.
- `ConfigStartup`: `applyRuntimeConfigModule`, from listing the sources to the
  started or refused host, one file and one extension per step, with other
  processes writing fragments meanwhile and the host's validated reads afterwards.

### Hosts: `react/src`, `nuxt/src`, `descriptor-selection/src/seed.ts`

- `SelectionSeed`: which option, argument or environment variable a run takes its
  specifications from, how a text is cut into them, what each requires of the
  versions that are there.
- `HostWorkspace`: the disk as a host's pattern sees it; discovery with nested and
  virtual descriptors and bundle manifests; `selectDescriptorsWithProviders` over
  `SelectionRequests!OutcomeOf`; the summary report; the contribution entries; the disk as a
  variable and the edits made to it. `Disks` are the workspaces to start with, `Edited` what
  an edit makes of one, and `Workspaces` a set that holds both.
- `ReactRuntimeConfig`: `createReactRuntimeConfig`: the environment, the sources, the
  fragments laid over each other, validation, namespaces.
- `ReactHost`: `lorionReact` and `capabilityLoader`. Evaluating the configuration is one
  step (`ReactConfigure`, or `ReactSeal` over a sealed run); a build is three, since
  `configResolved` assigns the plug-in's closure between calls that may throw:
  `ReactResolve`, `ReactContribute`, `ReactEmit`. The `load` handler is read as operators
  (`CapabilityModule`, `ConfigModule`, `ServerConfigModule`).
- `NuxtHost`: `nuxt.config` with a bootstrap (`NuxtStart`), then the module's setup:
  bootstrap and contributions (`NuxtCompose`), layers, report and public configuration
  (`NuxtMount`), `applyRuntimeConfigModule` (`NuxtApplyConfig`), whose inner steps are
  those of `ConfigStartup`.
- `Hosts`: both over one disk, and what they have in common.

The `MC...` modules give TLC its instances. An operator whose comment begins
"Mutated form of" is a plausible bug; the runs are repeated with it in place of
the operator it follows, and each property is known to fail on one of them.

## What each run checks

| Run | Question | Instance and why it is enough |
| --- | --- | --- |
| `composition_closure` | Do the worklist and the member loop compute exactly the least closed set, refuse exactly for unknown ids, and end? | three ids and an unknown one: up to three edges of two relations without groups, and up to three memberships with one edge: cycles, self-loops, an id on the stack twice, nested and mutual groups, members not admitted or unknown all occur |
| `graph_queries` | Is every path one of the relations, shortest, first of its length, and none missing? Does walking backwards agree with walking forwards? | four ids; for paths up to four edges of two relations, with ties between paths and edges of a relation not asked for; for dependents up to four edges of the relation and two of another, both modes |
| `descriptor_selection` | Does the alternation of closing and choosing end, justify itself, activate no loser, refuse for its cap only where providers bear on each other in a cycle; do the origins a run reports fit what was chosen? | one capability, two providers, one plain descriptor, up to three dependencies; with groupings, with a provider of two capabilities, disabled descriptors and invalid metadata; with virtual descriptors, one in the other too; and with a capability that provides for another, chained or crossed. A provider cycle needs three links, an oscillation two |
| `requirement_sources` | A sentence of the README, see Findings | the plain settings of the run above |
| `version_search` | Is the answer the first in preference order, and a refusal only where nothing composes? | four ids with up to three versions, one of them a prerelease: families of catalogs in which the versions of an id differ in their ranges, in being a provider or a default, in what they group |
| `composition_runs` | Does a sealed run hold one snapshot whatever is edited between the reads? | two roots, three directories, one edit at any moment (`MaxEdits = 1`), two runs that may share a cache (`MaxRuns = 2`): one edit is what tells two readings apart, two runs are what a cache needs |
| `padded_ids` | A comment of the code, see Findings | the same with a document whose id is padded |
| `contributions` | Does the order of modules and of checks show; are modules that do what they declare ever refused? | three capabilities, one of them in two releases, two points, every combination of sound and faulty modules in four orders |
| `surface_composition` | Do failed, retried and overlapping calls of `compose` leave the registries as one undisturbed call would? | three capabilities, two surfaces, three calls (`MaxCalls = 3`: one fails, one retries, one runs beside them); colliding item ids, a missing export, a missing file, an escaping target |
| `runtime_config` | Does a host that starts hold what it validated; does a scope read back as its fragment; do queries of the tree agree with the host? | three scopes, one of which the letters of another begin with, two sources with a file of one scope; every validation mode, files and schemas absent, broken or invalid, files of one section, of a list, of `null`, with keys nobody reads, schemas with and without a type, closed ones, ones that require a key of an optional section, a context, keys of the host's own in both private layouts, and up to two writes at any moment of the start |
| `hosts` | Does each host serve one composition, emit what it validated, mount what it tells; do two hosts compose alike; is a flag heard? | see below |
| `joint_keys` | A sentence of the README, see Findings | two scopes whose keys meet |

The instance of `hosts` is a shop that depends on a store and groups its extras in a
nested descriptor; the store has two providers, one of them its default; two bundle
manifests lie above each other. Four directories make seven ids with the nested and
the virtual ones, which is what a capability with a choice, a grouping inside a
package and a grouping of groupings need. Twenty-three workspaces to start from: three
sound ones, two without packages, eighteen with one oddity each (a file that does not
parse, a descriptor without an id, an id twice, a package without a name, two
defaults, a scope that writes where the application is told, a capability called
`public` with private keys called like others, ...). The sound ones are edited once (`MaxEdits = 1`), at any moment, in
one of twelve ways; a build is made twice (`MaxBuilds = 2`), which shows what the
first leaves in the closure, also when it threw. Fourteen seeds cover every source of a
specification and every refusal; the options of each host are varied one feature at
a time, and both hosts run side by side where they can be asked for the same.

Bounds are constants of the modules (`MaxEdits`, `MaxRuns`, `MaxCalls`, `MaxBuilds`), the
length of `input.writes` in `ConfigStartup`, or the size of the sets an `MC` module
defines. Deadlock is not checked anywhere: every model is of calls that return.

Type invariants are stated in the modules and proved where there are proofs; no run
lists one. The runs are kept for what relates states to each other.

**Fairness.** `composition_closure`, `descriptor_selection` and `version_search`
assume weak fairness of `Next`: the code is synchronous, so once called it runs
until it returns or throws, and no step waits for anybody. No other run has a
liveness property and their specifications assume no fairness; in particular a
`load` or `register` callback may hang for ever, and nobody is obliged to edit the
disk.

## What is proved

TLAPS checks these for every value of the constants.

| Module | Theorem | Says |
| --- | --- | --- |
| `CompositionClosureProofs` | `TypeCorrect`, `WalkIsExact`, `Refinement` | the worklist and the member loop implement the one-step contract |
| `GraphQueriesProofs` | `TypeCorrect`, `ExplanationsHold` | an answer is a path between its ids; an empty answer means there is none |
| | `ExplanationsAreLeast` | a path answered is the least of the shortest |
| | `DependentsTyped`, `DependentsAreExact` | the ids found backwards are those whose forward closure holds the target |
| `DescriptorSelectionProofs` | `TypeCorrect`, `ComposesWithinChoice`, `LosersStayOut`, `OverridesComeFromSeed` | the composition stays within what the choice heard; losers stay out; an overridden dependency lost to the seed |
| | `NothingLost`, `RequiredServed` | what the settled pass held is composed and the slots it requires are served, unless winners activate each other in a cycle or a capability was dropped |
| | `Refinement`, `CapIsEnough` | the passes implement the one-step contract; the cap on passes strikes only where providers bear on each other in a cycle |
| | `StepsEndAlike` | the passes end as the function of the request does that the version search calls |
| | `SlotRowsTrue`, `OriginsCover` | however the seed is split: every composed descriptor has an origin, what is listed as pulled was needed, and a slot row says "named" exactly when the run chose |
| | `BuildsOneComposition`, `EmitsChecked` | whatever is edited between its calls, a React build loads and contributes one composition, and emits what the schemas accepted, but for a capability called `public` and those its private keys are called like |
| | `HearsFlag` | a flag that is given a value decides what is selected |
| | `MountsAsTold` | a Nuxt application is told of the layers that are mounted, and each is mounted once |
| | `HostsCompose` | two hosts asked alike over one workspace tell, contribute and print the same |
| `VersionSearchProofs` | `SearchInductive`, `AnswersAreFirst`, `SearchSkipsNothing` | the search answers with the first compatible assignment of all, and fails only if there is none: ids without a choice, pruning and the fast path never show |
| `ContributionProofs` | `TypeCorrect`, `PlansTaken`, `ChecksFirst`, `Outcome`, `FaithfulArrive` | the runtime takes the plans that are projected; it refuses exactly what is defective and else publishes every item once, sorted; modules that do what they declare arrive |
| `CompositionRunsProofs` | `TypeCorrect`, `UnambiguousSnapshots`, `SealedAgreement`, `WholeWorkspaceRuns` | wherever edits fall between the reads: snapshots name nothing twice, sealed runs agree with their snapshot, workspace runs hold its very documents |
| | `SurfacesTypeCorrect`, `ReturnsWhole`, `LeavesNoGaps` | calls of `compose` that fail, overlap or are made again: one that returned leaves the registry as a single call would, and no call leaves a gap |
| | `AgreesWithTheBuild`, `KeepsPlaces` | a call that returned activated what the build lists; no item is withdrawn or moved |
| `ConfigStartupProofs` | `ChecksWhatItHolds` | a host that starts undisturbed holds, for every extension that must be valid, a fragment its schema accepts as the file has it, unless the scope's last file is falsy JSON, which the schema then accepts |
| | `ViewsAreOwn` | a scope reads back what its own fragment says: a context's values over the common ones, and those over what the host configured |
| | `TreeAnswersAlike` | a query of one fragment answers what a started host resolves from all of them |
| | `ValidOnUse` | a fragment that was valid at startup is not refused on use, but for the five reasons the property lists |

`Reachability` holds the lemmas about least closed sets, and two about sets of numbers: that
there is a least one, and that what starts at 0 and goes on reaches every place.

Assumptions are the named `ASSUME`s of the modules: ids are names, names are
finite where a cap counts them, requests are requests, no directory belongs to two
checkouts, configuration files stand in a row, edges are totally ordered (`sortEdges`
compares all three of their fields), and the extensions a host validates are among those
it resolved, if it resolved any (`nuxt/src/module.ts:434-447` takes them from there),
each under a scope of its own: scopes are the ids of resolved descriptors, of which a
composition has one version each. Names, of scopes as of keys, are not empty (fragments
without a scope id are filtered out; a JSON key `""` is outside the model), a
configuration file belongs to a known scope, and fragments have contexts among
`Contexts`, of any number; a section that is not there has no keys. Falsy JSON is JSON, and
"nothing else" is among the things a React host's file may hold besides (`Extras`);
`public` does not sort after itself (`Later`). Of the workspaces, an edit of one is one, directories and the
documents in a file are finite, the sources of configuration form a row, and what such a
source holds for a scope is nothing, unreadable or a fragment; the options of a Nuxt
application name finitely many virtual descriptors and a row of layers. Versions are finitely many numbers, and the order of the ids holds each once. TLC
evaluates each of them in the runs.

The arguments:

- *Walks* (`CompositionClosure`, `GraphQueries`, `Dependents`). A finished walk
  is exact only because of what it still has to do before it is finished, so
  "visited equals reachable" is not inductive. The invariant adds that what is
  visited or waiting is reachable, and *nothing forgotten*: an edge that leaves
  the visited ids starts at an id that waits, or is itself still ahead in the
  loop under way. When nothing waits, the visited ids are closed under the edges
  and `ReachLeast` gives the other inclusion. For `Dependents`, where the walk goes
  against the edges, the complement of the visited ids is what is closed.
- *Paths* additionally carry that every queued path leads to its node (`LeadsOn`).
- *Least paths.* The entries of the queue are sorted: by the length of their paths, and
  then by the first edge that differs (`QueueOrdered`); this is kept since every entry goes
  on from the current path or an earlier one, by an edge that was passed (`Begotten`).
  A walk to an id not visited leaves the visited ids at some edge (`FirstCrossing`), and
  by *nothing forgotten* that edge is ahead or its start waits; either way the walk is no
  sooner than the path that goes on by the next edge (`NextLeast`). So each id is reached
  first by its least path, and the entry that carries it says so for good.
- *Refinement of the closure contract.* The same invariant gives, at the step that
  ends the member loop, that the visited ids are `Wanted(request)`; all other
  steps stutter. Only the safety part is proved.
- *Selection.* Once the loop has settled, the last pass satisfies two equations:
  its ids are the closure over its winners, and its winners are the resolution of
  what those ids ask. `CompositionWithinChoice` follows since the final closure
  walks edges the settled closure already accounts for; `ActiveProvidersWon` since
  every edge into a provider in the final closure ends at a winner;
  `OverriddenOnlyBySeed` since a tier below the one that decides never decides.
- *Nothing lost.* The composition may lack what the settled pass held: a winner whose
  every activation comes from other winners of the pass. Of the winners that are lost,
  take one that no other lost winner reaches: if there is none, lost winners activate
  each other in a cycle; if there is one, what asks for it is composed,
  and so is it, unless it was asked for by a capability that itself lost as a provider
  (`CapabilityDropped`). Proving this showed that the property needs the second
  exception, which the smaller instances had not met.
- *Refinement of the selection contract.* All steps but the ones that return stutter.
  A step that answers does so after two equal choices, and the equations above say that
  the choice is coherent. A step that refuses gives its reason: the flaw of a coherent
  answer, the choice a pass could not make, or that the cap was reached, which is one
  only with what the next paragraph shows.
- *The cap.* Suppose no choice bears on itself. A provider that makes a difference between
  two choices has, in the choices before them, a provider that made one and bears on it
  (`DifferenceBears`), and then more choices bear on it than on that one (`BearersGrow`). So
  what the n-th pass still changes has at least n choices bearing on it (`Deep`, kept in
  `Traced`), and there are no more than descriptors. Proving this showed that
  a descriptor which depends on a capability directly bears on its slot too, which the
  contract had left out.
- *The outcome as a function.* The version search is modelled with `OutcomeOf`, not with
  the steps of `DescriptorSelection`. `Following` says that after each pass the loop is where the
  turn of that number leaves it, and that a turn that settles or cannot choose is the last
  (`NotOpenIsLast`); so `EndsAsOutcome` holds, and what is proved of the search with
  `OutcomeOf` is a statement about the passes.
- *Origins.* A descriptor a run names is a root, and a provider the run chose is one of the
  explicit requests of its slot, so that slot was decided in the explicit tier
  (`ChosenExplicit`, `ExplicitDecides`). A descriptor that is neither named nor brought by
  a grouping is reached otherwise, and the last edge of that walk (`ReachLast`) starts at a
  composed package that needs it. For a virtual descriptor, which depends on its members,
  this goes through: what it holds is a root or an explicit winner.
- *Hosts.* The theorems about the hosts stand in the second part of
  `DescriptorSelectionProofs`, whose lemmas about selection they use. Between two steps of a
  host the disk may change, so the invariant (`HostsInv`) says of everything a host holds of
  which workspace it is the function: the one seen when the configuration was evaluated
  (`before`), when the build composed (`seen`) or when its configuration was made (`read`);
  and, while nobody has edited (`edits = 0`), that these are the disk. What is emitted,
  mounted or told is then a matter of functions of one workspace.
  - *One composition.* Where a composition is held, each build takes it over (`ReactHeld`);
    the parts a failed build left behind are replaced by the next (`ReactBuilds`).
  - *Emitted and checked.* What is resolved has one entry for an id, since a duplicate is
    refused before (`ResolveIs`), so the scope read from the emitted configuration is the
    fragment that entry's schema was asked about (`ScopesRead`), if the private values of a
    scope called `public` do not meet it (`NamespacesAre`).
  - *Mounted as told.* `LayerPaths` and `WithFileOnly` put each extension's directory in a
    row once, from a set in any order (`SetToSeq`); that there are such rows needs what is
    discovered to be finite (`NuxtEntriesFacts`). No two extensions have one directory, but
    for groupings, which mount nothing. So what stands twice stood twice in `nuxt.config`
    (`RowsMounted`), and the module's layers are none of those Nuxt had (`LayersMounted`).
    The order of the extensions among each other is left open.
  - *Agreement.* The catalogs the hosts select from differ in what an entry is, and in the
    descriptors that nest others; they are *alike*: the same ids with the same directory and
    document (`ItemsAlike`). Selection reads no more of an entry than that, so both ask the
    same (`AlikeAsked`) and are answered alike (`ResolveAlike`), and a sealed run, which asks
    through its package snapshot, selects the same (`RunSelectionItems`). Where a
    Nuxt application finds no entries and its seed names no version selector it does not ask
    at all, and what the React build is answered then is empty as well (`EmptyResolution`). From a composition and a bootstrap
    that match, what is told, contributed and printed follows (`HostsMatch`).
  What others may write where the application is told is excluded by premises: the host's own
  keys (`KeysKept`), and scopes of the runtime configuration, which are laid over what the
  module told (`nuxt/src/module.ts:685`, `ScopesWrite`): a scope whose joint key is
  `extensionSelection` takes its place, and nothing in the code or its documents says what
  the application should read then. Proving `MountedAsTold` brought up one more: where nothing
  was discovered the module tells no ids, and a key that `nuxt.config` itself wrote stays
  what it was.
- *Version search.* Four facts carry it, none of them about the search itself. (1) An
  outcome shows nothing of ids that cannot take part: selections that differ outside a set
  of ids nothing leads out of, and not in roles, settle alike pass by pass
  (`OutcomeAlike`), and what can take part is such a set for every assignment
  (`AssignmentConfined`); this is where an id whose versions differ in role must count as
  able to take part. (2) So the winning assignment takes the newest version of every id
  without a choice (`WinnerNewest`): taking it instead changes nothing that shows, and comes
  first. (3) What is mandatory on the way to the winner is composed by it, and what a
  composed id keeps is met (`WinnerMeetsMandatory`), so no branch towards the winner is
  pruned; dependencies on providers must be left out, since a choice can drop them. (4)
  Where versions differ in nothing, the newest that match are compatible if anything is,
  and first (`MatchedWins`). The invariant of the search then says where the winner is: on
  the branch, or among what an open frame has left (`Ahead`). A complete assignment that
  is compatible while the winner is still ahead in a frame would come before it
  (`WinnerBeforeBranch`).
- *Contributions.* The runtime works on copies in an order of its own, so the invariant
  attributes them: `w` names, for each submitted contribution, its place in the modules
  handed over (`Attributed`), one to one and complete for the factories that ran. With it
  the items checked so far are a set of items handed over (`Done`), as many as there are
  entries, each item sound and no two of them in conflict (`Inspecting`). An item that is
  refused is then not one of them, which is why what it lacks or conflicts with is a
  defect of the whole (`Refused`); and when the contributions are at their end, `Done` is all
  items, and no defect is left (`Published`). Sorting is not defined by recursion but as
  the choice of an order, and that there is one is proved for every finite set
  (`LineExists`), from the well-foundedness of finite subsets. `FaithfulArrive` needs in
  addition that the plan of a sound catalog has an edge for every declaration.
- *Runs.* The disk is free to change at every step, so no part of the invariant may
  speak of it: all parts relate what the run has read to what it has still to read.
  While a checkout is read, no directory waits twice and none that waits has given a
  source (`Reading`), the sources so far come from the checkouts before
  (`Collecting`), and no descriptor file gives two candidates (`Discovering`). The last is
  what makes two selected entries with one package the same entry: both match the
  one source that carries the name, so both lie in its directory.
- *Surface composition.* What a call writes lies between an `await` and the next, so nothing
  holds of one call alone. The invariant (`SurfaceInv`) says of a surface three things. Its
  ids are, place by place, those its first modules bring, as many modules as any call on it
  has given it (`IdsKept`); giving a module's items either adds the next module or, when the
  registry is ahead of the call, moves nothing (`GivingKeeps`). Its items are ones its modules bring
  (`ItemsKept`), which settles the values where no two modules share an id. And where no
  calls overlapped, only the last call on it may be under way, and every item that call has
  given is there with its value (`ValuesKept`): that settles them where modules do share
  ids, since two registries that are given the same item keep what they have in common
  (`PutPaired`). The registries themselves are functions by recursion; the proofs first
  show that there is one for every number of items or modules (`PutAllStages`,
  `RegisteredStages`, `ModulesStages`) and then go through it (`PlaceByPlace`).
- *Start of a host.* Files are read in the order of their places. Of what was read so far,
  the last readable file of a scope is what is held (`ReadSoFar`); the file validation
  takes is the last one listed, readable or not (`LatestPlace`). So if that one can be
  validated, and is not falsy, it could be read, and it is the one that is held
  (`LocatedIsHeld`). Every
  extension that must be valid is still to be looked at, to be validated, going to be
  refused, or valid (`Accounted`). All this is carried while nobody has written since the
  files were listed; a write gives it up for good.
- *Views of runtime configuration.* Objects are not built by recursion: a key stands where
  it was first assigned and has the value assigned last (`ObjectHolds`), and the assignments
  of a projection stand in the order of scopes (`AssignmentsHold`). A joint key no other
  scope has is then decided by its own scope's section (`JoinedOwn`), and it begins with
  the scope and reads back in camel case (`JointReadsBack`); two keys of one scope meet
  only if they do in camel case (`JointsMeet`). In the merged object the host's keys come
  first, with the values the fragments give them, and so the view is the layers over each
  other (`MergedOrder`, `LayeredView`). The invariant (`DataInv`) only has to tie what is
  passed on and what is answered to the fragments held and the files as they are.
  Proving this showed two exceptions that the properties had not named: two keys
  of the host that read alike (`mailEr` and `mailer`, both `er` in the view of `mail`,
  which takes the later, `HostClear`), and a schema that asks for a key which is not in
  camel case: a view has it in camel case, so what was valid at startup
  is refused on use. The instances `HostAlike` and `Loud` of the run meet both.

## What is only model-checked

- Liveness (`Terminates`): out of the prover's reach, as is `ENABLED`.
- `RequirementsFromComposition`, `WorkspaceRunsMatch` and `KeysCoexist`, which are false (see
  Findings).

Every other property of a run is stated by a theorem.

What the proofs found to be false and is therefore not claimed: that the cap on passes
(one more than there are descriptors) never cuts off a choice that would have settled. Where
providers bear on each other in cycles it can. With 47 descriptors, three cycles of 3, 4 and 5
slots whose winners rotate, and a slot that stops them when the three coincide, the code
refuses at pass 49 as not converging; without the cap pass 68 would have settled.
`CapCutsNothingShort` says what does hold: without such a cycle the cap is never reached.

## Findings

1. `requirement_sources`: `descriptor-selection/README.md:78-79` says that
   dependencies of descriptors outside the resolved set create no requirements.
   Requirements are taken from the last pass, and the final closure may drop what
   that pass held: with two providers that depend on each other a slot is reported
   required, by a dependency, though nothing composed requires it.
2. `padded_ids`: ids are said to be trimmed everywhere; the package snapshot keeps
   them as written. A run that reads each document once then refuses a workspace
   for contradicting itself.
3. `joint_keys`: `runtime-config/README.md:77-78` promises that scopes coexist without
   key collisions. Key `adminUrl` of scope `mail` and key `url` of scope `mail-admin`
   are one joint key; the scope that sorts last is read by both.

Three exceptions which the properties had to name are worth knowing beside these:

- Private sections are kept by scope on the object whose key `public` holds the public ones
  (`runtime-config/src/project.ts:199-204`, `react/src/vite.ts:419`), and nothing refuses the
  id `public`. The private values of a capability called that are emitted among the public
  scopes, one key each, and replace or mix with the sections of scopes of these names,
  although `react/README.md:448` says that only public configuration is emitted to the
  client. `EmittedChecked` excepts that scope and those of these names (`Spilt`,
  `Namespaces`); the workspace `Open` of the run `hosts` meets both.
- Loading passes over a file of falsy JSON (`null`, `false`, `0`, `""`;
  `runtime-config-node/src/index.ts:561`), validation asks the schema about it (line 713). A
  schema without a `type` may accept it, and the host then starts on the fragment of an
  earlier file of the scope, which no schema saw (`StartedMeansChecked`).
- Startup validates the file as it stands, use a fragment put together again, with both
  sections and without contexts or other keys (`runtime-config/src/scope.ts:125-128`). A file
  without `private` may pass a schema that allows no additional properties, or that requires
  a key inside an optional `private`, and be refused on use (`ValidStaysValid`,
  `TellsRebuilt`).

## How the models abstract

- Ids, versions, points and items are model values or small numbers; where the
  code sorts, numbers stand in code-unit order. Error texts are left out, kinds of
  errors kept where a property tells them apart.
- `DescriptorSelection` has one version per id and every range satisfied; ranges
  belong to `VersionSearch`. Selected and base roots are merged: selection treats
  them alike. The default policy and the default relations are used. Descriptors do not carry the
  provider preferences of earlier releases, on which the code throws
  (`descriptor-selection/src/index.ts:181-192`). The worklist
  of groupings is a set: opening them commutes. Closures are one step there, which
  `CompositionClosure` justifies. Duplicate entries of arrays are not modelled.
- A provider of several capabilities that wins one and loses another takes part,
  as in the code (`Losers`). In `CompositionOrigins` a virtual descriptor that holds
  nothing is not told from a package, and the row of the base is not compared with
  the rows of what the run names or a grouping brings: they may share ids.
- In `VersionSearch` a range is a set of versions and version 2 a prerelease; named
  selectors are ranges. The conflict a refusal reports is left out.
- In `CompositionRuns` a directory listing is one step, files are read one by one.
  What descriptor selection answers there is any set with one version per id. A
  document read again is compared in id, version and directory only, as in the
  code, so its other content may differ. Roots are disjoint; the files a pattern
  matches are read in any one order; nested and virtual descriptors are omitted.
- In `ContributionRuntime` one malformed item stands for the shapes of single
  fields. `FaithfulModulesArrive` asks that the composition meet the contributors'
  ranges: otherwise an edge to a selected owner's other version is neither active
  nor inactive and the module that fills it is refused.
- In `SurfaceComposition` a package's export leads inside, outside, to a missing
  file or nowhere. The host registers through the hub or through a registry it
  holds, at any moment between `register`'s call and its settling.
- In `RuntimeConfig` a name is a sequence of pieces, each a text with the form it is
  written in; no text begins with another, so that comparing pieces is comparing
  letters. A view has a key as camel case leaves it (`baseURL` reads back as `baseurl`),
  which `ViewsReadBack` and `ValidStaysValid` allow for. Objects keep the
  order of their keys. The host has no contexts of its own,
  and no scope is called `public` (or `private`, where private values have a section
  of their own). This is about the object a Nuxt host keeps; the React host has the id
  `public` (`Namespaces`).
- In `SelectionSeed` a word is an id with its range, a part the words between two commas.
  A specification is a part that is one as a whole, or each of its words.
- In the host modules one step reads what one synchronous call reads; edits fall
  between calls (the interleavings inside discovery are those of `CompositionRuns`). No two
  descriptors of an instance differ in their version only: choosing among versions is
  `VersionSearch`. Two packages have two names. A host's run is over a package snapshot
  taken when it is sealed. A package's `./contributions` leads to a file or to none. A
  schema lists its keys and what it accepts; a value is a text, a number or an object,
  of which a constant says what spreading it yields. A file holds a fragment, with its
  contexts and whatever else its schema may see, or counts as none: no JSON, or falsy.
  Truthy JSON that is no object is a fragment without values, and a schema that is falsy
  none. Sections that are texts or lists, which a merge would spread, are left out. What
  validation finds in a Nuxt source is given (`invalid`): `ConfigStartup` is about that.
  The Nuxt module always has a default selection to fall back on (`extensions.ts:79-80`,
  `305`); the model also has it without.
- In `ConfigStartup` a listing is one step, files are read one by one; a schema is what
  it accepts (`Accepts`), of documents with the sections they have, contexts and whatever
  else is in them, and of falsy JSON; every schema that parses compiles. Truthy JSON that
  is no object (`[]`, `5`) is a fragment without sections, which the schema tells from
  others. A section that is no object is the entries it has. A write empties its file and fills it later or never. Nobody
  removes files. The files still to read are places in the row of all files; the least
  is next. `StartedMeansChecked` and `QueriesAgree` speak of starts without a
  write in between: with one, a host can start on a configuration it did not validate,
  which nothing in the code or its documents excludes. The defaults the module adds
  under a key of its own are left out, as views skip them.

## What is not modelled

The characters of seeds, selectors and ids; the text of reports; glob patterns and
JSON-schema content; the export of a fragment as environment variables (`env.ts`), custom
key strategies of runtime configuration; the tree's list, show and environment commands;
the text of generated modules, and with it variable names: two ids that differ in
punctuation only are imported under one name. What bundlers and Nuxt do with what they
are handed: a host that itself extends the configuration layer of an extension relies on
Nuxt to load it once. Repository scripts and example applications. `PROJECT.json` lists
every part with its reason.

## Plan

Done, in this order: closure, provider selection, descriptor selection, version
search, composition runs, contributions, surface composition, paths, dependents,
runtime configuration with the start of a Nuxt host, origins, seeds and selectors,
nested and virtual descriptors, the React and Nuxt hosts and their composition.

All the safety properties of the passing runs are proved.

Next, most important first:

1. The unversioned contribution relation and the reference checks of
   `composition-graph`; the packages-directory loader.
2. The commands of `runtime-config-node` over the tree, and the way a fragment goes
   out to environment variables and back.
3. A proof that a host's report of origins (`CompositionOrigins`) is the one its
   composition is made from, which needs `CompositionRuns` and the hosts over one disk.
