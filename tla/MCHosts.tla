------------------------------- MODULE MCHosts -------------------------------
(***************************************************************************)
(* A shop that depends on a store and groups its extras; the store is a    *)
(* capability with two providers.  Base is the workspace as it should be;  *)
(* the others differ from it by one edit or by what an edit does not do.   *)
(* An edit is what somebody does to a file while a server is running.      *)
(***************************************************************************)
EXTENDS Hosts, TLC

MCDirs == {"shop", "store", "mem", "sql"}
MCIds == {"shop", "store", "mem", "sql", "extras", "suite", "both", "public"}
MCNames == MCIds \cup {"gone"}
MCRanges == {<<"*">>, <<"1">>, <<"2">>, <<">=1", "<3">>}
MCInRange(version, range) ==
    CASE range = <<"1">> -> version = "1" [] range = <<"2">> -> version = "2" [] OTHER -> TRUE

-----------------------------------------------------------------------------
MCWords == "shop" :> <<"SHOP">> @@ "mem" :> <<"MEM">> @@ "sql" :> <<"SQL">> @@ "store" :> <<"STORE">>
           @@ "extras" :> <<"EXTRAS">> @@ "suite" :> <<"SUITE">> @@ "both" :> <<"BOTH">> @@ "public" :> <<"PUBLIC">>
           @@ "port" :> <<"PORT">> @@ "base-url" :> <<"BASE", "URL">> @@ "key" :> <<"KEY">>
           @@ "VITE" :> <<"VITE">> @@ "APP" :> <<"APP">>

\* A schema lists its keys, wants those of needs, and a port that is a number.
Schema(public, private, needs) == [public |-> public, private |-> private, needs |-> needs]
MCAccepts(schema, fragment) ==
    /\ fragment.extra = Nothing
    /\ \A v \in Visibilities : DOMAIN fragment[v] \subseteq schema[v]
    /\ schema.needs \subseteq DOMAIN fragment.public \cup DOMAIN fragment.private
    /\ "port" \in DOMAIN fragment.public => fragment.public["port"] = "number"

MCExtras == {Nothing, "contexts"}
MCLater == {"shop", "sql", "store", "suite"}

\* A text spreads into its characters.
MCSpread(value) == IF value = "object" THEN "host" :> "text" ELSE IF value = "text" THEN "0" :> "t" ELSE NoValues
MCIsSection(value) == value = "object"

Fragment(public, private) == [public |-> public, private |-> private, extra |-> Nothing]
Port(value) == Fragment("port" :> value, NoValues)
Urls == Fragment("base-url" :> "text", "key" :> "text")

-----------------------------------------------------------------------------
Doc(id, dependencies, for, default) ==
    [id |-> id, version |-> "1", disabled |-> FALSE, valid |-> TRUE, dependencies |-> dependencies,
     providesFor |-> for, defaultFor |-> default, nested |-> {}, policy |-> Nothing, public |-> NoKeys]

Package(name) == [name |-> name, capability |-> TRUE, contributions |-> "none"]
Contributing(name) == [Package(name) EXCEPT !.contributions = "there"]

Place(doc, package) ==
    [document |-> doc, manifest |-> package, marker |-> FALSE, routes |-> FALSE,
     config |-> FALSE, parts |-> FALSE, schema |-> Nothing]

Object(held) == [kind |-> "object", held |-> held]
Scalar(text) == [kind |-> "scalar", text |-> text]

Shop ==
    [Place([Doc("shop", {"store"}, {}, {}) EXCEPT
                !.nested = {Doc("extras", {"sql"}, {}, {})}, !.policy = "startup",
                !.public = "theme" :> Object("dark" :> Scalar("yes"))],
           Contributing("@acme/shop"))
     EXCEPT !.marker = TRUE, !.routes = TRUE, !.config = TRUE, !.parts = TRUE,
            !.schema = Schema({"port", "base-url"}, {"key"}, {"port"})]

Store == Place(Doc(Nothing, {}, {}, {}), Package("@acme/store"))

Mem ==
    [Place([Doc("mem", {}, {"store"}, {"store"}) EXCEPT !.policy = "optional",
                !.public = "theme" :> Object("dark" :> Scalar("no") @@ "size" :> Scalar("small"))],
           Contributing("@acme/mem"))
     EXCEPT !.parts = TRUE, !.routes = TRUE, !.schema = Schema({"port"}, {}, {})]

Sql == [Place(Doc("sql", {}, {"store"}, {}), Package("@acme/sql")) EXCEPT !.config = TRUE, !.marker = TRUE]

Base ==
    [dirs |-> "shop" :> Shop @@ "store" :> Store @@ "mem" :> Mem @@ "sql" :> Sql,
     manifests |-> <<Nothing, {Doc("suite", {"shop", "mem"}, {}, {})}, {Doc("both", {"mem", "sql"}, {}, {})}>>,
     present |-> TRUE,
     environment |-> [files |-> <<"VITE", "SHOP", "BASE", "URL">> :> "text" @@ <<"VITE", "MEM", "PORT">> :> "number",
                      process |-> NoValues, bundler |-> <<"VITE", "SHOP", "BASE", "URL">> :> "later text"],
     configs |-> <<[dir |-> ".data", files |-> "shop" :> Port("number")],
                   [dir |-> "over", files |-> "mem" :> Port("number") @@ "sql" :> Urls]>>,
     scopes |-> "shop" :> ("shopPort" :> Scalar("number")) @@ "sql" :> ("sqlUrl" :> Scalar("text")),
     invalid |-> {}, defaultSource |-> TRUE, publicFiles |-> TRUE]

Empty == [Base EXCEPT !.dirs = [d \in MCDirs |-> Nothing], !.manifests = <<>>, !.present = FALSE]

\* Workspaces that are edited.
Sound ==
    {Base, [Base EXCEPT !.dirs["shop"].document.dependencies = {"store", "mem"}],
           [Base EXCEPT !.dirs["shop"].config = FALSE, !.defaultSource = FALSE]}

\* What an edit does.
EditsOfPlaces(ws) ==
    {[ws EXCEPT !.dirs["sql"] = Nothing],
     [ws EXCEPT !.dirs["sql"].document.disabled = TRUE],
     [ws EXCEPT !.dirs["mem"].manifest = [Contributing("@acme/cache") EXCEPT !.contributions = "gone"]],
     [ws EXCEPT !.dirs["mem"].manifest.name = "@acme/cache"],
     [ws EXCEPT !.dirs["shop"].document.dependencies = {"store", "sql"}],
     [ws EXCEPT !.dirs["shop"].document.version = "2"],
     [ws EXCEPT !.dirs["mem"].schema = Broken],
     [ws EXCEPT !.dirs["sql"].config = FALSE, !.dirs["sql"].parts = TRUE, !.dirs["sql"].routes = TRUE]}

EditsOfConfig(ws) ==
    {[ws EXCEPT !.configs = Append(@, [dir |-> ".data", files |-> "shop" :> Port("text")])],
     [ws EXCEPT !.environment.process = <<"VITE", "SHOP", "PORT">> :> "text"],
     [ws EXCEPT !.manifests[1] = {Doc("suite", {"shop", "sql"}, {}, {})}],
     [ws EXCEPT !.invalid = {"shop"}]}

MCEdited(ws) == IF ws \in Sound THEN EditsOfPlaces(ws) \cup EditsOfConfig(ws) ELSE {}

\* A capability called public, whose private keys are called like other capabilities.
Open ==
    [Base EXCEPT !.dirs["sql"].document = [Doc("public", {}, {}, {}) EXCEPT !.policy = "optional"],
                 !.dirs["sql"].schema = Schema({"port"}, {"shop", "mem", "key"}, {"key"}),
                 !.dirs["shop"].document.nested = {Doc("extras", {"public"}, {}, {})},
                 !.manifests = <<{Doc("suite", {"shop", "mem"}, {}, {})}>>,
                 !.configs[1].files = @ @@ "public" :> Fragment("port" :> "number",
                                            "shop" :> "text" @@ "mem" :> "object" @@ "key" :> "text")]

\* Workspaces somebody starts with.
Odd ==
    {Open,
     [Base EXCEPT !.dirs["sql"] = Nothing, !.manifests = <<>>],
     [Base EXCEPT !.dirs["shop"].document = Broken],
     [Base EXCEPT !.dirs["shop"].document.nested = Broken],
     [Base EXCEPT !.dirs["shop"].document.nested = {Doc(Nothing, {"sql"}, {}, {})}],
     [Base EXCEPT !.dirs["mem"].document.valid = FALSE],
     [Base EXCEPT !.dirs["mem"].manifest = Broken],
     [Base EXCEPT !.dirs["mem"].manifest = Nothing],
     [Base EXCEPT !.dirs["mem"].manifest.capability = FALSE],
     [Base EXCEPT !.dirs["mem"].manifest.contributions = "gone"],
     [Base EXCEPT !.dirs["mem"].document.id = "sql"],
     [Base EXCEPT !.dirs["sql"].document.providesFor = {"gone"}],
     [Base EXCEPT !.dirs["sql"].document.defaultFor = {"store"}],
     [Base EXCEPT !.manifests[2] = Broken],
     [Base EXCEPT !.configs = <<>>, !.environment.files = NoValues],
     [Base EXCEPT !.configs[1].files = "shop" :> Broken @@ "mem" :> [Port("number") EXCEPT !.extra = "contexts"]],
     [Base EXCEPT !.scopes["sql"] = "extensionSelection" :> Scalar("mine")],
     [Base EXCEPT !.publicFiles = FALSE, !.dirs["mem"].document.policy = "none", !.dirs["mem"].schema = Broken]}

MCDisks == {Empty, [Empty EXCEPT !.present = TRUE]} \cup Sound \cup Odd
MCWorkspaces == MCDisks \cup UNION {MCEdited(ws) : ws \in Sound}

-----------------------------------------------------------------------------
Plainly == [selected |-> Nothing, defaultSelection |-> Nothing, baseDescriptors |-> Nothing,
            selectionSeed |-> FALSE, key |-> "capability", cliKeys |-> Nothing, envKeys |-> Nothing,
            argv |-> <<>>, env |-> NoKeys, selectors |-> NoKeys]

Spec1(id) == <<Word(id)>>
Argument(head, after, text) == [head |-> head, after |-> after, text |-> text]
Text(id) == <<<<Word(id)>>>>

\* capability shop --capability sql,suite
Positional == <<Argument(Bare("capability"), Nothing, Text("capability")),
                Argument(Bare("shop"), Nothing, Text("shop")),
                Argument(Flag("capability"), Nothing, <<>>),
                Argument(Bare("sql,suite"), Nothing, <<<<Word("sql")>>, <<Word("suite")>>>>)>>

Shopping == [Plainly EXCEPT !.selected = <<Spec1("shop")>>]
Grouped == [Plainly EXCEPT !.selected = <<Spec1("extras")>>, !.baseDescriptors = <<Spec1("shop")>>]
Seeds ==
    {Plainly, Shopping, Grouped,
     [Plainly EXCEPT !.selected = <<Spec1("suite")>>],
     [Plainly EXCEPT !.defaultSelection = <<Spec1("both")>>],
     [Plainly EXCEPT !.selected = <<<<WordAt("shop", "1")>>>>, !.defaultSelection = <<Spec1("gone")>>],
     [Plainly EXCEPT !.selected = <<<<>>>>],
     [Plainly EXCEPT !.selected = <<Spec1("gone")>>],
     [Plainly EXCEPT !.selectionSeed = TRUE, !.cliKeys = <<Bare("capability")>>, !.argv = Positional],
     [Plainly EXCEPT !.selectionSeed = TRUE, !.argv = Positional, !.env = "LORION" :> Text("mem")],
     [Plainly EXCEPT !.selectionSeed = TRUE,
                     !.argv = <<Argument(Flag("capability"), <<<<>>, <<Word("shop")>>>>, <<>>)>>,
                     !.env = "LORION" :> Text("mem")],
     [Plainly EXCEPT !.selectionSeed = TRUE, !.envKeys = <<"CAPS">>,
                     !.env = "CAPS" :> <<<<WordAt("shop", ">=1"), Word("<3")>>, <<Word("store"), Word("extras")>>>>],
     [Plainly EXCEPT !.selected = <<<<WordAt("shop", "stable")>>>>, !.selectors = "stable" :> {"1"}],
     [Plainly EXCEPT !.selected = <<Spec1("shop")>>, !.selectors = "1" :> {"1"}]}

-----------------------------------------------------------------------------
Env == [given |-> Nothing, publicPrefix |-> Nothing, privatePrefix |-> Nothing]
Config == [enabled |-> TRUE, env |-> Env, sources |-> {}, varDir |-> Nothing, validation |-> "optional"]

React(seed) ==
    [nestedField |-> TRUE, schema |-> TRUE, virtualDescriptors |-> {}, bundles |-> TRUE, run |-> FALSE,
     contributions |-> FALSE, descriptorPaths |-> FALSE, activation |-> "default", seed |-> seed, config |-> Config]

Configs ==
    {[Config EXCEPT !.enabled = FALSE],
     [Config EXCEPT !.sources = {".data", "over"}],
     [Config EXCEPT !.sources = Nothing, !.validation = "startup"],
     [Config EXCEPT !.varDir = "over", !.env = Nothing],
     [Config EXCEPT !.env.given = <<"RUNTIME_CONFIG_VAR_DIR">> :> "over" @@ <<"APP", "SHOP", "PORT">> :> "number"
                                      @@ <<"SHOP", "KEY">> :> "text",
                    !.env.publicPrefix = "APP"],
     [Config EXCEPT !.validation = Nothing]}

\* The three ways a React build composes.
Ways(o) == {o, [o EXCEPT !.contributions = TRUE], [o EXCEPT !.contributions = TRUE, !.run = TRUE]}

ReactAsked ==
    {React(seed) : seed \in Seeds}
    \cup UNION {Ways(React(seed)) : seed \in {Shopping, Grouped}}
    \cup {[React(Grouped) EXCEPT !.config = config] : config \in Configs}
    \cup {[React(Grouped) EXCEPT !.activation = "surface", !.descriptorPaths = TRUE],
          [React(Grouped) EXCEPT !.activation = "custom", !.schema = FALSE],
          [React(Grouped) EXCEPT !.activation = "both", !.run = TRUE],
          [React(Shopping) EXCEPT !.nestedField = FALSE, !.bundles = FALSE,
                !.virtualDescriptors = {Doc("both", {"mem", "sql"}, {}, {})}, !.run = TRUE]}

Nuxt(seed) ==
    [nestedField |-> TRUE, schema |-> TRUE, virtualDescriptors |-> {}, bundles |-> TRUE,
     extensions |-> [enabled |-> TRUE, seed |-> seed], shared |-> TRUE, own |-> <<>>,
     host |-> "theme" :> Object("dark" :> Scalar("host")), providers |-> TRUE, contributions |-> FALSE,
     reporter |-> TRUE, scan |-> TRUE, config |-> Nothing]

NuxtConfig == [enabled |-> TRUE, source |-> TRUE, fragments |-> NoKeys, imports |-> Nothing,
               assets |-> TRUE, validation |-> TRUE, contextKey |-> "__contexts"]

NuxtAsked ==
    {Nuxt(seed) : seed \in Seeds}
    \cup {[Nuxt(seed) EXCEPT !.shared = FALSE, !.contributions = TRUE, !.own = own, !.config = NuxtConfig] :
            seed \in {Shopping, Grouped}, own \in {<<>>, <<Physical("mem")>>}}
    \cup {[Nuxt(Grouped) EXCEPT !.contributions = TRUE, !.own = <<Physical("mem")>>],
          [Nuxt(Grouped) EXCEPT !.host = "extensionSelection" :>
                [kind |-> "selection", discovered |-> {"mem"}, resolved |-> {"mem"}, selected |-> {}]],
          [Nuxt(Grouped) EXCEPT !.extensions = Nothing, !.shared = FALSE],
          [Nuxt(Grouped) EXCEPT !.extensions = Nothing, !.shared = FALSE, !.contributions = TRUE],
          [Nuxt(Grouped) EXCEPT !.extensions.enabled = FALSE, !.providers = FALSE, !.reporter = FALSE],
          [Nuxt(Grouped) EXCEPT !.scan = FALSE, !.providers = FALSE,
                !.config = [NuxtConfig EXCEPT !.source = FALSE, !.fragments = "shop" :> ("shopPort" :> Scalar("number"))]],
          [Nuxt(Shopping) EXCEPT !.config = [NuxtConfig EXCEPT !.enabled = FALSE, !.imports = FALSE]]}

\* Seeds on which a grouping, a default or a selector decides.
Together ==
    {Plainly,
     [Plainly EXCEPT !.defaultSelection = <<Spec1("both")>>],
     [Plainly EXCEPT !.selected = <<<<WordAt("shop", "stable")>>>>, !.selectors = "stable" :> {"1"}]}

Alike ==
    {[react |-> r, nuxt |-> [Nuxt(seed) EXCEPT !.contributions = TRUE, !.shared = (seed # Shopping)]] :
        seed \in {Shopping, Grouped}, r \in Ways(React(Shopping)) \cup Ways(React(Grouped))}
    \cup {[react |-> React(seed), nuxt |-> Nuxt(seed)] : seed \in Together}

MCSetups == {[react |-> r, nuxt |-> Nothing] : r \in ReactAsked}
            \cup {[react |-> Nothing, nuxt |-> n] : n \in NuxtAsked}
            \cup {s \in Alike : s.react.seed = s.nuxt.extensions.seed}
=============================================================================
