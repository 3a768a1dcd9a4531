------------------------- MODULE ReactRuntimeConfig -------------------------
(***************************************************************************)
(* The runtime configuration a React build emits (createReactRuntimeConfig *)
(* and projectRuntimeConfigNamespaces): fragments from files, single       *)
(* values from the environment over them, validated per capability.        *)
(*                                                                         *)
(* A fragment has its sections, functions from keys to values, and extra,  *)
(* what else a schema sees of it: contexts, keys nobody reads, a section   *)
(* that is there and empty, one that is no object.  With nothing extra a   *)
(* section is there if it holds something.  A file with a falsy value      *)
(* counts as one that does not parse, a falsy schema as none; sections     *)
(* that are texts or lists, which a merge would spread, are left out.  A   *)
(* schema lists the keys of its sections, and Accepts what it accepts.     *)
(* The options are                                                         *)
(*   enabled                                                               *)
(*   env           Nothing if off; given (Nothing or a whole environment), *)
(*                 publicPrefix (or Nothing), privatePrefix (or Nothing)   *)
(*   sources       Nothing if off, or the directories of the patterns      *)
(*   varDir        Nothing, or the directory with the fragments            *)
(*   validation    Nothing if off, or a policy (default "optional")        *)
(***************************************************************************)
EXTENDS HostWorkspace

CONSTANTS
    Words,           \* the words of a text, as a variable's name has them
    Accepts(_, _),   \* whether a schema accepts a fragment
    Extras,          \* what a fragment may hold besides the values of its sections
    Later,           \* the ids that sort after "public"
    Spread(_),       \* the entries of a value that an object takes over by spreading it
    IsSection(_)      \* whether a value is an object and no list

ASSUME ExtrasAssumption == Nothing \in Extras
ASSUME LaterAssumption == "public" \notin Later

Visibilities == {"public", "private"}
NoValues == [key \in {} |-> Nothing]
NoFragment == [public |-> NoValues, private |-> NoValues, extra |-> Nothing]
NoConfig == [public |-> NoValues, private |-> NoValues, stray |-> NoValues]

-----------------------------------------------------------------------------
\* resolveRuntimeConfigEnv: the files', the process's and the bundler's variables, the
\* later over the earlier, unless the host brings its own.
RuntimeEnv(ws, config) ==
    IF config.env = Nothing THEN NoValues
    ELSE IF config.env.given # Nothing THEN config.env.given
    ELSE Over(ws.environment.bundler, Over(ws.environment.process, ws.environment.files))

\* resolveRuntimeConfigVarDir.
VarDir(config, env) ==
    IF config.varDir # Nothing THEN config.varDir
    ELSE IF <<"RUNTIME_CONFIG_VAR_DIR">> \in DOMAIN env THEN env[<<"RUNTIME_CONFIG_VAR_DIR">>]
    ELSE ".data"

SourceDirs(config, env) == IF config.sources = {} THEN {VarDir(config, env)} ELSE config.sources

IsFragment(f) ==
    /\ f = [public |-> f.public, private |-> f.private, extra |-> f.extra]
    /\ \A v \in Visibilities : f[v] = [key \in DOMAIN f[v] |-> f[v][key]]
    /\ f.extra \in Extras

\* A configuration directory is a place in the order of the paths, and a file that
\* parses holds a fragment.
ASSUME FragmentsAssumption ==
    \A ws \in Workspaces :
        /\ Len(ws.configs) \in Nat /\ DOMAIN ws.configs = 1..Len(ws.configs)
        /\ \A k \in DOMAIN ws.configs : \A scope \in DOMAIN ws.configs[k].files :
            LET f == ws.configs[k].files[scope] IN f \in {Nothing, Broken} \/ IsFragment(f)

\* loadRuntimeConfigSourceTree: of two files of a scope the one with the later path
\* stands; one that cannot be parsed, or holds a falsy value, is passed over.
Readable(ws, dirs, scope) ==
    {k \in DOMAIN ws.configs :
        /\ ws.configs[k].dir \in dirs /\ scope \in DOMAIN ws.configs[k].files
        /\ ws.configs[k].files[scope] \notin {Nothing, Broken}}

SourceFragment(ws, config, env, scope) ==
    LET files == Readable(ws, SourceDirs(config, env), scope)
    IN  IF config.sources = Nothing \/ files = {} THEN Nothing ELSE ws.configs[Max(files)].files[scope]

-----------------------------------------------------------------------------
\* createRuntimeConfigEnvKey.
EnvKey(prefix, scope, key) ==
    (IF prefix = Nothing THEN <<>> ELSE Words[prefix]) \o Words[scope] \o Words[key]

Prefix(config, v) ==
    IF v = "private" THEN config.env.privatePrefix
    ELSE IF config.env.publicPrefix = Nothing THEN "VITE" ELSE config.env.publicPrefix

\* createRuntimeConfigEnvFragments: a variable for each key the schema lists, and none
\* without a schema.
EnvSection(config, env, scope, schema, v) ==
    LET name(key) == EnvKey(Prefix(config, v), scope, key)
        keys      == {key \in schema[v] : name(key) \in DOMAIN env}
    IN  [key \in keys |-> env[name(key)]]

EnvFragment(config, env, scope, schema) ==
    LET section(v) == EnvSection(config, env, scope, schema, v)
    IN  IF \/ config.env = Nothing \/ schema = Nothing
           \/ \A v \in Visibilities : DOMAIN section(v) = {}
        THEN Nothing
        ELSE [public |-> section("public"), private |-> section("private"), extra |-> Nothing]

\* mergeRuntimeConfigFragment, for a scope the environment has a fragment of.
MergeFragment(left, right) ==
    IF right = Nothing THEN left
    ELSE LET below == IF left = Nothing THEN NoFragment ELSE left
         IN  [public  |-> Over(right.public, below.public),
              private |-> Over(right.private, below.private),
              extra   |-> Nothing]

\* The fragment of a capability, or Nothing.
FragmentOf(ws, config, env, scope, schema) ==
    MergeFragment(SourceFragment(ws, config, env, scope), EnvFragment(config, env, scope, schema))

-----------------------------------------------------------------------------
\* readRuntimeConfigSchemas: a grouping's directory holds none.
SchemaOf(ws, c) ==
    IF c.dir.kind = "virtual" \/ ws.dirs[c.dir.name] = Nothing THEN Nothing
    ELSE ws.dirs[c.dir.name].schema

\* getCapabilityRuntimeConfigPolicy: the descriptor's, the host's, else optional.
Policy(config, c) ==
    IF c.descriptor.policy # Nothing THEN c.descriptor.policy ELSE config.validation

\* shouldValidateRuntimeConfigFragment.
ShouldValidate(mode, schema, fragment) ==
    /\ schema # Nothing
    /\ \/ mode = "startup"
       \/ mode = "optional" /\ fragment # Nothing

\* validateReactRuntimeConfig.
FailsValidation(config, c, schema, fragment) ==
    /\ config.validation # Nothing
    /\ ShouldValidate(Policy(config, c), schema, fragment)
    /\ ~Accepts(schema, IF fragment = Nothing THEN NoFragment ELSE fragment)

\* The private values of the scope "public".
Spilt(fragments) ==
    IF "public" \in DOMAIN fragments /\ fragments["public"] # Nothing THEN fragments["public"].private
    ELSE NoValues

(***************************************************************************)
(* projectRuntimeConfigNamespaces and the split of what it returns: the    *)
(* sections that hold something, by scope.  The private ones are entries   *)
(* of the very object whose entry "public" holds the public ones, so the   *)
(* private values of a scope called "public" land among the public scopes, *)
(* as stray entries: over the sections the scopes up to it left there, and *)
(* under those of the scopes that come after it.                           *)
(***************************************************************************)
Namespaces(fragments) ==
    LET filled(v)      == {scope \in DOMAIN fragments :
                            fragments[scope] # Nothing /\ DOMAIN fragments[scope][v] # {}}
        spilt          == Spilt(fragments)
        shown          == filled("public") \ (DOMAIN spilt \ Later)
        section(scope) == fragments[scope].public
    IN  [public  |-> [scope \in shown |-> IF scope \in DOMAIN spilt
                                           THEN Over(section(scope), Spread(spilt[scope]))
                                           ELSE section(scope)],
         private |-> [scope \in filled("private") \ {"public"} |-> fragments[scope].private],
         stray   |-> [key \in DOMAIN spilt \ shown |-> spilt[key]]]

\* mergeRuntimeConfigFragmentMaps, for the capabilities that take part.
Fragments(ws, capabilities, config) ==
    LET env            == RuntimeEnv(ws, config)
        capability(id) == EntryOf(capabilities, id)
    IN  [id \in Present(capabilities) |-> FragmentOf(ws, config, env, id, SchemaOf(ws, capability(id)))]

\* Mutated form of CreateConfig: the files are validated, the environment comes after.
CreateConfigFilesChecked(ws, capabilities, config) ==
    LET schema(c) == SchemaOf(ws, c)
        file(c)   == SourceFragment(ws, config, RuntimeEnv(ws, config), c.id)
    IN  IF ~config.enabled THEN NoConfig
        ELSE IF \E c \in capabilities : \/ schema(c) = Broken
                                        \/ FailsValidation(config, c, schema(c), file(c))
        THEN Nothing
        ELSE Namespaces(Fragments(ws, capabilities, config))

\* createReactRuntimeConfig, or Nothing where it throws.
CreateConfig(ws, capabilities, config) ==
    LET fragments == Fragments(ws, capabilities, config)
        schema(c) == SchemaOf(ws, c)
    IN  IF ~config.enabled THEN NoConfig
        ELSE IF \E c \in capabilities : \/ schema(c) = Broken
                                        \/ FailsValidation(config, c, schema(c), fragments[c.id])
        THEN Nothing
        ELSE Namespaces(fragments)

\* getCapabilityRuntimeConfigScope: of an entry that is an object, its entries.
ScopeOf(config, v, id) ==
    IF id \in DOMAIN config[v] THEN config[v][id]
    ELSE IF v = "public" /\ id \in DOMAIN config.stray /\ IsSection(config.stray[id]) THEN Spread(config.stray[id])
    ELSE NoValues
=============================================================================
