--------------------------- MODULE SelectionSeed ---------------------------
(***************************************************************************)
(* What a host was asked to compose: which of its options, arguments and   *)
(* environment variables a run takes its specifications from, how a text   *)
(* is cut into specifications, and what a specification requires.          *)
(*                                                                         *)
(* A word is an id, with what follows its last @ as its range if it has    *)
(* one.  A part is the sequence of words between two commas, a text the    *)
(* sequence of its parts.  A part that is one specification has the words  *)
(* after its first as the rest of that one's range.                        *)
(***************************************************************************)
EXTENDS Naturals, Sequences, SequencesExt

CONSTANTS
    Nothing,         \* an option, variable or value that is not there
    Ranges,          \* the sequences of words that are version ranges
    InRange(_, _)    \* whether a version lies in a range

AnyVersion == <<"*">>

Word(id) == [id |-> id, range |-> Nothing]
WordAt(id, range) == [id |-> id, range |-> range]

-----------------------------------------------------------------------------
\* resolveCliKeys and resolveEnvKeys: a key names a flag and two variables; a flag
\* given without dashes is tried with them first, and as it is written after that.  (One
\* given with dashes is tried twice here, and answers the same.)
Flag(key) == [dashed |-> TRUE, key |-> key]
Bare(key) == [dashed |-> FALSE, key |-> key]

\* Mutated form of CliKeys: a key is tried as it is written first.
CliKeysVerbatim(s) ==
    IF s.cliKeys = Nothing THEN <<Flag(s.key)>>
    ELSE [n \in 1..2 * Len(s.cliKeys) |->
            LET key == s.cliKeys[(n + 1) \div 2] IN IF n % 2 = 1 THEN key ELSE Flag(key.key)]

CliKeys(s) ==
    IF s.cliKeys = Nothing THEN <<Flag(s.key)>>
    ELSE [n \in 1..2 * Len(s.cliKeys) |->
            LET key == s.cliKeys[(n + 1) \div 2] IN IF n % 2 = 1 THEN Flag(key.key) ELSE key]

EnvKeys(s) == IF s.envKeys = Nothing THEN <<"npm_config", "LORION">> ELSE s.envKeys

\* readCliValue.  An argument is a head, or a head, an equals sign and what comes
\* after it; the value of a head alone is the next argument, unless it has a dash.
CliValue(argv, key) ==
    LET at == {k \in DOMAIN argv : argv[k].head = key}
        k  == CHOOSE i \in at : \A j \in at : i <= j
    IN  IF at = {} THEN Nothing
        ELSE IF argv[k].after # Nothing THEN argv[k].after
        ELSE IF k < Len(argv) /\ ~argv[k + 1].head.dashed THEN argv[k + 1].text
        ELSE Nothing

EnvValue(env, key) == IF key \in DOMAIN env THEN env[key] ELSE Nothing

\* A text of blanks; one with a comma is not.
Blank(text) == text = Nothing \/ Len(text) = 0 \/ text = <<<<>>>>

\* firstNonEmptyValue: <<>> if all are blank.
FirstGiven(values) ==
    LET given == {k \in DOMAIN values : ~Blank(values[k])}
    IN  IF given = {} THEN <<>> ELSE values[CHOOSE k \in given : \A j \in given : k <= j]

\* readDescriptorSelectionSeed: the arguments first, then the variables.
SeedText(s) ==
    LET argument == FirstGiven([k \in DOMAIN CliKeys(s) |-> CliValue(s.argv, CliKeys(s)[k])])
    IN  IF argument # <<>> THEN argument
        ELSE FirstGiven([k \in DOMAIN EnvKeys(s) |-> EnvValue(s.env, EnvKeys(s)[k])])

-----------------------------------------------------------------------------
\* The words from one on, as the words of a range.
RangeFrom(part) ==
    <<part[1].range>> \o [k \in 1..Len(part) - 1 |-> part[k + 1].id]

IsOneSpec(part) ==
    /\ part[1].range # Nothing
    /\ \A k \in 2..Len(part) : part[k].range = Nothing
    /\ RangeFrom(part) \in Ranges

\* parseSeedValue: a part is one specification, or each of its words is.
SpecsIn(text) ==
    UNION {IF text[k] = <<>> THEN {}
           ELSE IF IsOneSpec(text[k]) THEN {text[k]}
           ELSE {<<text[k][j]>> : j \in DOMAIN text[k]} : k \in DOMAIN text}

\* specs: an option is a list of specifications, none of them blank.
Rejects(list) == list # Nothing /\ \E k \in DOMAIN list : list[k] = <<>>
SpecsOf(list) == IF list = Nothing THEN {} ELSE ToSet(list)

\* resolveRequestedSelection: {} if nothing was requested.
Requested(s) ==
    IF SpecsOf(s.selected) # {} THEN SpecsOf(s.selected)
    ELSE IF s.selectionSeed THEN SpecsIn(SeedText(s)) ELSE {}

-----------------------------------------------------------------------------
\* An id is cut from its range at the last @ of a specification.
Plain(spec) ==
    /\ \A k \in 2..Len(spec) : spec[k].range = Nothing
    /\ spec[1].range = Nothing => Len(spec) = 1

RangeOf(spec) == IF spec[1].range = Nothing THEN AnyVersion ELSE RangeFrom(spec)

\* readVersionSelectors: a selector's name is no range.
NamedSelector(s, spec) == Plain(spec) /\ \E name \in DOMAIN s.selectors : RangeOf(spec) = <<name>>

\* requirement.
Understood(s, spec) == Plain(spec) /\ (NamedSelector(s, spec) \/ RangeOf(spec) \in Ranges)

IdOf(spec) == spec[1].id

\* resolveDescriptorSeed: what is selected, the base, and the specifications either
\* was written in.
SeedFrom(s, requested, chosen, base) ==
    IF \/ \E name \in DOMAIN s.selectors : <<name>> \in Ranges
       \/ Rejects(s.selected) \/ Rejects(s.defaultSelection) \/ Rejects(s.baseDescriptors)
       \/ \E spec \in chosen \cup base : ~Understood(s, spec)
    THEN Nothing
    ELSE [requested |-> requested,
          selected  |-> {IdOf(spec) : spec \in chosen},
          base      |-> {IdOf(spec) : spec \in base},
          specs     |-> chosen \cup base]

SeedOf(s) ==
    LET requested == Requested(s)
    IN  SeedFrom(s, requested, IF requested = {} THEN SpecsOf(s.defaultSelection) ELSE requested,
                 SpecsOf(s.baseDescriptors))

\* Whether the one version of an id meets a specification: a selector is asked about
\* the versions that are enabled, and one that matches none is an error
\* (resolveNamedVersionRequirements).
Meets(s, spec, versions) ==
    IF NamedSelector(s, spec)
    THEN IdOf(spec) \in DOMAIN versions /\ versions[IdOf(spec)] \in s.selectors[RangeOf(spec)[1]]
    ELSE IdOf(spec) \in DOMAIN versions /\ InRange(versions[IdOf(spec)], RangeOf(spec))

=============================================================================
