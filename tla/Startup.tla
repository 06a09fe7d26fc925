------------------------------ MODULE Startup ------------------------------
(***************************************************************************)
(* How a program gets its configuration and its language models: the       *)
(* choice of the source (nxconfig/boot.go, awssm), reading and merging     *)
(* (nxconfig/load.go, source.go), defaults and validation, and the         *)
(* registry of providers (agentic/llmconfig).  One goroutine, once.        *)
(*                                                                         *)
(* A configuration is the application's own settings, which may be zero,   *)
(* and the two maps of llmconfig.Config.  Of a file or a secret all that   *)
(* matters is whether it can be read, what it is written in and what it    *)
(* says.  The name of a provider is also the name of a provider type, as   *)
(* SetDefaults takes one for the other.                                    *)
(***************************************************************************)
EXTENDS Integers, Sequences, FiniteSetsExt

CONSTANTS
    Paths,         \* configuration files
    DefaultPaths,  \* config.yaml, config.yml, config.json
    Hint,          \* what the extension of a path says of the format
    Settings, Values, Zero, Default,
    Names, Models, \* logical names of providers and of models
    Unset,         \* the empty string
    Supported,     \* provider types newProvider knows
    Worlds,        \* what a program may be started with
    Nothing        \* an empty configuration, before anything is loaded

ProviderConfig == [type : Names \cup {Unset}, key : Values \cup {Zero}]
ModelConfig    == [provider : Names \cup {Unset}, model : Values \cup {Zero}]
MapsTo(K, V)   == UNION {[D -> V] : D \in SUBSET K}
Config == [settings : [Settings -> Values \cup {Zero}],
           providers : MapsTo(Names, ProviderConfig),
           models : MapsTo(Models, ModelConfig)]

Formats == {"auto", "yaml", "json"}

\* "absent" is what Stat does not find; "unreadable" it finds.
Text == [state : {"absent", "unreadable", "text"},
         syntax : {"yaml", "json", "neither"}, config : Config]

\* A fallback the caller passes: "none" is a nil Source.
Fallback == [kind : {"none", "env", "static"}, hint : Formats, text : Text]

\* What the environment gives: paths, the AWS flags and the secret they name
\* (with its two fields), further fallbacks, files and their local variants.
World == [flag : Paths \cup {Unset}, env : Paths \cup {Unset},
          region : BOOLEAN, secretName : BOOLEAN, string : Text, binary : Text,
          fallback : Seq(Fallback), files : [Paths -> Text], locals : [Paths -> Text]]

StartupAssumption ==
    /\ DefaultPaths \in Seq(Paths) /\ Hint \in [Paths -> Formats]
    /\ Worlds \subseteq World
    /\ Zero \notin Values /\ Unset \notin Names \cup Paths \cup Values
    /\ Default \in [Settings -> Values \cup {Zero}]
    /\ Supported \subseteq Names
    /\ Nothing \in Config /\ Nothing.settings = [s \in Settings |-> Zero]
    /\ DOMAIN Nothing.providers = {} /\ DOMAIN Nothing.models = {}

VARIABLES
    stage,     \* how far the start is
    world,     \* what the program was started with
    source,    \* the source that was chosen
    text,      \* what it contained
    cfg,       \* the configuration struct
    registry   \* the providers, by name: the type each was built for

vars == <<stage, world, source, text, cfg, registry>>

NoText == [state |-> "absent", syntax |-> "neither", config |-> Nothing]
NoSource == [kind |-> "none", hint |-> "auto", text |-> NoText]
NoWorld == [flag |-> Unset, env |-> Unset, region |-> FALSE, secretName |-> FALSE,
            string |-> NoText, binary |-> NoText, fallback |-> <<>>,
            files |-> [p \in Paths |-> NoText], locals |-> [p \in Paths |-> NoText]]

Stages == {"none", "resolve", "load", "parse", "overlay", "validate", "registry",
           "ready", "failed"}

Source == [kind : {"file"}, path : Paths]
          \cup [kind : {"secret", "env", "static", "none"}, hint : Formats, text : Text]

TypeOK ==
    /\ stage \in Stages
    /\ world \in Worlds \cup {NoWorld}
    /\ source \in Source /\ text \in Text
    /\ cfg \in Config
    /\ registry \in MapsTo(Names, Names)

Init ==
    /\ stage = "none" /\ world = NoWorld /\ source = NoSource /\ text = NoText
    /\ cfg = Nothing /\ registry = Nothing.providers

Start(w) ==
    /\ stage = "none" /\ stage' = "resolve"
    /\ world' = w
    /\ UNCHANGED <<source, text, cfg, registry>>

Go(to) == stage' = to
Fails == Go("failed") /\ UNCHANGED <<world, source, text, cfg, registry>>

-----------------------------------------------------------------------------
\* LoadFromFlags, with the AWS source as the first fallback

FlagOrEnv(w) == IF w.flag # Unset THEN w.flag ELSE w.env

FileSource(p) == [kind |-> "file", path |-> p]

\* The string of a secret, or else its binary, as it is or out of a JSON string.
SecretText(w) == IF w.string.state = "text" THEN w.string ELSE w.binary

SourceFromFlags(w) ==
    IF w.region /\ w.secretName
      THEN [kind |-> "secret", hint |-> "auto", text |-> SecretText(w)] ELSE NoSource

FileExists(t) == t.state # "absent"

\* The fallbacks the caller passes, and those of them that are not nil.
Fallbacks(w) == <<SourceFromFlags(w)>> \o w.fallback
Given(w) == {i \in DOMAIN Fallbacks(w) : Fallbacks(w)[i].kind # "none"}

\* The default files that are there.
Found(w) == {i \in DOMAIN DefaultPaths : FileExists(w.files[DefaultPaths[i]])}

\* LoadFromFlags takes the first that is given; no other is tried if it fails.
Candidate(w) ==
    CASE FlagOrEnv(w) # Unset -> FileSource(FlagOrEnv(w))
      [] FlagOrEnv(w) = Unset /\ Given(w) # {} -> Fallbacks(w)[Min(Given(w))]
      [] FlagOrEnv(w) = Unset /\ Given(w) = {} /\ Found(w) # {} ->
           FileSource(DefaultPaths[Min(Found(w))])
      [] OTHER -> NoSource

Resolve ==
    /\ stage = "resolve"
    /\ IF Candidate(world).kind = "none"
         THEN Fails
         ELSE /\ Go("load")
              /\ source' = Candidate(world)
              /\ UNCHANGED <<world, text, cfg, registry>>

\* The Load methods of the sources: a file that cannot be read, an empty
\* variable and a secret that AWS refuses or that has no value are errors.
Contents(src) == IF src.kind = "file" THEN world.files[src.path] ELSE src.text
Refused(src) == Contents(src).state # "text"

Load ==
    /\ stage = "load"
    /\ IF Refused(source)
         THEN Fails
         ELSE /\ Go("parse")
              /\ text' = Contents(source)
              /\ UNCHANGED <<world, source, cfg, registry>>

\* detectFormat: the hint of the source, or else the first character.
FormatHint(src) ==
    CASE src.kind = "file" -> Hint[src.path]
      [] src.kind = "static" -> src.hint
      [] OTHER -> "auto"

DetectFormat(src, t) ==
    CASE FormatHint(src) # "auto" -> FormatHint(src)
      [] t.syntax = "json" -> "json"
      [] OTHER -> "yaml"

\* JSON is YAML as well.
Parses(t, format) == t.syntax = "json" \/ (t.syntax = "yaml" /\ format = "yaml")

Parse ==
    /\ stage = "parse"
    /\ IF ~Parses(text, DetectFormat(source, text))
         THEN Fails
         ELSE /\ Go("overlay")
              /\ cfg' = text.config
              /\ UNCHANGED <<world, source, text, registry>>

-----------------------------------------------------------------------------
\* The overlay: the ".local" file next to the file that was loaded.

Override(base, over) ==
    [f \in DOMAIN base |-> IF over[f] \in {Zero, Unset} THEN base[f] ELSE over[f]]

\* mergo with WithOverride: what is not zero overrides.  Of two entries of a
\* map under one key it may keep that of the overlay or merge their fields
\* (fieldwise), which is the library's affair.
MergeMaps(base, over, fieldwise) ==
    [k \in DOMAIN base \cup DOMAIN over |->
        CASE k \notin DOMAIN over -> base[k]
          [] k \in DOMAIN over /\ k \in DOMAIN base /\ fieldwise -> Override(base[k], over[k])
          [] OTHER -> over[k]]

\* A bug: the base overrides the overlay.
MergeUnder(base, over, fieldwise) ==
    [settings  |-> Override(over.settings, base.settings),
     providers |-> MergeMaps(over.providers, base.providers, fieldwise),
     models    |-> MergeMaps(over.models, base.models, fieldwise)]

Merge(base, over, fieldwise) ==
    [settings  |-> Override(base.settings, over.settings),
     providers |-> MergeMaps(base.providers, over.providers, fieldwise),
     models    |-> MergeMaps(base.models, over.models, fieldwise)]

LocalText(src) == IF src.kind = "file" THEN world.locals[src.path] ELSE NoText

\* The overlay is parsed in the format of the base.
Overlay ==
    /\ stage = "overlay"
    /\ LET local == LocalText(source)
       IN  CASE ~FileExists(local) ->
                  Go("validate") /\ UNCHANGED <<world, source, text, cfg, registry>>
             [] local.state = "text" /\ Parses(local, DetectFormat(source, text)) ->
                  /\ Go("validate")
                  /\ \E fieldwise \in BOOLEAN : cfg' = Merge(cfg, local.config, fieldwise)
                  /\ UNCHANGED <<world, source, text, registry>>
             [] OTHER -> Fails

-----------------------------------------------------------------------------
\* SetDefaults of the application and of llmconfig.Config
WithDefaults(c) ==
    [c EXCEPT
       !.settings  = [s \in Settings |-> IF @[s] = Zero THEN Default[s] ELSE @[s]],
       !.providers = [n \in DOMAIN @ |->
                        IF @[n].type = Unset THEN [@[n] EXCEPT !.type = n] ELSE @[n]]]

\* A bug: a model's provider need only be named.
ValidNamed(c) ==
    /\ DOMAIN c.providers # {} /\ DOMAIN c.models # {}
    /\ \A m \in DOMAIN c.models : c.models[m].model # Zero /\ c.models[m].provider # Unset

Valid(c) ==
    /\ DOMAIN c.providers # {} /\ DOMAIN c.models # {}
    /\ \A m \in DOMAIN c.models :
          /\ c.models[m].model # Zero
          /\ c.models[m].provider \in DOMAIN c.providers

Validate ==
    /\ stage = "validate"
    /\ IF ~Valid(WithDefaults(cfg))
         THEN Fails
         ELSE /\ Go("registry")
              /\ cfg' = WithDefaults(cfg)
              /\ UNCHANGED <<world, source, text, registry>>

\* NewRegistry builds every provider, in any order, and gives up at the first
\* it cannot build.  A key with $ in it is expanded, to nothing if the
\* variable is not set, and newProvider does not mind.
NewProvider(n) ==
    /\ stage = "registry" /\ n \in DOMAIN cfg.providers \ DOMAIN registry
    /\ cfg.providers[n].type \in Supported
    /\ registry' = [k \in DOMAIN registry \cup {n} |-> cfg.providers[k].type]
    /\ UNCHANGED <<stage, world, source, text, cfg>>

\* An unsupported type; and every constructor of the library may fail.
NewProviderFails ==
    stage = "registry" /\ DOMAIN registry # DOMAIN cfg.providers /\ Fails

Ready ==
    /\ stage = "registry" /\ DOMAIN registry = DOMAIN cfg.providers
    /\ Go("ready")
    /\ UNCHANGED <<world, source, text, cfg, registry>>

\* Registry.Model: the type of the provider a model is created with, Unset
\* for an unknown model or provider.
ModelType(m) ==
    IF m \in DOMAIN cfg.models /\ cfg.models[m].provider \in DOMAIN registry
      THEN registry[cfg.models[m].provider] ELSE Unset

Next ==
    \/ \E w \in Worlds : Start(w)
    \/ Resolve \/ Load \/ Parse \/ Overlay \/ Validate
    \/ \E n \in Names : NewProvider(n)
    \/ NewProviderFails \/ Ready

Spec == Init /\ [][Next]_vars

-----------------------------------------------------------------------------
\* The documented order of sources and layers, stated of the world alone: the
\* named file, or else the first fallback that is given, or else the first
\* default file that is there; and each setting from the topmost layer that
\* sets it, of the local file, the base and the defaults.  An explicit path
\* or fallback that cannot be read is never passed over for another source,
\* nor a local file that is there but cannot be read or parsed.
Base(w) ==
    LET p == FlagOrEnv(w)
        given == {i \in DOMAIN w.fallback : w.fallback[i].kind # "none"}
        there == {i \in DOMAIN DefaultPaths : w.files[DefaultPaths[i]].state # "absent"}
        File(q) == [text |-> w.files[q], local |-> w.locals[q]]
        Only(t) == [text |-> t, local |-> NoText]
    IN  CASE p # Unset -> File(p)
          [] p = Unset /\ w.region /\ w.secretName ->
               Only(IF w.string.state = "text" THEN w.string ELSE w.binary)
          [] p = Unset /\ ~(w.region /\ w.secretName) /\ given # {} ->
               Only(w.fallback[Min(given)].text)
          [] OTHER -> File(DefaultPaths[Min(there)])

Layers(w, s) ==
    LET base == Base(w)
        says(t) == IF t.state = "text" THEN t.config.settings[s] ELSE Zero
    IN  <<says(base.local), says(base.text), Default[s], Zero>>

LayersInOrder ==
    stage \in {"registry", "ready"} =>
        /\ Base(world).text.state = "text"
        /\ LET local == Base(world).local
           IN  local.state = "absent" \/ (local.state = "text" /\ local.syntax # "neither")
        /\ \A s \in Settings : \E i \in 1..4 :
              /\ cfg.settings[s] = Layers(world, s)[i]
              /\ i = 4 \/ cfg.settings[s] # Zero
              /\ \A j \in 1..(i - 1) : Layers(world, s)[j] = Zero

\* Once the program is up, every model it is configured with has a provider,
\* of the type it is configured with or named after, and a supported one.
EveryModelResolves ==
    stage = "ready" =>
        \A m \in DOMAIN cfg.models :
            /\ ModelType(m) \in Supported
            /\ ModelType(m) = cfg.providers[cfg.models[m].provider].type
=============================================================================
