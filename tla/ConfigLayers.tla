----------------------------- MODULE ConfigLayers -----------------------------
(***************************************************************************)
(* How the server's configuration is put together (config/config.go):      *)
(* defaults, a YAML file, environment variables and command-line flags,    *)
(* each laid over what comes before it.  A source is a function from the   *)
(* settings that it names to the words that it gives them.  A switch is    *)
(* TRUE or FALSE in the configuration, and what a word means for it        *)
(* depends on who reads it: flags and variables go through ParseBool, the  *)
(* file through yaml.v3.                                                   *)
(***************************************************************************)
EXTENDS FiniteSets, Functions

CONSTANTS
    Defaults,      \* setting -> value of DefaultConfig
    Switches,      \* the boolean settings
    ParseBool,     \* word -> boolean, for the words that strconv.ParseBool takes
    YamlBool,      \* word -> boolean, for the words that yaml.v3 takes for one
    Empty,         \* the empty string
    Files          \* path of each file that can be read -> the settings in it

Settings == DOMAIN Defaults

\* the empty string is no boolean
ASSUME WordsAssumption ==
    \A truth \in {ParseBool, YamlBool} :
        truth \in [DOMAIN truth -> BOOLEAN] /\ Empty \notin DOMAIN truth

ASSUME SwitchesAssumption ==
    Switches \subseteq Settings /\ \A s \in Switches : Defaults[s] \in BOOLEAN

\* what else a file says is not read
ASSUME FilesAssumption == \A path \in DOMAIN Files : DOMAIN Files[path] \subseteq Settings

\* --config names the file, or else the caller's path; Empty for no file
FilePath(src) ==
    IF "config" \in DOMAIN src.flags /\ src.flags["config"] # Empty
    THEN src.flags["config"] ELSE src.path

FileOf(src) == IF FilePath(src) = Empty THEN <<>> ELSE Files[FilePath(src)]

Parses(layer, truth) == \A s \in Switches \cap DOMAIN layer : layer[s] \in DOMAIN truth

\* fs.Parse, os.ReadFile and yaml.Unmarshal return no error; fs.Parse refuses a
\* flag that is not defined
Loads(src) ==
    /\ DOMAIN src.flags \subseteq Settings \cup {"config"}
    /\ Parses(src.flags, ParseBool)
    /\ FilePath(src) # Empty => FilePath(src) \in DOMAIN Files
    /\ Parses(FileOf(src), YamlBool)

Value(s, word, truth) == IF s \in Switches THEN truth[word] ELSE word

Layer(words, named, truth) == [s \in named |-> Value(s, words[s], truth)]

FileLayer(src) == Layer(FileOf(src), DOMAIN FileOf(src), YamlBool)

\* faulty: an empty variable counts as set
EnvAsGiven(env) ==
    Layer(env, {s \in DOMAIN env : s \in Switches => env[s] \in DOMAIN ParseBool},
          ParseBool)

\* an empty variable is not set, and an unreadable boolean is passed over
EnvLayer(env) ==
    Layer(env, {s \in DOMAIN env : /\ env[s] # Empty
                                   /\ s \in Switches => env[s] \in DOMAIN ParseBool},
          ParseBool)

\* flags as they are given, empty ones included
FlagLayer(flags) == Layer(flags, DOMAIN flags \cap Settings, ParseBool)

\* each setting that layer names is overwritten
Over(layer, below) ==
    [s \in DOMAIN layer \cup DOMAIN below |->
        IF s \in DOMAIN layer THEN layer[s] ELSE below[s]]

Loaded(src) ==
    Over(FlagLayer(src.flags),
         Over(EnvLayer(src.env), Over(FileLayer(src), Defaults)))

=============================================================================
