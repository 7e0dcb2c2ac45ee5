---------------------------- MODULE Configuration ----------------------------
(***************************************************************************)
(* From the configuration file to the registered data sources: load_config *)
(* and ServerConfig::from_file, the passwords taken from the environment,  *)
(* validation, and DataSourceManager::new.  ServerConfig is public: a      *)
(* caller of the library may parse it itself, which leaves the passwords   *)
(* as they are written, and may drop what is not valid.                    *)
(* Of a data source the model keeps what validation distinguishes.         *)
(***************************************************************************)
EXTENDS Naturals, Sequences, FiniteSets, SequencesExt

CONSTANTS
    FileSources,    \* the data sources a file may list
    MaxFileSources  \* bound: how many of them

VARIABLES
    configPhase,    \* "start", "parsed", "resolved", "loaded",
                    \* "running" or "stopped"
    origin,         \* who parsed it: "none" so far, "file" or "caller"
    data_sources,   \* the list of the configuration
    registered,     \* the data sources of the manager
    filtered,       \* whether the caller has used validate_and_filter
    reason          \* why the process stopped, or "none"

configVars == <<configPhase, origin, data_sources, registered, filtered, reason>>

\* A password is given, empty, or `$` and a variable that is set, empty, unset.
Passwords == {"given", "empty", "$set", "$empty", "$unset"}

DataSourceConfig ==
    [key : {"", "a", "b"}, blank : {"none", "host", "port", "username"},
     password : Passwords, max_connections : Nat, min_connections : Nat]

ASSUME FileSourcesAssumption == FileSources \subseteq DataSourceConfig

Resolved(p) == CASE p = "$set" -> "given" [] p = "$empty" -> "empty" [] OTHER -> p

\* PoolConfig::validate
PoolConfigValid(ds) ==
    ds.max_connections # 0 /\ ds.min_connections <= ds.max_connections

\* DataSourceConfig::validate, for which `$` and a name is a password.
SourceValid(ds) ==
    /\ ds.key # ""
    /\ ds.blank = "none"
    /\ ds.password # "empty"
    /\ PoolConfigValid(ds)

ConfigInit ==
    /\ configPhase = "start" /\ origin = "none"
    /\ data_sources = <<>> /\ registered = {}
    /\ filtered = FALSE /\ reason = "none"

Stop(why) ==
    /\ configPhase' = "stopped"
    /\ reason' = why
    /\ UNCHANGED <<origin, data_sources, registered, filtered>>

\* No file, another extension, a file that cannot be read, or not TOML or YAML.
OpenFails ==
    /\ configPhase = "start"
    /\ \E why \in {"not found", "UnsupportedFormat", "FileReadError", "ParseError"} :
          Stop(why)

Parse ==
    /\ configPhase = "start"
    /\ data_sources' \in SeqOf(FileSources, MaxFileSources)
    /\ configPhase' = "parsed" /\ origin' = "file"
    /\ UNCHANGED <<registered, filtered, reason>>

\* A caller of the library makes a ServerConfig of its own: nothing is resolved
\* or validated unless it asks for it, and its `validate` changes nothing.
ParseByCaller ==
    /\ configPhase = "start"
    /\ data_sources' \in SeqOf(FileSources, MaxFileSources)
    /\ configPhase' = "loaded" /\ origin' = "caller"
    /\ UNCHANGED <<registered, filtered, reason>>

\* The first variable that is not set ends the loading.
VariableMissing ==
    /\ configPhase = "parsed"
    /\ \E i \in DOMAIN data_sources : data_sources[i].password = "$unset"
    /\ Stop("EnvVarNotFound")

ResolvePasswords ==
    /\ configPhase = "parsed"
    /\ \A i \in DOMAIN data_sources : data_sources[i].password # "$unset"
    /\ data_sources' = [i \in DOMAIN data_sources |->
          [data_sources[i] EXCEPT !.password = Resolved(@)]]
    /\ configPhase' = "resolved"
    /\ UNCHANGED <<origin, registered, filtered, reason>>

UniqueKeys ==
    \A i, j \in DOMAIN data_sources : data_sources[i].key = data_sources[j].key => i = j

\* Mutant: the keys are left to DataSourceManager::new.
ConfigValidKeysAside ==
    /\ data_sources # <<>>
    /\ \A i \in DOMAIN data_sources : SourceValid(data_sources[i])

\* ServerConfig::validate: one bad data source is enough to refuse the file.
ConfigValid ==
    /\ data_sources # <<>>
    /\ UniqueKeys
    /\ \A i \in DOMAIN data_sources : SourceValid(data_sources[i])

validate ==
    /\ configPhase = "resolved"
    /\ \/ ConfigValid /\ configPhase' = "loaded"
          /\ UNCHANGED <<origin, data_sources, registered, filtered, reason>>
       \/ ~ConfigValid /\ Stop("ValidationError")

Valid == {i \in DOMAIN data_sources : SourceValid(data_sources[i])}

\* A caller keeps the valid data sources, in their order, of a list it has
\* parsed or loaded.
validate_and_filter ==
    /\ configPhase = "loaded"
    /\ LET n == Cardinality(Valid)
       IN  \E kept \in [1 .. n -> Valid] :
              /\ \A i, j \in 1 .. n : i < j => kept[i] < kept[j]
              /\ data_sources' = [i \in 1 .. n |-> data_sources[kept[i]]]
    /\ filtered' = TRUE
    /\ UNCHANGED <<configPhase, origin, registered, reason>>

\* DataSourceManager::new, for which an empty list is good enough.
Register ==
    /\ configPhase = "loaded"
    /\ \/ /\ UniqueKeys
          /\ registered' = Range(data_sources)
          /\ configPhase' = "running"
          /\ UNCHANGED <<origin, data_sources, filtered, reason>>
       \/ ~UniqueKeys /\ Stop("Duplicate data source key")

ConfigNext ==
    \/ OpenFails \/ Parse \/ ParseByCaller
    \/ VariableMissing \/ ResolvePasswords
    \/ validate \/ validate_and_filter
    \/ Register

ConfigSpec == ConfigInit /\ [][ConfigNext]_configVars

-----------------------------------------------------------------------------
ConfigTypeOK ==
    /\ configPhase \in {"start", "parsed", "resolved", "loaded", "running", "stopped"}
    /\ origin \in {"none", "file", "caller"}
    /\ data_sources \in Seq(DataSourceConfig)
    /\ registered \subseteq DataSourceConfig
    /\ filtered \in BOOLEAN

\* What the server loads from a file is usable: it knows at least one data
\* source, each under a key of its own, valid and with its password resolved,
\* and the manager never refuses a file that validation has accepted.  A caller
\* that filters gets data sources that pass validation, but has to expect none,
\* a refusal for a key that is not unique, and passwords nobody has resolved.
RunningIsUsable ==
    /\ configPhase = "running" =>
          /\ \A d, e \in registered : d.key = e.key => d = e
          /\ origin = "file" \/ filtered =>
                \A d \in registered :
                   /\ d.key # "" /\ d.blank = "none" /\ d.password # "empty"
                   /\ d.max_connections \in Nat \ {0}
                   /\ d.min_connections <= d.max_connections
          /\ origin = "file" =>
                registered # {} /\ \A d \in registered : d.password = "given"
    /\ reason = "Duplicate data source key" => origin = "caller"
=============================================================================
