------------------------------- MODULE Config -------------------------------
(***************************************************************************)
(* Where the values of the configuration come from (src/config.rs,         *)
(* src/args.rs): arguments over environment variables over the file over   *)
(* the defaults.  A file is Missing, Broken (it cannot be read, is not     *)
(* UTF-8 or not a configuration) or the function of the entries it has, as *)
(* they stand in it: their paths are expanded when it is loaded.  The      *)
(* other values, an address, a port and a number, are written and read as  *)
(* they are.  $MPD_HOST is here the address it resolves to, the same at    *)
(* every load of a life, and the variables that paths name do not change.  *)
(***************************************************************************)
CONSTANTS
    Defaults,       \* the value of every entry in Config::new
    Bad,            \* a variable that does not resolve or parse
    Expand(_)       \* expand_path, see ExpandPath

Fields == {"addr", "port", "retries", "music_directory", "cover_directory"}
EnvFields == {"addr", "port"}               \* $MPD_HOST and $MPD_PORT
ArgFields == {"addr", "port", "retries"}
PathFields == {"music_directory", "cover_directory"}

ASSUME ConfigAssumption == DOMAIN Defaults = Fields

\* What is no configuration: records of another field.
Missing == [state |-> "missing"]
Broken == [state |-> "broken"]
NoConfig == [state |-> "not loaded"]

Empty == [f \in {} |-> Bad]                 \* a file of no entries is a configuration

\* The entries of f, and those of g where f has none: @@ of TLC, of which the
\* provers know nothing.
Over(f, g) == [x \in DOMAIN f \cup DOMAIN g |-> IF x \in DOMAIN f THEN f[x] ELSE g[x]]

\* Config::load_from_file, of a file that can be read; the defaults are not expanded.
Entries(file) ==
    [f \in DOMAIN file |-> IF f \in PathFields THEN Expand(file[f]) ELSE file[f]]

\* Config::load_config: env is the function of the variables that are set, args
\* that of the arguments given.
LoadConfig(file, env, args) ==
    IF file = Broken \/ \E f \in DOMAIN env : env[f] = Bad
    THEN NoConfig
    ELSE Over(args, Over(env, IF file = Missing THEN Defaults
                              ELSE Over(Entries(file), Defaults)))
=============================================================================
