------------------------------- MODULE Config -------------------------------
(***************************************************************************)
(* From the layers an operator writes (a YAML file, CWD_* variables) to    *)
(* the values the server runs with: cmd/cwd (which file), internal/config  *)
(* (defaults, Unmarshal, environment, merge, clamps, validate), and the    *)
(* substitutions of internal/server and Proxy.Interval.                    *)
(*                                                                         *)
(* A layer is a partial function from settings to values: what it does not *)
(* mention is not in its domain.  Durations are integers; Invalid is a     *)
(* value of a variable that does not parse.                                *)
(***************************************************************************)
EXTENDS Integers, Sequences, FiniteSets, Functions

CONSTANTS
    SourceNames,    \* the sources the server knows
    DefaultIntervals, \* config.defaults() and the constructors of the sources
    Registry,       \* image key -> DefaultInterval
    DefaultPrewarm,
    Patterned,      \* the UGCs, WFOs and products that match their patterns
    Floor,          \* the 60 s of validateImageIntervals
    Invalid,
    Null            \* a YAML null

ASSUME ConfigAssumption ==
    /\ DOMAIN DefaultIntervals = SourceNames
    /\ \A n \in SourceNames : DefaultIntervals[n] \in Nat \ {0}
    /\ Floor \in Nat /\ Floor >= 4
    /\ \A k \in DOMAIN Registry : Registry[k] \in Nat /\ Registry[k] >= Floor
    /\ DefaultPrewarm \subseteq DOMAIN Registry

None == <<>>  \* the layer, or the option, that says nothing
\* f, and g where f says nothing.
Over(f, g) == [s \in DOMAIN f \cup DOMAIN g |-> IF s \in DOMAIN f THEN f[s] ELSE g[s]]
Parsed(layer) == Restrict(layer, {s \in DOMAIN layer : layer[s] # Invalid})

---------------------------------------------------------------------------
(* The layers of LoadWithLogger.                                           *)

Defaults ==
    [scalars   |-> [log_level |-> "info", log_format |-> "json", default_theme |-> "dark",
                    retention_days |-> 30, disk_max_bytes |-> 500, hot_max_bytes |-> 64,
                    hot_max_entries |-> 256, cache_dir |-> "state/images"],
     sources   |-> [n \in SourceNames |-> [interval |-> DefaultIntervals[n], enabled |-> <<TRUE>>]],
     intervals |-> None,
     prewarm   |-> DefaultPrewarm,
     window    |-> 24,
     products  |-> {"K08A"},
     region    |-> {}]

\* An element of a YAML map is decoded into a fresh value: what it does not
\* mention is zero, or nil.
FreshSource(s) ==
    [interval |-> IF "interval" \in DOMAIN s THEN s.interval ELSE 0,
     enabled  |-> IF "enabled" \in DOMAIN s THEN <<s.enabled>> ELSE None]

\* Unmarshal merges maps by key and replaces lists; a null empties either.
Merged(file, s, elements, old) ==
    IF s \notin DOMAIN file THEN old ELSE IF file[s] = Null THEN None ELSE Over(elements, old)
Replaced(file, s, old) ==
    IF s \notin DOMAIN file THEN old ELSE IF file[s] = Null THEN {} ELSE file[s]

Unmarshal(cfg, file) ==
    [scalars   |-> IF "scalars" \in DOMAIN file THEN Over(file.scalars, cfg.scalars) ELSE cfg.scalars,
     sources   |-> Merged(file, "sources", [n \in DOMAIN file.sources |-> FreshSource(file.sources[n])], cfg.sources),
     intervals |-> Merged(file, "intervals", file.intervals, cfg.intervals),
     prewarm   |-> Replaced(file, "prewarm", cfg.prewarm),
     window    |-> IF "window" \in DOMAIN file THEN file.window ELSE cfg.window,
     products  |-> Replaced(file, "products", cfg.products),
     region    |-> Replaced(file, "region", cfg.region)]

\* The variables of a source are looked up for the sources the map has.
EnvSource(s, vars_) ==
    LET set == Parsed(vars_)
    IN [interval |-> IF "interval" \in DOMAIN set THEN set.interval ELSE s.interval,
        enabled  |-> IF "enabled" \in DOMAIN set THEN <<set.enabled>> ELSE s.enabled]

\* Mutant of ApplyEnvOverrides: only what the file left alone.
ApplyEnvQuietly(cfg, env) ==
    [cfg EXCEPT
        !.scalars = Over(@, Parsed(env.scalars)),
        !.prewarm = IF env.prewarm = None THEN @ ELSE env.prewarm[1],
        !.intervals = Over(@, Parsed(env.intervals)),
        !.sources = [n \in DOMAIN @ |-> EnvSource(@[n], None)]]

ApplyEnvOverrides(cfg, env) ==
    [cfg EXCEPT
        !.scalars = Over(Parsed(env.scalars), @),
        !.prewarm = IF env.prewarm = None THEN @ ELSE env.prewarm[1],
        !.intervals = Over(Parsed(env.intervals), @),
        !.sources = [n \in DOMAIN @ |-> IF n \in DOMAIN env.sources THEN EnvSource(@[n], env.sources[n]) ELSE @[n]]]

MergeSourceDefaults(cfg) ==
    LET Filled(s, d) == [interval |-> IF s.interval = 0 THEN d.interval ELSE s.interval,
                         enabled  |-> IF s.enabled = None THEN d.enabled ELSE s.enabled]
    IN [cfg EXCEPT !.sources =
            Over([n \in SourceNames \cap DOMAIN @ |-> Filled(@[n], Defaults.sources[n])], Over(@, Defaults.sources))]

\* validateRegionFilter, validateSWPCProducts, validateSWPCWindow and
\* validateImagesPrewarm.
Cleaned(cfg) ==
    [cfg EXCEPT !.region = @ \cap Patterned,
                !.products = @ \cap Patterned,
                !.window = IF @ <= 0 THEN 24 ELSE @,
                !.prewarm = @ \cap DOMAIN Registry]

\* Mutant of ValidateImageIntervals: a warning, as for the sources.
ValidateImageIntervalsWarns(cfg) == cfg

ValidateImageIntervals(cfg) ==
    [cfg EXCEPT !.intervals = [k \in DOMAIN @ |-> IF 0 < @[k] /\ @[k] < Floor THEN Floor ELSE @[k]]]

Validate(cfg) ==
    /\ cfg.scalars.log_level \in {"debug", "info", "warn", "error"}
    /\ cfg.scalars.log_format \in {"json", "text"}
    /\ cfg.scalars.default_theme \in {"dark", "light", "auto"}
    /\ cfg.scalars.retention_days > 0
    /\ cfg.scalars.disk_max_bytes > 0
    /\ cfg.scalars.hot_max_bytes >= 0
    /\ cfg.scalars.hot_max_entries >= 0
    /\ cfg.scalars.cache_dir # ""

\* resolveConfigPath: of the four places only the last is looked at before it
\* is chosen.  place names a file or is "" where there is none to name.
ResolveConfigPath(env, files) ==
    LET named == SelectSeq(<<env.flag, env.cwdConfig, env.xdgConfig>>, LAMBDA p : p # "")
    IN IF named # <<>> THEN Head(named) ELSE IF env.home \in DOMAIN files THEN env.home ELSE ""

\* LoadWithLogger: <<>> is an error.
Load(env, files) ==
    LET path == ResolveConfigPath(env, files)
        file == IF path = "" THEN None ELSE files[path]
        cfg == Cleaned(ValidateImageIntervals(MergeSourceDefaults(
                   ApplyEnvOverrides(Unmarshal(Defaults, file), env))))
    IN IF path # "" /\ (path \notin DOMAIN files \/ files[path] = Invalid) THEN <<>>
       ELSE IF Validate(cfg) THEN <<cfg>> ELSE <<>>

---------------------------------------------------------------------------
(* What server.Run and the proxy make of it.                               *)

Enabled(cfg) == {n \in SourceNames : cfg.sources[n].enabled # <<FALSE>>}

\* SetInterval only with a positive interval; otherwise the constructor's.
SourceInterval(cfg, n) ==
    IF cfg.sources[n].interval > 0 THEN cfg.sources[n].interval ELSE DefaultIntervals[n]

OrDefault(cfg, s) == IF cfg.scalars[s] <= 0 THEN Defaults.scalars[s] ELSE cfg.scalars[s]
Caps(cfg) == [disk |-> OrDefault(cfg, "disk_max_bytes"),
              hot  |-> OrDefault(cfg, "hot_max_bytes"),
              entries |-> OrDefault(cfg, "hot_max_entries")]

\* Proxy.Interval
ImageInterval(cfg, k) ==
    IF k \in DOMAIN cfg.intervals /\ cfg.intervals[k] > 0 THEN cfg.intervals[k] ELSE Registry[k]

\* StartPrewarm polls the registered keys of the list.
Polled(cfg) == cfg.prewarm \cap DOMAIN Registry

\* startupJitter: rand.Int64N panics when its argument is not positive.
JitterPanics(base) == base > 0 /\ base \div 4 <= 0

---------------------------------------------------------------------------
(* Backoff of Fetcher.Run and runOne: the delay after that many failures   *)
(* in a row, doubled from the second on and cut at five intervals.         *)

\* Mutant of Backoff: cut before the doubling.
BackoffEarlyCut(base, failures) ==
    LET d[i \in 0..failures] ==
            IF i <= 1 THEN base ELSE 2 * (IF d[i - 1] > 5 * base THEN 5 * base ELSE d[i - 1])
    IN d[failures]

Backoff(base, failures) ==
    LET d[i \in 0..failures] ==
            IF i <= 1 THEN base ELSE IF 2 * d[i - 1] > 5 * base THEN 5 * base ELSE 2 * d[i - 1]
    IN d[failures]
=============================================================================
