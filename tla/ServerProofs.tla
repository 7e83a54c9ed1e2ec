---------------------------- MODULE ServerProofs ----------------------------
(***************************************************************************)
(* Proofs about Config and Server, for every set of sources, images,       *)
(* setups and requests.                                                    *)
(*                                                                         *)
(* Inv is the inductive invariant.  RunInv says which results and flags    *)
(* each phase of Run allows, and that nothing gets past "load" without a   *)
(* configuration that loads; WorkersInv that no goroutine runs before      *)
(* "serve" and no poller after "stop"; DataInv that what is marked a       *)
(* success is cached, and that a stored row waits for at most its own      *)
(* fetcher's next step.  The first part of the module shows that a         *)
(* configuration that loads is usable, which is why no jitter panics.      *)
(***************************************************************************)
EXTENDS Server, WellFoundedInduction, TLAPS

---------------------------------------------------------------------------
(* A configuration keeps its types from layer to layer.                    *)

Fields == {"scalars", "sources", "intervals", "prewarm", "window", "products", "region"}
ConfigTyped(cfg) ==
    /\ DOMAIN cfg = Fields
    /\ cfg.window \in Int
    /\ Numbers \subseteq DOMAIN cfg.scalars
    /\ \A s \in Numbers : cfg.scalars[s] \in Int
    /\ \A k \in DOMAIN cfg.intervals : cfg.intervals[k] \in Int
    /\ \A n \in DOMAIN cfg.sources : cfg.sources[n].interval \in Int

\* yaml.Unmarshal into the defaults keeps the types.
LEMMA UnmarshalTyped ==
    ASSUME NEW file, FileTyped(file)
    PROVE  ConfigTyped(Unmarshal(Defaults, file))
<1> DEFINE cfg == Unmarshal(Defaults, file)
<1>1. DOMAIN cfg = Fields
  BY DEF Unmarshal, Fields
<1>2. cfg.window \in Int
  BY DEF Unmarshal, Defaults, FileTyped
<1>3. Numbers \subseteq DOMAIN cfg.scalars /\ \A s \in Numbers : cfg.scalars[s] \in Int
  <2>1. Numbers \subseteq DOMAIN Defaults.scalars /\ \A s \in Numbers : Defaults.scalars[s] \in Int
    BY DEF Defaults, Numbers
  <2>2. cfg.scalars = IF "scalars" \in DOMAIN file THEN Over(file.scalars, Defaults.scalars) ELSE Defaults.scalars
    BY DEF Unmarshal
  <2> QED  BY <2>1, <2>2 DEF Over, FileTyped
<1>4. ASSUME NEW k \in DOMAIN cfg.intervals PROVE cfg.intervals[k] \in Int
  <2>1. cfg.intervals = Merged(file, "intervals", file.intervals, None)
    BY DEF Unmarshal, Defaults
  <2>2. DOMAIN None = {}
    BY DEF None
  <2> QED  BY <1>4, <2>1, <2>2 DEF Merged, Over, FileTyped
<1>5. ASSUME NEW n \in DOMAIN cfg.sources PROVE cfg.sources[n].interval \in Int
  <2> DEFINE elements == [m \in DOMAIN file.sources |-> FreshSource(file.sources[m])]
  <2>1. cfg.sources = Merged(file, "sources", elements, Defaults.sources)
    BY DEF Unmarshal
  <2>2. \A m \in DOMAIN Defaults.sources : Defaults.sources[m].interval \in Int
    BY ConfigAssumption DEF Defaults
  <2>3. "sources" \in DOMAIN file /\ file.sources # Null => \A m \in DOMAIN elements : elements[m].interval \in Int
    BY DEF FreshSource, FileTyped
  <2>4. DOMAIN None = {}
    BY DEF None
  <2> HIDE DEF elements
  <2> QED  BY <1>5, <2>1, <2>2, <2>3, <2>4 DEF Merged, Over
<1> QED  BY <1>1, <1>2, <1>3, <1>4, <1>5 DEF ConfigTyped

\* So do the variables, of which those that do not parse are dropped,
LEMMA OverrideTyped ==
    ASSUME NEW cfg, ConfigTyped(cfg), NEW env, EnvTyped(env)
    PROVE  ConfigTyped(ApplyEnvOverrides(cfg, env))
<1> DEFINE new == ApplyEnvOverrides(cfg, env)
<1>1. /\ DOMAIN new = Fields
      /\ new.window = cfg.window
      /\ new.scalars = Over(Parsed(env.scalars), cfg.scalars)
      /\ new.intervals = Over(Parsed(env.intervals), cfg.intervals)
  BY DEF ApplyEnvOverrides, ConfigTyped, Fields
<1>2. \A s \in DOMAIN Parsed(env.scalars) \cap Numbers : Parsed(env.scalars)[s] \in Int
  BY DEF Parsed, EnvTyped, Restrict
<1>3. \A k \in DOMAIN Parsed(env.intervals) : Parsed(env.intervals)[k] \in Int
  BY DEF Parsed, EnvTyped, Restrict
<1>4. Numbers \subseteq DOMAIN new.scalars /\ \A s \in Numbers : new.scalars[s] \in Int
  BY <1>1, <1>2 DEF Over, ConfigTyped
<1>5. \A k \in DOMAIN new.intervals : new.intervals[k] \in Int
  BY <1>1, <1>3 DEF Over, ConfigTyped
<1>6. ASSUME NEW n \in DOMAIN new.sources PROVE new.sources[n].interval \in Int
  <2>1. /\ n \in DOMAIN cfg.sources
        /\ new.sources[n] = IF n \in DOMAIN env.sources THEN EnvSource(cfg.sources[n], env.sources[n]) ELSE cfg.sources[n]
    BY <1>6 DEF ApplyEnvOverrides, ConfigTyped, Fields
  <2>2. cfg.sources[n].interval \in Int
    BY <2>1 DEF ConfigTyped
  <2>3. n \in DOMAIN env.sources => EnvSource(cfg.sources[n], env.sources[n]).interval \in Int
    BY <2>2 DEF EnvSource, Parsed, EnvTyped, Restrict
  <2> QED  BY <2>1, <2>2, <2>3
<1> QED  BY <1>1, <1>4, <1>5, <1>6 DEF ConfigTyped

\* and the merge of the source defaults.
LEMMA MergeTyped ==
    ASSUME NEW cfg, ConfigTyped(cfg)
    PROVE  ConfigTyped(MergeSourceDefaults(cfg))
<1> DEFINE new == MergeSourceDefaults(cfg)
<1>1. /\ DOMAIN new = Fields /\ new.window = cfg.window
      /\ new.scalars = cfg.scalars /\ new.intervals = cfg.intervals
  BY DEF MergeSourceDefaults, ConfigTyped, Fields
<1>2. ASSUME NEW n \in DOMAIN new.sources PROVE new.sources[n].interval \in Int
  <2>1. \A m \in SourceNames : DefaultIntervals[m] \in Int
    BY ConfigAssumption
  <2>2. \A m \in DOMAIN cfg.sources : cfg.sources[m].interval \in Int
    BY DEF ConfigTyped
  <2> QED  BY <1>2, <2>1, <2>2 DEF MergeSourceDefaults, ConfigTyped, Fields, Over, Defaults
<1> QED  BY <1>1, <1>2 DEF ConfigTyped

\* Every source has an entry after the merge.
LEMMA MergedDomain ==
    ASSUME NEW file, FileTyped(file), NEW env, EnvTyped(env)
    PROVE  SourceNames \subseteq DOMAIN MergeSourceDefaults(ApplyEnvOverrides(Unmarshal(Defaults, file), env)).sources
<1> DEFINE cfg == ApplyEnvOverrides(Unmarshal(Defaults, file), env)
<1>1. ConfigTyped(cfg)
  BY UnmarshalTyped, OverrideTyped
<1> HIDE DEF cfg
<1>2. SourceNames \subseteq DOMAIN MergeSourceDefaults(cfg).sources
  BY <1>1 DEF MergeSourceDefaults, ConfigTyped, Fields, Over, Defaults
<1> QED  BY <1>2 DEF cfg

\* After validateImageIntervals no positive image interval is below the floor.
LEMMA ClampTyped ==
    ASSUME NEW cfg, ConfigTyped(cfg)
    PROVE  /\ ConfigTyped(ValidateImageIntervals(cfg))
           /\ ValidateImageIntervals(cfg).scalars = cfg.scalars /\ ValidateImageIntervals(cfg).sources = cfg.sources
           /\ LET new == ValidateImageIntervals(cfg) IN
              \A k \in DOMAIN new.intervals : new.intervals[k] > 0 => new.intervals[k] >= Floor
<1> DEFINE new == ValidateImageIntervals(cfg)
<1>1. /\ DOMAIN new = Fields /\ new.window = cfg.window /\ new.scalars = cfg.scalars /\ new.sources = cfg.sources
      /\ new.intervals = [k \in DOMAIN cfg.intervals |-> IF 0 < cfg.intervals[k] /\ cfg.intervals[k] < Floor
                                                         THEN Floor ELSE cfg.intervals[k]]
  BY DEF ValidateImageIntervals, ConfigTyped, Fields
<1>2. \A k \in DOMAIN cfg.intervals : cfg.intervals[k] \in Int
  BY DEF ConfigTyped
<1>3. Floor \in Int
  BY ConfigAssumption
<1>4. \A k \in DOMAIN new.intervals : new.intervals[k] \in Int /\ (new.intervals[k] > 0 => new.intervals[k] >= Floor)
  BY <1>1, <1>2, <1>3
<1> QED  BY <1>1, <1>4 DEF ConfigTyped

\* The other validations leave a positive window and only entries that match.
LEMMA CleanedFacts ==
    ASSUME NEW cfg, ConfigTyped(cfg)
    PROVE  /\ ConfigTyped(Cleaned(cfg))
           /\ Cleaned(cfg).intervals = cfg.intervals
           /\ Cleaned(cfg).scalars = cfg.scalars /\ Cleaned(cfg).sources = cfg.sources
           /\ Cleaned(cfg).window > 0
           /\ Cleaned(cfg).region \subseteq Patterned
           /\ Cleaned(cfg).products \subseteq Patterned
<1> DEFINE new == Cleaned(cfg)
<1>1. /\ DOMAIN new = Fields /\ new.window = (IF cfg.window <= 0 THEN 24 ELSE cfg.window)
      /\ new.scalars = cfg.scalars /\ new.intervals = cfg.intervals /\ new.sources = cfg.sources
      /\ new.region = cfg.region \cap Patterned /\ new.products = cfg.products \cap Patterned
  BY DEF Cleaned, ConfigTyped, Fields
<1>2. new.window \in Int /\ new.window > 0
  BY <1>1 DEF ConfigTyped
<1> QED  BY <1>1, <1>2 DEF ConfigTyped

(* What the rest of the proof needs of a configuration that was loaded.    *)
Usable(cfg) ==
    /\ \A n \in SourceNames : SourceInterval(cfg, n) \in Int /\ SourceInterval(cfg, n) > 0
    /\ \A k \in DOMAIN Registry : ImageInterval(cfg, k) \in Int /\ ImageInterval(cfg, k) >= Floor /\ ~JitterPanics(ImageInterval(cfg, k))
    /\ Caps(cfg).disk > 0 /\ Caps(cfg).hot >= 0 /\ Caps(cfg).entries >= 0
    /\ cfg.scalars.retention_days > 0 /\ cfg.window > 0
    /\ cfg.region \subseteq Patterned /\ cfg.products \subseteq Patterned

(* What LoadWithLogger reads in setup s, and merges.                       *)
FileOf(s) == LET path == ResolveConfigPath(Setups[s].env, Setups[s].files)
             IN IF path = "" THEN None ELSE Setups[s].files[path]
MergedOf(s) == MergeSourceDefaults(ApplyEnvOverrides(Unmarshal(Defaults, FileOf(s)), Setups[s].env))

\* LoadWithLogger returns an error or what it merged, clamped, cleaned and
\* accepted.
LEMMA WhatLoads ==
    ASSUME NEW s \in DOMAIN Setups, Loaded[s] # <<>>
    PROVE  /\ Loaded[s][1] = Cleaned(ValidateImageIntervals(MergedOf(s)))
           /\ Validate(Loaded[s][1])
           /\ FileTyped(FileOf(s)) /\ EnvTyped(Setups[s].env)
<1> DEFINE env == Setups[s].env
           files == Setups[s].files
           path == ResolveConfigPath(env, files)
           cfg == Cleaned(ValidateImageIntervals(MergedOf(s)))
<1>1. Loaded[s] = Load(env, files)
  BY DEF Loaded
<1>2. /\ path = "" \/ (path \in DOMAIN files /\ files[path] # Invalid)
      /\ Validate(cfg)
      /\ Loaded[s] = <<cfg>>
  BY <1>1, Zenon DEF Load, MergedOf, FileOf
<1>3. Loaded[s][1] = cfg
  <2>1. Loaded[s] = <<cfg>>
    BY <1>2
  <2> HIDE DEF cfg
  <2> QED  BY <2>1
<1>4. FileTyped(FileOf(s))
  <2>1. FileTyped(None)
    BY DEF FileTyped, None
  <2> QED  BY <1>2, <2>1, SetupsAssumption DEF FileOf
<1>5. EnvTyped(env)
  BY SetupsAssumption
<1> QED  BY <1>2, <1>3, <1>4, <1>5

\* Whatever the file and the environment say: LoadWithLogger returns an error
\* or a configuration the server can run with.
LEMMA LoadedIsUsable ==
    ASSUME NEW s \in DOMAIN Setups, Loaded[s] # <<>>
    PROVE  Usable(Loaded[s][1])
<1> DEFINE merged == MergedOf(s)
           clamped == ValidateImageIntervals(merged)
           cfg == Cleaned(clamped)
<1>1. Loaded[s][1] = cfg /\ Validate(cfg)
  BY WhatLoads
<1>6. ConfigTyped(merged)
  BY WhatLoads, UnmarshalTyped, OverrideTyped, MergeTyped DEF MergedOf
<1>7. ConfigTyped(clamped) /\ \A k \in DOMAIN clamped.intervals : clamped.intervals[k] > 0 => clamped.intervals[k] >= Floor
  BY <1>6, ClampTyped
<1>8. /\ ConfigTyped(cfg) /\ cfg.intervals = clamped.intervals /\ cfg.sources = merged.sources
      /\ cfg.window > 0 /\ cfg.region \subseteq Patterned /\ cfg.products \subseteq Patterned
  <2>1. clamped.sources = merged.sources
    BY <1>6, ClampTyped
  <2> HIDE DEF clamped
  <2> QED  BY <1>7, <2>1, CleanedFacts
<1>2. SourceNames \subseteq DOMAIN cfg.sources
  BY <1>8, WhatLoads, MergedDomain DEF MergedOf
<1> HIDE DEF cfg, clamped, merged
<1>9. ASSUME NEW n \in SourceNames PROVE SourceInterval(cfg, n) \in Int /\ SourceInterval(cfg, n) > 0
  <2>1. DefaultIntervals[n] \in Nat \ {0} /\ cfg.sources[n].interval \in Int
    BY <1>8, <1>2, ConfigAssumption DEF ConfigTyped
  <2> QED  BY <2>1 DEF SourceInterval
<1>10. ASSUME NEW k \in DOMAIN Registry
       PROVE  ImageInterval(cfg, k) \in Int /\ ImageInterval(cfg, k) >= Floor /\ ~JitterPanics(ImageInterval(cfg, k))
  <2>1. Floor \in Nat /\ Floor >= 4 /\ Registry[k] \in Nat /\ Registry[k] >= Floor
    BY ConfigAssumption
  <2>2. ImageInterval(cfg, k) \in Int /\ ImageInterval(cfg, k) >= Floor
    BY <1>7, <1>8, <2>1 DEF ImageInterval, ConfigTyped
  <2> QED  BY <2>1, <2>2 DEF JitterPanics
<1>11. /\ cfg.scalars.retention_days > 0 /\ cfg.scalars.disk_max_bytes > 0
       /\ cfg.scalars.hot_max_bytes >= 0 /\ cfg.scalars.hot_max_entries >= 0
  BY <1>1 DEF Validate
<1>12. cfg.scalars.hot_max_bytes \in Int /\ cfg.scalars.hot_max_entries \in Int
  BY <1>8 DEF ConfigTyped, Numbers
<1>13. Caps(cfg).disk > 0 /\ Caps(cfg).hot >= 0 /\ Caps(cfg).entries >= 0
  <2>1. Defaults.scalars.disk_max_bytes = 500 /\ Defaults.scalars.hot_max_bytes = 64 /\ Defaults.scalars.hot_max_entries = 256
    BY DEF Defaults
  <2> QED  BY <1>11, <1>12, <2>1 DEF Caps, OrDefault
<1> QED  BY <1>1, <1>8, <1>9, <1>10, <1>11, <1>13 DEF Usable
---------------------------------------------------------------------------
(* The order of the layers.                                                *)

(* What the file and the environment say of source n; the environment is not *)
(* asked where the file has emptied the map.                               *)
Emptied(file) == "sources" \in DOMAIN file /\ file.sources = Null
FileSays(file, n) ==
    IF "sources" \in DOMAIN file /\ ~Emptied(file) /\ n \in DOMAIN file.sources THEN file.sources[n] ELSE None
EnvSays(file, env, n) ==
    IF ~Emptied(file) /\ n \in DOMAIN env.sources THEN Parsed(env.sources[n]) ELSE None
GivenBy(file, env, n, field) ==
    IF field \in DOMAIN EnvSays(file, env, n) THEN <<EnvSays(file, env, n)[field]>>
    ELSE IF field \in DOMAIN FileSays(file, n) THEN <<FileSays(file, n)[field]>>
    ELSE None

\* Each field of a source that was decoded and overridden is what the layers
\* gave, and zero or nil, or the default, where they gave nothing.
LEMMA OverriddenSource ==
    ASSUME NEW file, FileTyped(file), NEW env, NEW n \in SourceNames, ~Emptied(file)
    PROVE  LET src == ApplyEnvOverrides(Unmarshal(Defaults, file), env).sources
               Given(field) == GivenBy(file, env, n, field)
           IN /\ n \in DOMAIN src
              /\ src[n].enabled = Given("enabled") \/ (Given("enabled") = None /\ src[n].enabled = <<TRUE>>)
              /\ IF Given("interval") # None THEN src[n].interval = Given("interval")[1]
                 ELSE src[n].interval \in {0, DefaultIntervals[n]}
<1> DEFINE elements == [m \in DOMAIN file.sources |-> FreshSource(file.sources[m])]
           cfg == Unmarshal(Defaults, file)
           old == cfg.sources[n]
           new == ApplyEnvOverrides(cfg, env)
           set == Parsed(env.sources[n])
<1>1. ConfigTyped(cfg)
  BY UnmarshalTyped
<1>2. /\ n \in DOMAIN cfg.sources
      /\ old = IF "sources" \in DOMAIN file /\ n \in DOMAIN file.sources THEN FreshSource(file.sources[n])
               ELSE [interval |-> DefaultIntervals[n], enabled |-> <<TRUE>>]
  <2>1. cfg.sources = Merged(file, "sources", elements, Defaults.sources)
    BY DEF Unmarshal
  <2>2. n \in DOMAIN Defaults.sources /\ Defaults.sources[n] = [interval |-> DefaultIntervals[n], enabled |-> <<TRUE>>]
    BY DEF Defaults
  <2> HIDE DEF cfg
  <2> QED  BY <2>1, <2>2 DEF Merged, Over, Emptied
<1>3. /\ n \in DOMAIN new.sources
      /\ new.sources[n] = IF n \in DOMAIN env.sources THEN EnvSource(old, env.sources[n]) ELSE old
  <2> HIDE DEF cfg
  <2> QED  BY <1>1, <1>2 DEF ApplyEnvOverrides, ConfigTyped, Fields
<1> HIDE DEF cfg, new, old
<1>4. FileSays(file, n) = IF "sources" \in DOMAIN file /\ n \in DOMAIN file.sources THEN file.sources[n] ELSE None
  BY DEF FileSays, Emptied
<1>5. EnvSays(file, env, n) = IF n \in DOMAIN env.sources THEN set ELSE None
  BY DEF EnvSays
<1>6. DOMAIN None = {} /\ \A x : <<x>> # None /\ <<x>>[1] = x
  BY DEF None
<1>7. old.enabled = (IF "enabled" \in DOMAIN FileSays(file, n) THEN <<FileSays(file, n).enabled>>
                     ELSE IF "sources" \in DOMAIN file /\ n \in DOMAIN file.sources THEN None ELSE <<TRUE>>)
  BY <1>2, <1>4, <1>6 DEF FreshSource
<1>8. IF "interval" \in DOMAIN FileSays(file, n) THEN old.interval = FileSays(file, n).interval
      ELSE old.interval \in {0, DefaultIntervals[n]}
  BY <1>2, <1>4, <1>6 DEF FreshSource
<1>9. new.sources[n].enabled = (IF "enabled" \in DOMAIN EnvSays(file, env, n) THEN <<EnvSays(file, env, n).enabled>> ELSE old.enabled)
  BY <1>3, <1>5, <1>6 DEF EnvSource
<1>10. new.sources[n].interval = (IF "interval" \in DOMAIN EnvSays(file, env, n) THEN EnvSays(file, env, n).interval ELSE old.interval)
  BY <1>3, <1>5, <1>6 DEF EnvSource
<1> DEFINE e == EnvSays(file, env, n)
           f == FileSays(file, n)
           given(field) == GivenBy(file, env, n, field)
<1>11. ASSUME NEW field
       PROVE  /\ field \in DOMAIN e => given(field) = <<e[field]>>
              /\ field \notin DOMAIN e /\ field \in DOMAIN f => given(field) = <<f[field]>>
              /\ field \notin DOMAIN e /\ field \notin DOMAIN f => given(field) = None
  BY DEF GivenBy
<1> HIDE DEF e, f, given
<1>12. new.sources[n].enabled = given("enabled") \/ (given("enabled") = None /\ new.sources[n].enabled = <<TRUE>>)
  <2>1. new.sources[n].enabled = (IF "enabled" \in DOMAIN e THEN <<e.enabled>> ELSE old.enabled)
    BY <1>9 DEF e
  <2>2. "enabled" \in DOMAIN f => old.enabled = <<f.enabled>>
    BY <1>7 DEF f
  <2>3. "enabled" \notin DOMAIN f => old.enabled = None \/ old.enabled = <<TRUE>>
    BY <1>7 DEF f
  <2>4. CASE "enabled" \in DOMAIN e
    BY <1>11, <2>1, <2>4
  <2>5. CASE "enabled" \notin DOMAIN e /\ "enabled" \in DOMAIN f
    BY <1>11, <2>1, <2>2, <2>5
  <2>6. CASE "enabled" \notin DOMAIN e /\ "enabled" \notin DOMAIN f
    BY <1>11, <2>1, <2>3, <2>6
  <2> QED  BY <2>4, <2>5, <2>6
<1>13. IF given("interval") # None THEN new.sources[n].interval = given("interval")[1]
       ELSE new.sources[n].interval \in {0, DefaultIntervals[n]}
  <2>1. CASE "interval" \in DOMAIN e
    <3>1. new.sources[n].interval = e.interval /\ given("interval") = <<e.interval>>
      BY <1>10, <1>11, <2>1 DEF e
    <3> QED  BY <1>6, <3>1, Zenon
  <2>2. CASE "interval" \notin DOMAIN e /\ "interval" \in DOMAIN f
    <3>1. new.sources[n].interval = f.interval /\ given("interval") = <<f.interval>>
      BY <1>8, <1>10, <1>11, <2>2 DEF e, f
    <3> QED  BY <1>6, <3>1, Zenon
  <2>3. CASE "interval" \notin DOMAIN e /\ "interval" \notin DOMAIN f
    <3>1. new.sources[n].interval \in {0, DefaultIntervals[n]} /\ given("interval") = None
      BY <1>8, <1>10, <1>11, <2>3 DEF e, f
    <3> QED  BY <3>1
  <2> QED  BY <2>1, <2>2, <2>3
<1> QED  BY <1>3, <1>12, <1>13 DEF new, cfg, given

\* The merge fills in what is zero or nil, and the whole source where the file
\* has emptied the map.
LEMMA MergedSource ==
    ASSUME NEW file, FileTyped(file), NEW env, EnvTyped(env), NEW n \in SourceNames
    PROVE  LET src == MergeSourceDefaults(ApplyEnvOverrides(Unmarshal(Defaults, file), env)).sources
               Given(field) == GivenBy(file, env, n, field)
           IN /\ src[n].enabled = IF Given("enabled") = None THEN <<TRUE>> ELSE Given("enabled")
              /\ src[n].interval = IF Given("interval") = None \/ Given("interval")[1] = 0 THEN DefaultIntervals[n]
                                   ELSE Given("interval")[1]
<1> DEFINE cfg == ApplyEnvOverrides(Unmarshal(Defaults, file), env)
           new == MergeSourceDefaults(cfg)
           old == cfg.sources[n]
           yes == <<TRUE>>
<1>1. ConfigTyped(cfg)
  BY UnmarshalTyped, OverrideTyped
<1>2. Defaults.sources[n] = [interval |-> DefaultIntervals[n], enabled |-> yes]
      /\ DOMAIN Defaults.sources = SourceNames
  BY DEF Defaults
<1> HIDE DEF yes
<1> DEFINE Filled(s, d) == [interval |-> IF s.interval = 0 THEN d.interval ELSE s.interval,
                            enabled  |-> IF s.enabled = None THEN d.enabled ELSE s.enabled]
           filled == [m \in SourceNames \cap DOMAIN cfg.sources |-> Filled(cfg.sources[m], Defaults.sources[m])]
<1>3. /\ n \notin DOMAIN cfg.sources => new.sources[n] = Defaults.sources[n]
      /\ n \in DOMAIN cfg.sources => new.sources[n] = Filled(old, Defaults.sources[n])
  <2> HIDE DEF cfg
  <2>1. new.sources = Over(filled, Over(cfg.sources, Defaults.sources))
    <3>1. "sources" \in DOMAIN cfg
      BY <1>1 DEF ConfigTyped, Fields
    <3> QED  BY <3>1 DEF MergeSourceDefaults
  <2>2. DOMAIN filled = SourceNames \cap DOMAIN cfg.sources
        /\ (n \in DOMAIN filled => filled[n] = Filled(old, Defaults.sources[n]))
    OBVIOUS
  <2> HIDE DEF filled, new, old, Filled
  <2> QED  BY <1>2, <2>1, <2>2 DEF Over
<1>4. DOMAIN None = {} /\ \A x : <<x>> # None /\ <<x>>[1] = x
  BY DEF None
<1>5. CASE Emptied(file)
  <2>1. DOMAIN cfg.sources = {}
    <3>1. Unmarshal(Defaults, file).sources = None
      BY <1>5 DEF Unmarshal, Merged, Emptied
    <3>2. DOMAIN Unmarshal(Defaults, file) = Fields
      BY UnmarshalTyped DEF ConfigTyped
    <3> QED  BY <3>1, <3>2, <1>4 DEF ApplyEnvOverrides, Fields
  <2>2. \A field : GivenBy(file, env, n, field) = None
    BY <1>4, <1>5 DEF GivenBy, EnvSays, FileSays
  <2> HIDE DEF cfg, new, old, Filled
  <2>4. new.sources[n] = [interval |-> DefaultIntervals[n], enabled |-> yes]
    BY <1>2, <1>3, <2>1
  <2>3. /\ new.sources[n].enabled = yes /\ new.sources[n].interval = DefaultIntervals[n]
    BY <2>4
  <2> QED  BY <2>2, <2>3 DEF new, cfg, yes
<1>6. CASE ~Emptied(file)
  <2> DEFINE Given(field) == GivenBy(file, env, n, field)
  <2>1. /\ n \in DOMAIN cfg.sources
        /\ old.enabled = Given("enabled") \/ (Given("enabled") = None /\ old.enabled = yes)
        /\ IF Given("interval") # None THEN old.interval = Given("interval")[1]
           ELSE old.interval \in {0, DefaultIntervals[n]}
    BY <1>6, OverriddenSource DEF yes
  <2>3. /\ new.sources[n].enabled = (IF old.enabled = None THEN yes ELSE old.enabled)
        /\ new.sources[n].interval = (IF old.interval = 0 THEN DefaultIntervals[n] ELSE old.interval)
    <3>1. new.sources[n] = Filled(old, Defaults.sources[n])
      BY <1>3, <2>1
    <3>2. Defaults.sources[n].interval = DefaultIntervals[n] /\ Defaults.sources[n].enabled = yes
      BY <1>2
    <3> HIDE DEF cfg, new, old
    <3> QED  BY <3>1, <3>2
  <2> HIDE DEF cfg, new, old, Given
  <2>2. /\ new.sources[n].enabled = (IF Given("enabled") = None THEN yes ELSE Given("enabled"))
        /\ new.sources[n].interval = (IF Given("interval") = None \/ Given("interval")[1] = 0 THEN DefaultIntervals[n]
                                      ELSE Given("interval")[1])
    BY <1>4, <2>1, <2>3
  <2> QED  BY <2>2 DEF new, cfg, Given, yes
<1> QED  BY <1>5, <1>6

\* The scalars of a merged configuration: the environment's, the file's, the
\* defaults, in this order.
LEMMA MergedScalars ==
    ASSUME NEW file, FileTyped(file), NEW env, EnvTyped(env)
    PROVE  MergeSourceDefaults(ApplyEnvOverrides(Unmarshal(Defaults, file), env)).scalars
              = Over(Parsed(env.scalars), IF "scalars" \in DOMAIN file THEN Over(file.scalars, Defaults.scalars)
                                          ELSE Defaults.scalars)
<1> DEFINE cfg == Unmarshal(Defaults, file)
           new == ApplyEnvOverrides(cfg, env)
<1>1. ConfigTyped(cfg) /\ ConfigTyped(new)
  BY UnmarshalTyped, OverrideTyped
<1>2. cfg.scalars = IF "scalars" \in DOMAIN file THEN Over(file.scalars, Defaults.scalars) ELSE Defaults.scalars
  BY DEF Unmarshal
<1> HIDE DEF cfg
<1>3. new.scalars = Over(Parsed(env.scalars), cfg.scalars)
  BY <1>1 DEF ApplyEnvOverrides, ConfigTyped, Fields
<1> HIDE DEF new
<1>4. MergeSourceDefaults(new).scalars = new.scalars
  BY <1>1 DEF MergeSourceDefaults, ConfigTyped, Fields
<1> QED  BY <1>2, <1>3, <1>4 DEF new, cfg

\* The settings without variables of their own fields, before they are cleaned.
Listing(file, s) == IF s \notin DOMAIN file THEN Defaults[s] ELSE IF file[s] = Null THEN {} ELSE file[s]
LEMMA MergedRest ==
    ASSUME NEW file, FileTyped(file), NEW env, EnvTyped(env),
           NEW merged, merged = MergeSourceDefaults(ApplyEnvOverrides(Unmarshal(Defaults, file), env))
    PROVE  /\ merged.window = IF "window" \in DOMAIN file THEN file.window ELSE Defaults.window
           /\ merged.products = Listing(file, "products")
           /\ merged.region = Listing(file, "region")
           /\ merged.prewarm = IF env.prewarm = None THEN Listing(file, "prewarm") ELSE env.prewarm[1]
           /\ LET given == Over(Parsed(env.intervals), Layer(file, "intervals"))
              IN /\ DOMAIN merged.intervals = DOMAIN given
                 /\ \A k \in DOMAIN given : merged.intervals[k] = given[k]
<1> DEFINE cfg == Unmarshal(Defaults, file)
           new == ApplyEnvOverrides(cfg, env)
<1>1. ConfigTyped(cfg) /\ ConfigTyped(new)
  BY UnmarshalTyped, OverrideTyped
<1>2. DOMAIN None = {}
  BY DEF None
<1>3. /\ cfg.window = IF "window" \in DOMAIN file THEN file.window ELSE Defaults.window
      /\ cfg.products = Listing(file, "products")
      /\ cfg.region = Listing(file, "region")
      /\ cfg.prewarm = Listing(file, "prewarm")
  BY DEF Unmarshal, Replaced, Listing, Defaults
<1>4. /\ DOMAIN cfg.intervals = DOMAIN Layer(file, "intervals")
      /\ \A k \in DOMAIN cfg.intervals : cfg.intervals[k] = Layer(file, "intervals")[k]
  <2>1. cfg.intervals = Merged(file, "intervals", file.intervals, None)
    BY DEF Unmarshal, Defaults
  <2> HIDE DEF cfg
  <2> QED  BY <1>2, <2>1 DEF Merged, Layer, Over
<1> HIDE DEF cfg
<1>5. /\ new.window = cfg.window /\ new.products = cfg.products /\ new.region = cfg.region
      /\ new.prewarm = (IF env.prewarm = None THEN cfg.prewarm ELSE env.prewarm[1])
      /\ new.intervals = Over(Parsed(env.intervals), cfg.intervals)
  BY <1>1 DEF ApplyEnvOverrides, ConfigTyped, Fields
<1> HIDE DEF new
<1>6. /\ merged.window = new.window /\ merged.products = new.products /\ merged.region = new.region
      /\ merged.prewarm = new.prewarm /\ merged.intervals = new.intervals
  <2>1. merged = MergeSourceDefaults(new)
    BY DEF new, cfg
  <2> QED  BY <1>1, <2>1 DEF MergeSourceDefaults, ConfigTyped, Fields
<1> DEFINE given == Over(Parsed(env.intervals), Layer(file, "intervals"))
<1>7. DOMAIN merged.intervals = DOMAIN given /\ \A k \in DOMAIN given : merged.intervals[k] = given[k]
  BY <1>4, <1>5, <1>6 DEF Over
<1> QED  BY <1>3, <1>5, <1>6, <1>7

\* What the validations leave of them.
LEMMA CleanedRest ==
    ASSUME NEW cfg, ConfigTyped(cfg), NEW new, new = Cleaned(ValidateImageIntervals(cfg))
    PROVE  /\ new.window = IF cfg.window > 0 THEN cfg.window ELSE 24
           /\ new.products = cfg.products \cap Patterned
           /\ new.region = cfg.region \cap Patterned
           /\ new.prewarm = cfg.prewarm \cap DOMAIN Registry
           /\ new.scalars = cfg.scalars
           /\ DOMAIN new.intervals = DOMAIN cfg.intervals
           /\ \A k \in DOMAIN cfg.intervals :
                 new.intervals[k] = IF 0 < cfg.intervals[k] /\ cfg.intervals[k] < Floor THEN Floor ELSE cfg.intervals[k]
<1> DEFINE clamped == ValidateImageIntervals(cfg)
<1>1. /\ clamped.window = cfg.window /\ clamped.products = cfg.products /\ clamped.region = cfg.region
      /\ clamped.prewarm = cfg.prewarm /\ clamped.scalars = cfg.scalars
      /\ clamped.intervals = [k \in DOMAIN cfg.intervals |->
                                 IF 0 < cfg.intervals[k] /\ cfg.intervals[k] < Floor THEN Floor ELSE cfg.intervals[k]]
      /\ DOMAIN clamped = Fields
  BY DEF ValidateImageIntervals, ConfigTyped, Fields
<1>2. new = Cleaned(clamped)
  OBVIOUS
<1> HIDE DEF clamped
<1>3. /\ new.window = (IF clamped.window <= 0 THEN 24 ELSE clamped.window)
      /\ new.products = clamped.products \cap Patterned /\ new.region = clamped.region \cap Patterned
      /\ new.prewarm = clamped.prewarm \cap DOMAIN Registry
      /\ new.scalars = clamped.scalars /\ new.intervals = clamped.intervals
  BY <1>1, <1>2 DEF Cleaned, Fields
<1>4. cfg.window \in Int
  BY DEF ConfigTyped
<1> QED  BY <1>1, <1>3, <1>4

\* What a process runs with is what the layers say, in their order: LayersInOrder
\* is about the constants only.
LEMMA LayersHold ==
    ASSUME setup \in DOMAIN Setups, Loads
    PROVE  LayersInOrder
<1> DEFINE given(n, field) == GivenBy(File, Env, n, field)
<1>1. File = FileOf(setup) /\ Env = Setups[setup].env
  BY DEF File, Env, FileOf
<1>2. FileTyped(File) /\ EnvTyped(Env)
  BY <1>1, WhatLoads DEF Loads
<1> DEFINE merged == MergeSourceDefaults(ApplyEnvOverrides(Unmarshal(Defaults, File), Env))
<1>3. Cfg.scalars = merged.scalars /\ Cfg.sources = merged.sources
  <2>1. Cfg = Cleaned(ValidateImageIntervals(merged))
    BY <1>1, WhatLoads DEF Loads, Cfg, MergedOf
  <2>2. ConfigTyped(merged)
    BY <1>2, UnmarshalTyped, OverrideTyped, MergeTyped
  <2> HIDE DEF merged
  <2> QED  BY <2>1, <2>2, ClampTyped, CleanedFacts
<1>4. ASSUME NEW n \in SourceNames
      PROVE  /\ Cfg.sources[n].enabled = IF given(n, "enabled") = None THEN <<TRUE>> ELSE given(n, "enabled")
             /\ Cfg.sources[n].interval = IF given(n, "interval") = None \/ given(n, "interval")[1] = 0
                                          THEN DefaultIntervals[n] ELSE given(n, "interval")[1]
  BY <1>2, <1>3, MergedSource
<1>5. Cfg.scalars = Over(Parsed(Env.scalars), IF "scalars" \in DOMAIN File THEN Over(File.scalars, Defaults.scalars)
                                              ELSE Defaults.scalars)
  BY <1>2, <1>3, MergedScalars
<1> DEFINE fileScalars == IF "scalars" \in DOMAIN File THEN File.scalars ELSE None
           fileSources == Layer(File, "sources")
           envSources == IF "sources" \in DOMAIN File /\ File.sources = Null THEN None
                         ELSE [n \in DOMAIN Env.sources |-> Parsed(Env.sources[n])]
           Given(n, field) == IF SaysOf(envSources, n, field) THEN <<envSources[n][field]>>
                              ELSE IF SaysOf(fileSources, n, field) THEN <<fileSources[n][field]>>
                              ELSE None
<1>6. DOMAIN None = {} /\ \A x : <<x>> # None /\ <<x>>[1] = x
  BY DEF None
<1>7. ASSUME NEW n \in SourceNames, NEW field PROVE Given(n, field) = given(n, field)
  <2>1. SaysOf(envSources, n, field) <=> field \in DOMAIN EnvSays(File, Env, n)
    BY <1>6 DEF SaysOf, EnvSays, Emptied
  <2>2. SaysOf(envSources, n, field) => envSources[n][field] = EnvSays(File, Env, n)[field]
    BY <1>6 DEF SaysOf, EnvSays, Emptied
  <2>3. SaysOf(fileSources, n, field) <=> field \in DOMAIN FileSays(File, n)
    BY <1>6 DEF SaysOf, FileSays, Emptied, Layer
  <2>4. SaysOf(fileSources, n, field) => fileSources[n][field] = FileSays(File, n)[field]
    BY <1>6 DEF SaysOf, FileSays, Emptied, Layer
  <2> HIDE DEF envSources, fileSources
  <2> QED  BY <2>1, <2>2, <2>3, <2>4 DEF GivenBy
<1>8. ASSUME NEW s \in DOMAIN Defaults.scalars
      PROVE  Cfg.scalars[s] = Over(Parsed(Env.scalars), Over(fileScalars, Defaults.scalars))[s]
  BY <1>5, <1>6, <1>8 DEF Over
<1> HIDE DEF fileScalars, Given, given
<1>9. ASSUME NEW n \in SourceNames
      PROVE  /\ n \in Enabled(Cfg) <=> Given(n, "enabled") # <<FALSE>>
             /\ SourceInterval(Cfg, n) = IF Given(n, "interval") # None /\ Given(n, "interval")[1] > 0
                                         THEN Given(n, "interval")[1] ELSE DefaultIntervals[n]
  <2>1. <<TRUE>> # <<FALSE>> /\ None # <<FALSE>>
    BY <1>6
  <2>2. DefaultIntervals[n] \in Nat \ {0} /\ ~(0 > 0)
    BY ConfigAssumption
  <2>3. Given(n, "enabled") = given(n, "enabled") /\ Given(n, "interval") = given(n, "interval")
    BY <1>7
  <2> QED  BY <1>4, <2>1, <2>2, <2>3 DEF Enabled, SourceInterval
<1> DEFINE scalars == Over(Parsed(Env.scalars), Over(fileScalars, Defaults.scalars))
           intervals == Over(Parsed(Env.intervals), Layer(File, "intervals"))
<1>10. ConfigTyped(merged) /\ Cfg = Cleaned(ValidateImageIntervals(merged)) /\ Validate(Cfg)
  <2>1. Cfg = Cleaned(ValidateImageIntervals(merged)) /\ Validate(Cfg)
    BY <1>1, WhatLoads DEF Loads, Cfg, MergedOf
  <2>2. ConfigTyped(merged)
    BY <1>2, UnmarshalTyped, OverrideTyped, MergeTyped
  <2> QED  BY <2>1, <2>2
<1>11. /\ merged.window = IF "window" \in DOMAIN File THEN File.window ELSE Defaults.window
       /\ merged.products = Listing(File, "products") /\ merged.region = Listing(File, "region")
       /\ merged.prewarm = (IF Env.prewarm = None THEN Listing(File, "prewarm") ELSE Env.prewarm[1])
       /\ DOMAIN merged.intervals = DOMAIN intervals
       /\ \A k \in DOMAIN intervals : merged.intervals[k] = intervals[k]
  BY <1>2, MergedRest
<1> HIDE DEF merged
<1>12. /\ Cfg.window = IF merged.window > 0 THEN merged.window ELSE 24
       /\ Cfg.products = merged.products \cap Patterned /\ Cfg.region = merged.region \cap Patterned
       /\ Cfg.prewarm = merged.prewarm \cap DOMAIN Registry
       /\ Cfg.scalars = merged.scalars
       /\ DOMAIN Cfg.intervals = DOMAIN merged.intervals
       /\ \A k \in DOMAIN merged.intervals :
             Cfg.intervals[k] = IF 0 < merged.intervals[k] /\ merged.intervals[k] < Floor THEN Floor
                                ELSE merged.intervals[k]
  BY <1>10, CleanedRest
<1>13. ASSUME NEW k \in DOMAIN Registry
       PROVE  ImageInterval(Cfg, k) = IF k \notin DOMAIN intervals \/ intervals[k] <= 0 THEN Registry[k]
                                      ELSE IF intervals[k] < Floor THEN Floor ELSE intervals[k]
  <2>1. Floor \in Nat /\ Floor > 0
    BY ConfigAssumption
  <2>2. k \in DOMAIN merged.intervals => merged.intervals[k] \in Int
    BY <1>10 DEF ConfigTyped
  <2> HIDE DEF intervals
  <2> QED  BY <1>11, <1>12, <2>1, <2>2 DEF ImageInterval
<1>14. /\ Caps(Cfg).disk = scalars.disk_max_bytes
       /\ scalars.hot_max_bytes # 0 => Caps(Cfg).hot = scalars.hot_max_bytes
       /\ scalars.hot_max_entries # 0 => Caps(Cfg).entries = scalars.hot_max_entries
  <2>1. {"disk_max_bytes", "hot_max_bytes", "hot_max_entries"} \subseteq DOMAIN Defaults.scalars
    BY DEF Defaults
  <2>2. /\ Cfg.scalars.disk_max_bytes = scalars.disk_max_bytes
        /\ Cfg.scalars.hot_max_bytes = scalars.hot_max_bytes
        /\ Cfg.scalars.hot_max_entries = scalars.hot_max_entries
    BY <1>8, <2>1
  <2>3. Cfg.scalars.disk_max_bytes \in Int /\ Cfg.scalars.hot_max_bytes \in Int /\ Cfg.scalars.hot_max_entries \in Int
    BY <1>10, <1>12 DEF ConfigTyped, Numbers
  <2>4. Cfg.scalars.disk_max_bytes > 0 /\ Cfg.scalars.hot_max_bytes >= 0 /\ Cfg.scalars.hot_max_entries >= 0
    BY <1>10 DEF Validate
  <2>5. \A x \in Int : x >= 0 /\ x # 0 => ~(x <= 0)
    OBVIOUS
  <2> HIDE DEF scalars
  <2> QED  BY <2>2, <2>3, <2>4, <2>5 DEF Caps, OrDefault
<1>15. /\ Polled(Cfg) = (IF Env.prewarm # None THEN Env.prewarm[1] ELSE Listing(File, "prewarm")) \cap DOMAIN Registry
       /\ Cfg.window = IF "window" \in DOMAIN File /\ File.window > 0 THEN File.window ELSE Defaults.window
       /\ Cfg.products = Listing(File, "products") \cap Patterned
       /\ Cfg.region = Listing(File, "region") \cap Patterned
  <2>1. Defaults.window = 24
    BY DEF Defaults
  <2> QED  BY <1>11, <1>12, <2>1 DEF Polled
<1> HIDE DEF scalars, intervals
<1> QED  BY <1>8, <1>9, <1>13, <1>14, <1>15 DEF LayersInOrder, Given, fileScalars, scalars, intervals, Listing
---------------------------------------------------------------------------
(* What the backoff computes, for every interval and every number of       *)
(* failures: its recursion has this closed form.                           *)

Closed(base, i) == IF i <= 1 THEN base ELSE IF i = 2 THEN 2 * base ELSE IF i = 3 THEN 4 * base ELSE 5 * base

\* Doubled from the second failure on, and cut at five intervals after the
\* doubling.
LEMMA BackoffIs ==
    ASSUME NEW base \in Nat, NEW failures \in Nat
    PROVE  Backoff(base, failures) = Closed(base, failures)
<1> DEFINE rule(d, i) == IF i <= 1 THEN base ELSE IF 2 * d[i - 1] > 5 * base THEN 5 * base ELSE 2 * d[i - 1]
           closed == [i \in 0..failures |-> Closed(base, i)]
           d == CHOOSE f : f = [i \in 0..failures |-> rule(f, i)]
<1>1. closed = [i \in 0..failures |-> rule(closed, i)]
  <2>1. ASSUME NEW i \in 0..failures PROVE Closed(base, i) = rule(closed, i)
    <3>1. CASE i <= 1
      BY <3>1 DEF Closed
    <3>2. CASE i > 1
      <4>1. closed[i - 1] = Closed(base, i - 1)
        BY <3>2
      <4> HIDE DEF closed
      <4>2. Closed(base, i) = IF 2 * Closed(base, i - 1) > 5 * base THEN 5 * base ELSE 2 * Closed(base, i - 1)
        BY <3>2 DEF Closed
      <4> QED  BY <3>2, <4>1, <4>2
    <3> QED  BY <3>1, <3>2
  <2> QED  BY <2>1
<1>2. d = [i \in 0..failures |-> rule(d, i)]
  <2> HIDE DEF closed, rule
  <2> QED  BY <1>1, Zenon
<1>3. Backoff(base, failures) = d[failures]
  BY DEF Backoff
<1>4. \A i \in 0..failures : d[i] = rule(d, i)
  <2> HIDE DEF d, rule
  <2> QED  BY <1>2
<1> DEFINE Wrong == {i \in 0..failures : d[i] # Closed(base, i)}
<1>5. Wrong = {}
  <2>1. SUFFICES ASSUME Wrong # {} PROVE FALSE
    OBVIOUS
  <2> HIDE DEF d
  <2>2. Wrong \subseteq Nat
    OBVIOUS
  <2>3. IsWellFoundedOn(OpToRel(<, Nat), Nat)
    BY NatLessThanWellFounded
  <2>4. PICK i \in Wrong : \A j \in Wrong : <<j, i>> \notin OpToRel(<, Nat)
    <3> HIDE DEF Wrong
    <3> QED  BY <2>1, <2>2, <2>3, WFMin
  <2>5. i \in 0..failures /\ d[i] # Closed(base, i)
    OBVIOUS
  <2>6. i > 1
    BY <1>4, <2>5 DEF Closed
  <2>7. d[i - 1] = Closed(base, i - 1)
    <3>1. i - 1 \in 0..failures /\ i \in Nat /\ i - 1 \in Nat /\ i - 1 < i
      BY <2>5, <2>6
    <3>2. i - 1 \notin Wrong
      BY <2>4, <3>1 DEF OpToRel
    <3> QED  BY <3>1, <3>2
  <2>8. Closed(base, i) = IF 2 * Closed(base, i - 1) > 5 * base THEN 5 * base ELSE 2 * Closed(base, i - 1)
    BY <2>5, <2>6 DEF Closed
  <2>9. d[i] = rule(d, i)
    BY <1>4, <2>5
  <2> QED  BY <2>5, <2>6, <2>7, <2>8, <2>9
<1> HIDE DEF d
<1> QED  BY <1>3, <1>5

---------------------------------------------------------------------------
(* The invariants of Run and of the workers.                               *)

PCs == {"off", "wait", "fetch", "save", "set", "mark", "ended"}
Delays == {0} \cup {Backoff(Interval(v), f) : v \in Workers, f \in Nat}
WorkerRecords == [pc : PCs, failures : Nat, delay : Delays]

\* Run has started no goroutine yet.
Early == phase \in {"load", "open", "migrate", "hotstart", "disk", "listen", "spawn"}

RunInv ==
    /\ setup \in DOMAIN Setups
    /\ phase \notin {"load", "returned"} => Loads
    /\ phase \notin {"stop", "close", "returned"} => result = ""
    /\ result # "panic"
    /\ phase \in {"load", "open", "returned"} => ~store
    /\ phase = "drain" => cancelled /\ waited
    /\ phase = "stop" /\ result = "ok" => cancelled /\ running = {}
    /\ result = "deadline" => cancelled /\ waited

WorkersInv ==
    /\ worker \in [Workers -> WorkerRecords]
    /\ Early => succeeded = {} /\ \A w \in Workers : worker[w].pc = "off"
    /\ phase \in {"close", "returned"} => \A k \in Pollers : Stopped(k)

DataInv ==
    /\ succeeded \subseteq cache
    /\ \A w \in Workers : worker[w].pc = "mark" => w \in cache
    /\ phase \in {"disk", "listen", "spawn", "serve"} =>
          \A n \in rows \cap Sources_ : n \in cache \cup cold \/ worker[n].pc = "set"

\* What depends on the configuration changes with the setup only.
LEMMA SameSetup ==
    ASSUME UNCHANGED setup
    PROVE  WorkerRecords' = WorkerRecords /\ Loads' = Loads /\ Sources_' = Sources_ /\ Delays' = Delays
BY DEF WorkerRecords, Delays, Interval, Loads, Sources_, Cfg

\* A step of a worker touches its own record and the data, and none is made by
\* a goroutine that does not run.
LEMMA WorkerSteps ==
    ASSUME WorkersInv, NEW w \in Workers, Work(w)
    PROVE  /\ phase # "returned" /\ UNCHANGED workerFrame
           /\ ~Stopped(w)
           /\ worker' \in [Workers -> WorkerRecords]
           /\ \A v \in Workers \ {w} : worker'[v] = worker[v]
<1>1. worker \in [Workers -> WorkerRecords] /\ worker[w] \in WorkerRecords
  BY DEF WorkersInv
<1>2. ASSUME NEW from \in PCs \ {"off", "ended"}, NEW to \in PCs, Step(w, from, to)
      PROVE  /\ ~Stopped(w) /\ worker' \in [Workers -> WorkerRecords]
             /\ \A v \in Workers \ {w} : worker'[v] = worker[v]
  <2>1. worker[w].pc = from /\ worker' = [worker EXCEPT ![w] = [worker[w] EXCEPT !.pc = to]]
    BY <1>2 DEF Step
  <2>2. [worker[w] EXCEPT !.pc = to] \in WorkerRecords
    BY <1>1 DEF WorkerRecords
  <2> QED  BY <1>1, <1>2, <2>1, <2>2 DEF Stopped
<1>3. ASSUME NEW f \in Nat, worker[w].pc = "fetch" \/ worker[w].pc = "mark", worker' = [worker EXCEPT ![w] = Scheduled(w, f)]
      PROVE  /\ ~Stopped(w) /\ worker' \in [Workers -> WorkerRecords]
             /\ \A v \in Workers \ {w} : worker'[v] = worker[v]
  <2>1. Scheduled(w, f) \in WorkerRecords
    BY DEF Scheduled, WorkerRecords, Delays, PCs
  <2> QED  BY <1>1, <1>3, <2>1 DEF Stopped
<1>4. phase # "returned"
  BY DEF Work
<1>5. CASE Wake(w)
  BY <1>2, <1>4, <1>5 DEF Wake, PCs
<1>6. CASE Quit(w)
  BY <1>2, <1>4, <1>6 DEF Quit, PCs
<1>7. CASE FetchFails(w)
  <2> DEFINE f == IF worker[w].failures < MaxFailures[w] THEN worker[w].failures + 1 ELSE worker[w].failures
  <2>1. f \in Nat
    BY <1>1 DEF WorkerRecords
  <2>2. worker[w].pc = "fetch" /\ worker' = [worker EXCEPT ![w] = Scheduled(w, f)] /\ UNCHANGED workerFrame
    BY <1>7 DEF FetchFails
  <2> HIDE DEF f
  <2> QED  BY <1>3, <1>4, <2>1, <2>2
<1>8. CASE Fetched(w)
  BY <1>2, <1>4, <1>8 DEF Fetched, PCs
<1>9. CASE Save(w)
  BY <1>2, <1>4, <1>9 DEF Save, PCs
<1>10. CASE SetCache(w)
  BY <1>2, <1>4, <1>10 DEF SetCache, PCs
<1>11. CASE Succeed(w)
  BY <1>3, <1>4, <1>11 DEF Succeed
<1>12. CASE Polled_(w)
  BY <1>3, <1>4, <1>12 DEF Polled_
<1>13. CASE PollerEnds(w)
  BY <1>2, <1>4, <1>13 DEF PollerEnds, PCs
<1> QED  BY <1>5, <1>6, <1>7, <1>8, <1>9, <1>10, <1>11, <1>12, <1>13 DEF Work

---------------------------------------------------------------------------
(* The steps keep the invariant.                                           *)

Inv == RunInv /\ WorkersInv /\ DataInv

Warm == phase \in {"disk", "listen", "spawn", "serve"}

\* A step of Run, of a client or of the kernel that leaves the goroutines and
\* the data alone.
LEMMA QuietSteps ==
    ASSUME Inv, UNCHANGED <<setup, dataVars, worker>>,
           Early' => Early, Warm' => Warm,
           phase' \in {"close", "returned"} => \A k \in Pollers : Stopped(k)
    PROVE  WorkersInv' /\ DataInv'
<1>1. WorkerRecords' = WorkerRecords /\ Sources_' = Sources_
  BY SameSetup
<1>2. WorkersInv'
  BY <1>1 DEF Inv, WorkersInv, dataVars, Stopped
<1>3. DataInv'
  BY <1>1 DEF Inv, DataInv, Warm, dataVars
<1> QED  BY <1>2, <1>3

\* Before the goroutines start, no poller runs.
LEMMA EarlyOff ==
    ASSUME Inv, Early
    PROVE  \A k \in Pollers : Stopped(k)
BY DEF Inv, WorkersInv, Workers, Pollers, Stopped

\* A goroutine that was not started has the type of one that was.
LEMMA OffIsTyped == Off \in WorkerRecords
<1>1. 0 \in Delays
  BY DEF Delays
<1> QED  BY <1>1 DEF Off, WorkerRecords, PCs

\* A process that has just started satisfies the invariant, whatever rows it finds.
LEMMA FirstProcess ==
    ASSUME Init
    PROVE  Inv
<1>1. \A w \in Workers : worker[w] = Off /\ worker[w].pc = "off"
  BY DEF Init, Off
<1>2. WorkersInv
  BY <1>1, OffIsTyped DEF WorkersInv, Init
<1>3. DataInv
  BY <1>1 DEF DataInv, Init
<1>4. RunInv
  BY DEF RunInv, Init
<1> QED  BY <1>2, <1>3, <1>4 DEF Inv

\* And so does one that is started again.
LEMMA RestartStep ==
    ASSUME Restart
    PROVE  Inv'
<1>1. Off \in WorkerRecords'
  <2>1. 0 \in Delays'
    BY DEF Delays
  <2> QED  BY <2>1 DEF Off, WorkerRecords, PCs
<1>2. \A w \in Workers : worker'[w] = Off /\ worker'[w].pc = "off"
  BY DEF Restart, Off
<1>3. WorkersInv'
  BY <1>1, <1>2 DEF WorkersInv, Restart
<1>4. DataInv'
  BY <1>2 DEF DataInv, Restart
<1>5. RunInv'
  BY DEF RunInv, Restart
<1> QED  BY <1>3, <1>4, <1>5 DEF Inv

\* The steps of Run that start no goroutine and touch no data.
LEMMA RunSteps ==
    ASSUME Inv,
           LoadConfig \/ OpenStore \/ Migrate \/ OpenDisk \/ Listen \/ Shutdown \/ Drained \/ GraceOver
              \/ StopPollers \/ CloseStore \/ ServeFails
    PROVE  Inv'
<1>1. UNCHANGED <<setup, dataVars, worker>>
  BY DEF LoadConfig, OpenStore, Migrate, OpenDisk, Listen, Shutdown, Drained, GraceOver, StopPollers, CloseStore, ServeFails
<1>2. Loads' = Loads
  BY <1>1, SameSetup
<1>3. Early => \A k \in Pollers : Stopped(k)
  BY EarlyOff
<1>4. RunInv
  BY DEF Inv
<1>5. phase = "close" => \A k \in Pollers : Stopped(k)
  BY DEF Inv, WorkersInv
<1>6. /\ RunInv'
      /\ (Early' => Early) /\ (Warm' => Warm)
      /\ (phase' \in {"close", "returned"} => \A k \in Pollers : Stopped(k))
  <2>1. CASE LoadConfig
    BY <1>1, <1>2, <1>3, <1>4, <2>1 DEF RunInv, LoadConfig, Goto, Leave, Early, Warm
  <2>2. CASE OpenStore
    <3>1. phase = "open" /\ phase' \in {"migrate", "returned"} /\ (phase' = "returned" => UNCHANGED store)
          /\ (phase' = "migrate" => UNCHANGED result) /\ (phase' = "returned" => result' = "error")
          /\ UNCHANGED <<cancelled, running, waited>>
      BY <2>2 DEF OpenStore, Goto, Leave
    <3>2. phase' = "returned" => ~store'
      BY <1>4, <3>1, Zenon DEF RunInv
    <3> QED  BY <1>1, <1>2, <1>3, <1>4, <3>1, <3>2 DEF RunInv, Early, Warm
  <2>3. CASE Migrate
    BY <1>1, <1>2, <1>3, <1>4, <2>3 DEF RunInv, Migrate, Goto, Leave, Early, Warm
  <2>4. CASE OpenDisk
    BY <1>1, <1>2, <1>3, <1>4, <2>4 DEF RunInv, OpenDisk, Goto, Leave, Early, Warm
  <2>5. CASE Listen
    BY <1>1, <1>2, <1>3, <1>4, <2>5 DEF RunInv, Listen, Goto, Leave, Early, Warm
  <2>6. CASE Shutdown
    BY <1>1, <1>2, <1>4, <2>6 DEF RunInv, Shutdown, Goto, Leave, Early, Warm
  <2>7. CASE Drained
    BY <1>1, <1>2, <1>4, <2>7 DEF RunInv, Drained, Goto, Leave, Early, Warm
  <2>8. CASE GraceOver
    BY <1>1, <1>2, <1>4, <2>8 DEF RunInv, GraceOver, Goto, Leave, Early, Warm
  <2>9. CASE StopPollers
    BY <1>1, <1>2, <1>4, <2>9 DEF RunInv, StopPollers, Goto, Leave, Early, Warm
  <2>10. CASE CloseStore
    BY <1>1, <1>2, <1>4, <1>5, <2>10 DEF RunInv, CloseStore, Goto, Leave, Early, Warm
  <2>11. CASE ServeFails
    BY <1>1, <1>2, <1>4, <2>11 DEF RunInv, ServeFails, Goto, Leave, Early, Warm
  <2> QED  BY <2>1, <2>2, <2>3, <2>4, <2>5, <2>6, <2>7, <2>8, <2>9, <2>10, <2>11
<1> QED  BY <1>1, <1>6, QuietSteps DEF Inv

\* Signals and clients: what waits for handlers stays waited for.
LEMMA WorldSteps ==
    ASSUME Inv, Signal \/ (\E r \in Requests : Arrive(r) \/ Finish(r)) \/ UNCHANGED vars
    PROVE  Inv'
<1>1. /\ UNCHANGED <<setup, phase, result, store, dataVars, worker, waited>>
      /\ cancelled => cancelled'
      /\ phase # "serve" => running' \subseteq running
  BY DEF Signal, Arrive, Finish, vars, dataVars
<1>2. Loads' = Loads
  BY <1>1, SameSetup
<1>3. RunInv'
  <2>1. CASE phase = "serve"
    BY <1>1, <1>2, <2>1 DEF Inv, RunInv
  <2>2. CASE phase # "serve"
    <3>1. running = {} => running' = {}
      BY <1>1, <2>2
    <3> QED  BY <1>1, <1>2, <2>2, <3>1 DEF Inv, RunInv
  <2> QED  BY <2>1, <2>2
<1>4. WorkersInv' /\ DataInv'
  <2>1. (Early' => Early) /\ (Warm' => Warm)
    BY <1>1 DEF Early, Warm
  <2>2. phase' \in {"close", "returned"} => \A k \in Pollers : Stopped(k)
    BY <1>1 DEF Inv, WorkersInv
  <2> QED  BY <1>1, <2>1, <2>2, QuietSteps
<1> QED  BY <1>3, <1>4 DEF Inv

\* The hot start fills the cache with every row that did not fail.
LEMMA HotStartStep ==
    ASSUME Inv, HotStart
    PROVE  Inv'
<1>1. /\ phase = "hotstart" /\ phase' = "disk"
      /\ UNCHANGED <<setup, result, cancelled, store, rows, worker, succeeded, running, waited>>
      /\ Stored \subseteq cache' \cup cold'
  BY DEF HotStart, HotStartOf, Goto
<1>2. WorkerRecords' = WorkerRecords /\ Loads' = Loads /\ Sources_' = Sources_
  BY <1>1, SameSetup
<1>3. succeeded = {} /\ \A w \in Workers : worker[w].pc = "off"
  BY <1>1 DEF Inv, WorkersInv, Early
<1>4. RunInv'
  BY <1>1, <1>2 DEF Inv, RunInv
<1>5. WorkersInv'
  BY <1>1, <1>2, <1>3 DEF Inv, WorkersInv
<1>6. DataInv'
  BY <1>1, <1>2, <1>3 DEF DataInv, Stored
<1> QED  BY <1>4, <1>5, <1>6 DEF Inv

\* No poller's jitter panics: its interval is that of a configuration that loaded.
LEMMA SpawnStep ==
    ASSUME Inv, Spawn
    PROVE  Inv'
<1>1. phase = "spawn" /\ Loads /\ setup \in DOMAIN Setups /\ RunInv /\ WorkersInv /\ DataInv
  BY DEF Inv, RunInv, Spawn
<1>2. \A k \in Polled(Cfg) : ~JitterPanics(ImageInterval(Cfg, k))
  <2>1. Usable(Cfg)
    BY <1>1, LoadedIsUsable DEF Loads, Cfg
  <2> QED  BY <2>1 DEF Usable, Polled
<1> DEFINE Started(w) == IF w \in Sources_ \cup Polled(Cfg) THEN [Off EXCEPT !.pc = "wait"] ELSE Off
<1>3. /\ phase' = "serve"
      /\ worker' = [w \in Workers |-> Started(w)]
      /\ UNCHANGED <<setup, result, cancelled, store, dataVars, running, waited>>
  BY <1>1, <1>2 DEF Spawn, Goto, Leave
<1>4. WorkerRecords' = WorkerRecords /\ Loads' = Loads /\ Sources_' = Sources_
  BY <1>3, SameSetup
<1>5. \A w \in Workers : Started(w) \in WorkerRecords /\ Started(w).pc \notin {"mark", "set"}
  <2>1. 0 \in Delays
    BY DEF Delays
  <2> QED  BY <2>1 DEF Off, WorkerRecords, PCs
<1> HIDE DEF Started
<1>6. \A w \in Workers : worker'[w] = Started(w)
  BY <1>3
<1>7. RunInv'
  BY <1>1, <1>3, <1>4 DEF RunInv
<1>8. WorkersInv'
  BY <1>3, <1>4, <1>5, <1>6 DEF WorkersInv, Early
<1>9. DataInv'
  <2>1. \A w \in Workers : worker[w].pc = "off"
    BY <1>1 DEF WorkersInv, Early
  <2>2. \A n \in SourceNames : n \in Workers
    BY DEF Workers
  <2>3. \A n \in rows \cap Sources_ : n \in cache \cup cold
    <3>1. Sources_ \subseteq SourceNames
      BY DEF Sources_, Enabled
    <3> QED  BY <1>1, <2>1, <2>2, <3>1 DEF DataInv
  <2> QED  BY <1>1, <1>3, <1>4, <1>5, <1>6, <2>3 DEF DataInv, dataVars
<1> QED  BY <1>7, <1>8, <1>9 DEF Inv

\* A worker that has stored a version sets it before it does anything else, and
\* marks a success only after that.
LEMMA WorkerStepsKeep ==
    ASSUME Inv, NEW w \in Workers, Work(w)
    PROVE  Inv'
<1>1. RunInv /\ WorkersInv /\ DataInv
  BY DEF Inv
<1>2. /\ phase # "returned" /\ UNCHANGED workerFrame
      /\ ~Stopped(w)
      /\ worker' \in [Workers -> WorkerRecords]
      /\ \A v \in Workers \ {w} : worker'[v] = worker[v]
  BY <1>1, WorkerSteps
<1>3. UNCHANGED <<setup, phase, result, cancelled, store, running, waited>>
  BY <1>2 DEF workerFrame
<1>4. WorkerRecords' = WorkerRecords /\ Loads' = Loads /\ Sources_' = Sources_
  BY <1>3, SameSetup
<1>5. worker \in [Workers -> WorkerRecords] /\ worker[w] \in WorkerRecords
  BY <1>1 DEF WorkersInv
<1>6. RunInv'
  BY <1>1, <1>3, <1>4 DEF RunInv
<1>7. WorkersInv'
  <2>1. ~Early
    BY <1>1, <1>2 DEF WorkersInv, Stopped
  <2>2. ASSUME phase = "close", NEW k \in Pollers PROVE Stopped(k)'
    <3>1. Stopped(k) /\ k \in Workers
      BY <1>1, <2>2 DEF WorkersInv, Pollers, Workers
    <3> QED  BY <1>2, <3>1 DEF Stopped
  <2>3. ~Early' /\ phase' = phase
    BY <1>3, <2>1 DEF Early
  <2> QED  BY <1>2, <1>4, <2>2, <2>3 DEF WorkersInv
<1>8. Sources_ \subseteq Workers
  BY DEF Sources_, Enabled, Workers
<1>9. ASSUME NEW from \in PCs, NEW to \in PCs \ {"mark"}, from # "set", Step(w, from, to),
             UNCHANGED <<rows, cache, cold, succeeded>>
      PROVE  DataInv'
  <2>1. worker[w].pc = from /\ worker'[w].pc = to
    BY <1>5, <1>9 DEF Step, WorkerRecords
  <2> QED  BY <1>1, <1>2, <1>3, <1>4, <1>8, <1>9, <2>1 DEF DataInv
<1>10. ASSUME NEW f, worker[w].pc = "fetch" \/ worker[w].pc = "mark", worker' = [worker EXCEPT ![w] = Scheduled(w, f)],
              UNCHANGED <<rows, cache, cold>>, succeeded' \subseteq cache
       PROVE  DataInv'
  <2>1. worker'[w].pc = "wait"
    BY <1>5, <1>10 DEF Scheduled
  <2> QED  BY <1>1, <1>2, <1>3, <1>4, <1>8, <1>10, <2>1 DEF DataInv
<1>11. DataInv'
  <2>1. CASE Wake(w)
    BY <1>9, <2>1 DEF Wake, PCs
  <2>2. CASE Quit(w)
    BY <1>9, <2>2 DEF Quit, PCs
  <2>3. CASE FetchFails(w)
    <3> DEFINE f == IF worker[w].failures < MaxFailures[w] THEN worker[w].failures + 1 ELSE worker[w].failures
    <3>1. /\ worker[w].pc = "fetch" /\ worker' = [worker EXCEPT ![w] = Scheduled(w, f)]
          /\ UNCHANGED <<rows, cache, cold, succeeded>>
      BY <2>3 DEF FetchFails
    <3>2. succeeded' \subseteq cache
      BY <1>1, <3>1 DEF DataInv
    <3> HIDE DEF f
    <3> QED  BY <1>10, <3>1, <3>2
  <2>4. CASE Fetched(w)
    BY <1>9, <2>4 DEF Fetched, PCs
  <2>5. CASE Save(w)
    <3>1. worker[w].pc = "save" /\ worker'[w].pc = "set"
      BY <1>5, <2>5 DEF Save, Step, WorkerRecords
    <3>2. rows' \subseteq rows \cup {w} /\ UNCHANGED <<cache, cold, succeeded>>
      BY <2>5 DEF Save
    <3> QED  BY <1>1, <1>2, <1>3, <1>4, <1>8, <3>1, <3>2 DEF DataInv
  <2>6. CASE SetCache(w)
    <3>1. worker[w].pc = "set" /\ worker'[w].pc = "mark"
      BY <1>5, <2>6 DEF SetCache, Step, WorkerRecords
    <3>2. cache' = cache \cup {w} /\ cold' = cold \ {w} /\ UNCHANGED <<rows, succeeded>>
      BY <2>6 DEF SetCache
    <3> QED  BY <1>1, <1>2, <1>3, <1>4, <1>8, <3>1, <3>2 DEF DataInv
  <2>7. CASE Succeed(w)
    <3>1. /\ worker[w].pc = "mark" /\ worker' = [worker EXCEPT ![w] = Scheduled(w, 0)]
          /\ UNCHANGED <<rows, cache, cold>> /\ succeeded' = succeeded \cup {w}
      BY <2>7 DEF Succeed
    <3>2. succeeded' \subseteq cache
      BY <1>1, <3>1 DEF DataInv
    <3> QED  BY <1>10, <3>1, <3>2
  <2>8. CASE Polled_(w)
    <3>1. /\ worker[w].pc = "fetch" /\ worker' = [worker EXCEPT ![w] = Scheduled(w, 0)]
          /\ UNCHANGED <<rows, cache, cold, succeeded>>
      BY <2>8 DEF Polled_
    <3>2. succeeded' \subseteq cache
      BY <1>1, <3>1 DEF DataInv
    <3> QED  BY <1>10, <3>1, <3>2
  <2>9. CASE PollerEnds(w)
    BY <1>9, <2>9 DEF PollerEnds, PCs
  <2> QED  BY <2>1, <2>2, <2>3, <2>4, <2>5, <2>6, <2>7, <2>8, <2>9 DEF Work
<1> QED  BY <1>6, <1>7, <1>11 DEF Inv

\* Inv holds in every state.
LEMMA Invariance == Spec => []Inv
<1>1. Init => Inv
  BY FirstProcess
<1>2. Inv /\ [Next]_vars => Inv'
  <2> SUFFICES ASSUME Inv, [Next]_vars PROVE Inv'
    OBVIOUS
  <2>1. CASE Restart
    BY <2>1, RestartStep
  <2>2. CASE HotStart
    BY <2>2, HotStartStep
  <2>3. CASE Spawn
    BY <2>3, SpawnStep
  <2>4. CASE \E w \in Workers : Work(w)
    BY <2>4, WorkerStepsKeep
  <2>5. CASE LoadConfig \/ OpenStore \/ Migrate \/ OpenDisk \/ Listen \/ Shutdown \/ Drained \/ GraceOver
              \/ StopPollers \/ CloseStore \/ ServeFails
    BY <2>5, RunSteps
  <2>6. CASE Signal \/ (\E r \in Requests : Arrive(r) \/ Finish(r)) \/ UNCHANGED vars
    BY <2>6, WorldSteps
  <2> QED  BY <2>1, <2>2, <2>3, <2>4, <2>5, <2>6 DEF Next, Main
<1> QED  BY <1>1, <1>2, PTL DEF Spec

---------------------------------------------------------------------------
(* Types: a goroutine runs only for what is enabled or prewarmed, and only  *)
(* that of a source gets past its fetch.                                   *)

Beyond == {"save", "set", "mark"}
TypeInv == TypeOK /\ \A w \in Workers : worker[w].pc \in Beyond => w \in SourceNames

\* As SameSetup, for the types.
LEMMA SameTypes ==
    ASSUME UNCHANGED setup
    PROVE  Sources_' = Sources_ /\ Polled(Cfg)' = Polled(Cfg)
BY DEF Sources_, Loads, Cfg

\* What the steps of Run and of the world do to the types.
LEMMA OtherStepsTyped ==
    ASSUME TypeInv, Main \/ ServeFails \/ Signal \/ (\E r \in Requests : Arrive(r) \/ Finish(r))
    PROVE  TypeInv'
<1>1. TypeOK /\ UNCHANGED <<setup, rows, succeeded>> /\ Sources_' = Sources_ /\ Polled(Cfg)' = Polled(Cfg)
  <2>1. TypeOK /\ UNCHANGED <<setup, rows, succeeded>>
    BY DEF TypeInv, Main, LoadConfig, OpenStore, Migrate, HotStart, OpenDisk, Listen, Spawn, Shutdown, Drained, GraceOver,
           StopPollers, CloseStore, ServeFails, Signal, Arrive, Finish, dataVars
  <2> QED  BY <2>1, SameTypes
<1>2. /\ phase' \in {"load", "open", "migrate", "hotstart", "disk", "listen", "spawn", "serve", "drain", "stop", "close", "returned"}
      /\ result' \in {"", "ok", "error", "deadline", "panic"}
      /\ cancelled' \in BOOLEAN /\ store' \in BOOLEAN /\ waited' \in BOOLEAN
      /\ running' \subseteq Requests
  <2>1. CASE Main
    BY <1>1, <2>1 DEF TypeOK, Main, LoadConfig, OpenStore, Migrate, HotStart, OpenDisk, Listen, Spawn, Shutdown, Drained,
                      GraceOver, StopPollers, CloseStore, Goto, Leave
  <2>2. CASE ServeFails \/ Signal \/ (\E r \in Requests : Arrive(r) \/ Finish(r))
    BY <1>1, <2>2, ZenonT(60) DEF TypeOK, ServeFails, Signal, Arrive, Finish, Goto, Leave
  <2> QED  BY <2>1, <2>2
<1>3. cache' \subseteq Sources_ /\ cold' \subseteq Sources_
  <2>1. CASE HotStart
    BY <2>1 DEF HotStart, HotStartOf, Stored
  <2>2. CASE ~HotStart
    <3>1. UNCHANGED <<cache, cold>>
      BY <2>2 DEF Main, LoadConfig, OpenStore, Migrate, OpenDisk, Listen, Spawn, Shutdown, Drained, GraceOver,
                  StopPollers, CloseStore, ServeFails, Signal, Arrive, Finish, dataVars
    <3> QED  BY <1>1, <3>1 DEF TypeOK
  <2> QED  BY <2>1, <2>2
<1>4. \A w \in Workers : /\ worker'[w].pc \in PCs /\ worker'[w].failures \in 0..MaxFailures[w]
                         /\ worker'[w].pc # "off" => w \in Sources_ \cup Polled(Cfg)
                         /\ worker'[w].pc \in Beyond => w \in SourceNames
  <2>1. CASE UNCHANGED worker
    BY <1>1, <2>1 DEF TypeInv, TypeOK, PCs
  <2>2. CASE Spawn /\ ~UNCHANGED worker
    <3>1. worker' = [w \in Workers |-> IF w \in Sources_ \cup Polled(Cfg) THEN [Off EXCEPT !.pc = "wait"] ELSE Off]
      BY <2>2 DEF Spawn
    <3>2. \A w \in Workers : MaxFailures[w] \in Nat
      BY ServerAssumption DEF Workers
    <3> QED  BY <3>1, <3>2 DEF Off, PCs, Beyond
  <2>3. Spawn \/ UNCHANGED worker
    BY DEF Main, LoadConfig, OpenStore, Migrate, HotStart, OpenDisk, Listen, Shutdown, Drained, GraceOver,
           StopPollers, CloseStore, ServeFails, Signal, Arrive, Finish
  <2> QED  BY <2>1, <2>2, <2>3
<1> QED  BY <1>1, <1>2, <1>3, <1>4 DEF TypeInv, TypeOK, PCs

\* A worker stores, caches and marks only its own, enabled, source.
LEMMA WorkerStepsTyped ==
    ASSUME TypeInv, worker \in [Workers -> WorkerRecords], NEW w \in Workers, Work(w)
    PROVE  TypeInv'
<1>1. TypeOK /\ worker[w] \in WorkerRecords /\ worker[w].failures \in 0..MaxFailures[w]
  BY DEF TypeInv, TypeOK
<1>2. UNCHANGED <<setup, phase, result, cancelled, store, running, waited>>
  BY DEF Work, Wake, Quit, FetchFails, PollerEnds, Fetched, Save, SetCache, Succeed, Polled_, workerFrame
<1>3. Sources_' = Sources_ /\ Polled(Cfg)' = Polled(Cfg)
  BY <1>2, SameTypes
<1>4. worker[w].pc \in Beyond => w \in Sources_
  <2>1. Polled(Cfg) \subseteq DOMAIN Registry
    BY DEF Polled
  <2>2. worker[w].pc \in Beyond => w \in SourceNames /\ w \in Sources_ \cup Polled(Cfg)
    BY DEF TypeInv, TypeOK, Beyond
  <2> QED  BY <2>1, <2>2, ServerAssumption
<1>5. rows' \subseteq SourceNames /\ cache' \subseteq Sources_ /\ cold' \subseteq Sources_ /\ succeeded' \subseteq Sources_
  <2>1. CASE Wake(w) \/ Quit(w) \/ FetchFails(w) \/ PollerEnds(w) \/ Fetched(w) \/ Polled_(w)
    BY <1>1, <2>1 DEF Wake, Quit, FetchFails, PollerEnds, Fetched, Polled_, TypeOK
  <2>2. CASE Save(w)
    <3>1. w \in Sources_ /\ w \in SourceNames
      BY <1>4, <2>2 DEF Save, Step, Beyond, TypeInv
    <3> QED  BY <1>1, <2>2, <3>1 DEF Save, TypeOK
  <2>3. CASE SetCache(w)
    <3>1. w \in Sources_
      BY <1>4, <2>3 DEF SetCache, Step, Beyond
    <3> QED  BY <1>1, <2>3, <3>1 DEF SetCache, TypeOK
  <2>4. CASE Succeed(w)
    <3>1. w \in Sources_
      BY <1>4, <2>4 DEF Succeed, Beyond
    <3> QED  BY <1>1, <2>4, <3>1 DEF Succeed, TypeOK
  <2> QED  BY <2>1, <2>2, <2>3, <2>4 DEF Work
<1>6. /\ \A v \in Workers \ {w} : worker'[v] = worker[v]
      /\ worker'[w].pc \in PCs /\ worker'[w].failures \in 0..MaxFailures[w]
      /\ worker[w].pc # "off"
      /\ worker'[w].pc \in Beyond => w \in SourceNames
  <2>1. ASSUME NEW from \in PCs \ {"off"}, NEW to \in PCs, Step(w, from, to)
        PROVE  /\ \A v \in Workers \ {w} : worker'[v] = worker[v]
               /\ worker'[w].pc = to /\ worker'[w].failures = worker[w].failures
               /\ worker[w].pc = from /\ from # "off"
    <3>1. worker[w].pc = from /\ worker' = [worker EXCEPT ![w] = [worker[w] EXCEPT !.pc = to]]
      BY <2>1 DEF Step
    <3>2. [worker[w] EXCEPT !.pc = to].pc = to /\ [worker[w] EXCEPT !.pc = to].failures = worker[w].failures
      BY <1>1 DEF WorkerRecords
    <3> QED  BY <2>1, <3>1, <3>2
  <2>2. ASSUME NEW f \in 0..MaxFailures[w], worker[w].pc = "fetch" \/ worker[w].pc = "mark",
               worker' = [worker EXCEPT ![w] = Scheduled(w, f)]
        PROVE  /\ \A v \in Workers \ {w} : worker'[v] = worker[v]
               /\ worker'[w].pc = "wait" /\ worker'[w].failures \in 0..MaxFailures[w]
               /\ worker[w].pc # "off"
    <3>1. Scheduled(w, f).pc = "wait" /\ Scheduled(w, f).failures = f
      BY DEF Scheduled
    <3> QED  BY <2>2, <3>1
  <2>3. 0 \in 0..MaxFailures[w] /\ MaxFailures[w] \in Nat
    BY ServerAssumption DEF Workers
  <2>4. CASE Wake(w) \/ Quit(w) \/ PollerEnds(w)
    BY <1>1, <2>1, <2>4 DEF Wake, Quit, PollerEnds, PCs, Beyond
  <2>5. CASE Fetched(w)
    BY <1>1, <2>1, <2>5 DEF Fetched, PCs
  <2>6. CASE Save(w) \/ SetCache(w)
    <3>1. worker[w].pc \in Beyond
      BY <2>6 DEF Save, SetCache, Step, Beyond
    <3>2. w \in SourceNames
      BY <3>1 DEF TypeInv
    <3> QED  BY <1>1, <2>1, <2>6, <3>2 DEF Save, SetCache, PCs
  <2>7. CASE FetchFails(w)
    <3> DEFINE f == IF worker[w].failures < MaxFailures[w] THEN worker[w].failures + 1 ELSE worker[w].failures
    <3>1. f \in 0..MaxFailures[w]
      BY <1>1, <2>3
    <3>2. worker[w].pc = "fetch" /\ worker' = [worker EXCEPT ![w] = Scheduled(w, f)]
      BY <2>7 DEF FetchFails
    <3> HIDE DEF f
    <3> QED  BY <2>2, <3>1, <3>2 DEF PCs, Beyond
  <2>8. CASE Succeed(w) \/ Polled_(w)
    <3>1. worker' = [worker EXCEPT ![w] = Scheduled(w, 0)] /\ (worker[w].pc = "fetch" \/ worker[w].pc = "mark")
      BY <2>8 DEF Succeed, Polled_
    <3> QED  BY <2>2, <2>3, <3>1 DEF PCs, Beyond
  <2> QED  BY <2>4, <2>5, <2>6, <2>7, <2>8 DEF Work
<1>7. ASSUME NEW v \in Workers
      PROVE  /\ worker'[v].pc \in PCs /\ worker'[v].failures \in 0..MaxFailures[v]
             /\ worker'[v].pc # "off" => v \in Sources_ \cup Polled(Cfg)
             /\ worker'[v].pc \in Beyond => v \in SourceNames
  <2>1. CASE v = w
    BY <1>1, <1>6, <2>1 DEF TypeOK
  <2>2. CASE v # w
    BY <1>6, <2>2 DEF TypeInv, TypeOK, PCs
  <2> QED  BY <2>1, <2>2
<1> QED  BY <1>1, <1>2, <1>3, <1>5, <1>7 DEF TypeInv, TypeOK, PCs

---------------------------------------------------------------------------
(* The theorems.                                                           *)

\* Run returns nil only after a signal with every handler done, the deadline only
\* when a handler ran at the signal, and never with the store open or a poller
\* running (the defers of Run and Shutdown).
THEOREM StopOrder == Spec => []StopIsOrderly
<1>1. Inv => StopIsOrderly
  BY DEF Inv, RunInv, WorkersInv, StopIsOrderly
<1> QED  BY <1>1, Invariance, PTL

\* A process that /readyz calls ready has every enabled source in the cache:
\* Run of the fetcher marks a success only after Cache.Set.
THEOREM ReadinessComplete == Spec => []ReadyMeansComplete
<1>1. Inv => ReadyMeansComplete
  BY DEF Inv, DataInv, ReadyMeansComplete, Ready
<1> QED  BY <1>1, Invariance, PTL

\* From the first request on, every stored row of an enabled source is in the
\* cache or its source is one the hot start could not read.
THEOREM FirstPaint == Spec => []FirstPaintIsWarm
<1>1. Inv => FirstPaintIsWarm
  BY DEF Inv, DataInv, FirstPaintIsWarm
<1> QED  BY <1>1, Invariance, PTL

\* Whatever files and variables an operator writes, a configuration that loads
\* polls at positive intervals, images no faster than the floor, with caps that are
\* not negative and a positive number of days to keep, and no poller's jitter panics.
THEOREM Settings == Spec => []SettingsUsable
<1>1. Inv => SettingsUsable
  <2> SUFFICES ASSUME Inv, Configured PROVE SettingsUsable
    BY DEF SettingsUsable
  <2>1. Usable(Cfg)
    BY LoadedIsUsable DEF Inv, RunInv, Configured, Loads, Cfg
  <2>2. Sources_ \subseteq SourceNames
    BY DEF Sources_, Enabled
  <2>3. result # "panic"
    BY DEF Inv, RunInv
  <2> HIDE DEF Configured
  <2> QED  BY <2>1, <2>2, <2>3 DEF SettingsUsable, Usable
<1> QED  BY <1>1, Invariance, PTL

\* Types: what is cached, cold or marked is enabled, and goroutines run only for
\* enabled sources and prewarmed images.
THEOREM TypeCorrect == Spec => []TypeOK
<1>1. Init => TypeInv
  <2> SUFFICES ASSUME Init PROVE TypeInv
    OBVIOUS
  <2>1. \A w \in Workers : worker[w].pc = "off" /\ worker[w].failures \in 0..MaxFailures[w]
    <3>1. \A w \in Workers : worker[w] = Off /\ MaxFailures[w] \in Nat
      BY ServerAssumption DEF Init, Workers
    <3> QED  BY <3>1 DEF Off
  <2>2. \A w \in Workers : worker[w].pc \notin Beyond
    BY <2>1 DEF Beyond
  <2>3. /\ setup \in DOMAIN Setups /\ phase = "load" /\ result = "" /\ cancelled = FALSE /\ store = FALSE /\ waited = FALSE
        /\ rows \subseteq SourceNames /\ cache = {} /\ cold = {} /\ succeeded = {} /\ running = {}
    BY DEF Init
  <2> QED  BY <2>1, <2>2, <2>3 DEF TypeInv, TypeOK
<1>2. TypeInv /\ Inv /\ [Next]_vars => TypeInv'
  <2> SUFFICES ASSUME TypeInv, Inv, [Next]_vars PROVE TypeInv'
    OBVIOUS
  <2>1. CASE Restart
    <3>1. \A w \in Workers : worker'[w].pc = "off" /\ worker'[w].failures \in 0..MaxFailures[w]
      <4>1. \A w \in Workers : worker'[w] = Off /\ MaxFailures[w] \in Nat
        BY <2>1, ServerAssumption DEF Restart, Workers
      <4> QED  BY <4>1 DEF Off
    <3>2. \A w \in Workers : worker'[w].pc \notin Beyond
      BY <3>1 DEF Beyond
    <3>3. /\ setup' \in DOMAIN Setups /\ phase' = "load" /\ result' = "" /\ cancelled' = FALSE /\ store' = FALSE
          /\ waited' = FALSE /\ rows' = rows /\ cache' = {} /\ cold' = {} /\ succeeded' = {} /\ running' = {}
      BY <2>1 DEF Restart
    <3>4. rows \subseteq SourceNames
      BY DEF TypeInv, TypeOK
    <3> QED  BY <3>1, <3>2, <3>3, <3>4 DEF TypeInv, TypeOK
  <2>2. CASE \E w \in Workers : Work(w)
    BY <2>2, WorkerStepsTyped DEF Inv, WorkersInv
  <2>3. CASE Main \/ ServeFails \/ Signal \/ (\E r \in Requests : Arrive(r) \/ Finish(r))
    BY <2>3, OtherStepsTyped
  <2>4. CASE UNCHANGED vars
    <3>1. Sources_' = Sources_ /\ Polled(Cfg)' = Polled(Cfg)
      BY <2>4, SameTypes DEF vars
    <3> QED  BY <2>4, <3>1 DEF TypeInv, TypeOK, vars, Beyond
  <2> QED  BY <2>1, <2>2, <2>3, <2>4 DEF Next
<1>3. TypeInv => TypeOK
  BY DEF TypeInv
<1> QED  BY <1>1, <1>2, <1>3, Invariance, PTL DEF Spec
\* The scalars, sources, image intervals, prewarmed images, window, products, region
\* and caps a process runs with are what the layers say, the environment before the
\* file before the defaults, clamped and cleaned wherever they come from (Unmarshal,
\* applyEnvOverrides, mergeSourceDefaults and the validations, and server.Run's
\* substitutions, of which a hot cap of 0 is the exception).
THEOREM Layers == Spec => []LayersInOrder
<1>1. Inv => LayersInOrder
  <2>1. ASSUME Inv, Loads PROVE LayersInOrder
    BY <2>1, LayersHold DEF Inv, RunInv
  <2>2. ASSUME ~Loads PROVE LayersInOrder
    BY <2>2 DEF LayersInOrder, Configured
  <2> QED  BY <2>1, <2>2
<1> QED  BY <1>1, Invariance, PTL

---------------------------------------------------------------------------
(* The pace of the workers.                                                *)

\* A worker's delay is the backoff of its own interval after its own failures,
\* or none yet, and nothing runs without a configuration.
Paced(w) ==
    /\ worker[w].pc # "off" => Loads
    /\ worker[w].pc = "wait" /\ worker[w].delay # 0 => worker[w].delay = Backoff(Interval(w), worker[w].failures)
AllPaced == \A w \in Workers : Paced(w)

\* A worker keeps its delay on every step but the two that schedule it anew.
LEMMA WorkPaced ==
    ASSUME Inv, AllPaced, NEW w \in Workers, Work(w)
    PROVE  AllPaced'
<1>1. /\ UNCHANGED setup /\ worker[w].pc # "off" /\ worker' \in [Workers -> WorkerRecords]
      /\ \A v \in Workers \ {w} : worker'[v] = worker[v]
  <2>1. UNCHANGED workerFrame /\ worker[w].pc # "off" /\ worker' \in [Workers -> WorkerRecords']
        /\ \A v \in Workers \ {w} : worker'[v] = worker[v]
    BY WorkerSteps, SameSetup DEF Inv, workerFrame, Stopped
  <2> QED  BY <2>1, SameSetup DEF workerFrame
<1>2. Loads' = Loads /\ \A v \in Workers : Interval(v)' = Interval(v)
  BY <1>1, SameSetup DEF Interval, Cfg
<1>3. Loads
  BY <1>1 DEF AllPaced, Paced
<1>4. \A v \in Workers \ {w} : Paced(v)'
  BY <1>1, <1>2 DEF AllPaced, Paced
<1>5. worker \in [Workers -> WorkerRecords] /\ worker[w] \in WorkerRecords
  BY DEF Inv, WorkersInv
<1>6. ASSUME NEW f, worker' = [worker EXCEPT ![w] = Scheduled(w, f)] PROVE Paced(w)'
  <2>1. worker'[w] = Scheduled(w, f)
    BY <1>5, <1>6
  <2>2. worker'[w].pc = "wait" /\ worker'[w].failures = f /\ worker'[w].delay = Backoff(Interval(w), f)
    BY <2>1 DEF Scheduled
  <2> QED  BY <1>2, <1>3, <2>2 DEF Paced
<1>7. ASSUME NEW from, NEW to \in PCs \ {"wait"}, Step(w, from, to) PROVE Paced(w)'
  <2>1. worker'[w].pc = to
    BY <1>5, <1>7 DEF Step, WorkerRecords
  <2> QED  BY <1>2, <1>3, <2>1 DEF Paced
<1>8. Paced(w)'
  <2>1. CASE Wake(w) \/ Quit(w) \/ PollerEnds(w) \/ Fetched(w) \/ Save(w) \/ SetCache(w)
    BY <1>7, <2>1 DEF Wake, Quit, PollerEnds, Fetched, Save, SetCache, PCs
  <2>2. CASE FetchFails(w)
    <3> DEFINE f == IF worker[w].failures < MaxFailures[w] THEN worker[w].failures + 1 ELSE worker[w].failures
    <3>1. worker' = [worker EXCEPT ![w] = Scheduled(w, f)]
      BY <2>2 DEF FetchFails
    <3> HIDE DEF f
    <3> QED  BY <1>6, <3>1
  <2>3. CASE Succeed(w) \/ Polled_(w)
    BY <1>6, <2>3 DEF Succeed, Polled_
  <2> QED  BY <2>1, <2>2, <2>3 DEF Work
<1> QED  BY <1>4, <1>8 DEF AllPaced

\* The workers are paced in every state.
LEMMA PacedAlways == Spec => []AllPaced
<1>1. Init => AllPaced
  <2>1. ASSUME Init PROVE \A w \in Workers : worker[w] = Off
    BY <2>1 DEF Init
  <2>2. Off.pc = "off"
    BY DEF Off
  <2> QED  BY <2>1, <2>2 DEF AllPaced, Paced
<1>2. AllPaced /\ Inv /\ [Next]_vars => AllPaced'
  <2> SUFFICES ASSUME AllPaced, Inv, [Next]_vars PROVE AllPaced'
    OBVIOUS
  <2>1. CASE Restart
    BY <2>1 DEF Restart, AllPaced, Paced, Off
  <2>2. CASE \E w \in Workers : Work(w)
    BY <2>2, WorkPaced
  <2>3. CASE Spawn /\ ~UNCHANGED worker
    <3>1. worker' = [w \in Workers |-> IF w \in Sources_ \cup Polled(Cfg) THEN [Off EXCEPT !.pc = "wait"] ELSE Off]
          /\ UNCHANGED setup /\ phase = "spawn"
      BY <2>3 DEF Spawn
    <3>2. \A w \in Workers : worker'[w].delay = 0
      BY <3>1 DEF Off
    <3>3. Loads' = Loads /\ Loads
      BY <3>1, SameSetup DEF Inv, RunInv
    <3> QED  BY <3>2, <3>3 DEF AllPaced, Paced
  <2>4. CASE UNCHANGED <<setup, worker>>
    BY <2>4 DEF AllPaced, Paced, Loads, Interval, Cfg
  <2>5. \/ Restart \/ (\E w \in Workers : Work(w)) \/ (Spawn /\ ~UNCHANGED worker) \/ UNCHANGED <<setup, worker>>
    BY DEF Next, Main, LoadConfig, OpenStore, Migrate, HotStart, OpenDisk, Listen, Spawn, Shutdown, Drained, GraceOver,
           StopPollers, CloseStore, ServeFails, Signal, Arrive, Finish, vars
  <2> QED  BY <2>1, <2>2, <2>3, <2>4, <2>5
<1> QED  BY <1>1, <1>2, Invariance, PTL DEF Spec

\* Neither a source nor an image is asked more often than its interval after an
\* answer, nor less often than every fifth interval, however long it fails and
\* whatever its interval (Fetcher.Run and runOne).
THEOREM Pace == Spec => []PoliteAndPersistent
<1>1. Inv /\ AllPaced => PoliteAndPersistent
  <2> SUFFICES ASSUME Inv, AllPaced, NEW w \in Workers, worker[w].pc = "wait", worker[w].delay # 0
               PROVE  LET base == Interval(w)
                          d == worker[w].delay
                      IN /\ base <= d /\ d <= 5 * base
                         /\ worker[w].failures <= 1 => d = base
                         /\ worker[w].failures >= 4 => d = 5 * base
    BY DEF PoliteAndPersistent
  <2> DEFINE base == Interval(w)
             f == worker[w].failures
  <2>1. Loads /\ worker[w].delay = Backoff(base, f)
    BY DEF AllPaced, Paced
  <2>2. f \in Nat
    BY DEF Inv, WorkersInv, WorkerRecords
  <2>3. base \in Nat
    <3>1. Usable(Cfg)
      BY <2>1, LoadedIsUsable DEF Inv, RunInv, Loads, Cfg
    <3>2. w \in SourceNames \/ w \in DOMAIN Registry
      BY DEF Workers
    <3>3. Floor \in Nat
      BY ConfigAssumption
    <3>4. \A n \in SourceNames : SourceInterval(Cfg, n) \in Int /\ SourceInterval(Cfg, n) > 0
      BY <3>1 DEF Usable
    <3>5. \A k \in DOMAIN Registry : ImageInterval(Cfg, k) \in Int /\ ImageInterval(Cfg, k) >= Floor
      BY <3>1 DEF Usable
    <3> QED  BY <3>2, <3>3, <3>4, <3>5 DEF Interval
  <2>4. worker[w].delay = Closed(base, f)
    BY <2>1, <2>2, <2>3, BackoffIs
  <2> HIDE DEF base, f
  <2>5. /\ base <= worker[w].delay /\ worker[w].delay <= 5 * base
        /\ f <= 1 => worker[w].delay = base
        /\ f >= 4 => worker[w].delay = 5 * base
    BY <2>2, <2>3, <2>4 DEF Closed
  <2> QED  BY <2>5 DEF base, f
<1> QED  BY <1>1, Invariance, PacedAlways, PTL
=============================================================================
