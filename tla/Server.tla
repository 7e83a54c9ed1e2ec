------------------------------- MODULE Server -------------------------------
(***************************************************************************)
(* The life of the process: cmd/cwd and internal/server's Run, from the    *)
(* configuration it loads (Config) over hot start, listener, fetchers,     *)
(* pollers and requests to the shutdown and its defers, with crashes and   *)
(* restarts in between.                                                    *)
(*                                                                         *)
(* A worker is a source's fetcher or an image's prewarm poller.  Which     *)
(* version a fetch brings is Pipeline's and ImageProxy's matter; here a    *)
(* source has data or not, in the store and in the cache.                  *)
(***************************************************************************)
EXTENDS Config

CONSTANTS Setups,      \* Setups[s]: what a process may find, [env, files]
          Requests,    \* what clients may have open at a time
          MaxFailures  \* bound: up to which a worker counts failures in a row

ASSUME ServerAssumption ==
    /\ SourceNames \cap DOMAIN Registry = {}
    /\ MaxFailures \in [SourceNames \cup DOMAIN Registry -> Nat]

\* The types YAML and strconv give to the settings that are compared with a
\* number: a file with another value there is Invalid as a whole.
Numbers == {"retention_days", "disk_max_bytes", "hot_max_bytes", "hot_max_entries"}
FileTyped(f) ==
    /\ "window" \in DOMAIN f => f.window \in Int
    /\ "scalars" \in DOMAIN f => \A s \in DOMAIN f.scalars \cap Numbers : f.scalars[s] \in Int
    /\ "intervals" \in DOMAIN f /\ f.intervals # Null => \A k \in DOMAIN f.intervals : f.intervals[k] \in Int
    /\ "sources" \in DOMAIN f /\ f.sources # Null =>
          \A n \in DOMAIN f.sources : "interval" \in DOMAIN f.sources[n] => f.sources[n].interval \in Int
EnvTyped(env) ==
    /\ \A s \in DOMAIN env.scalars \cap Numbers : env.scalars[s] \in Int \cup {Invalid}
    /\ \A k \in DOMAIN env.intervals : env.intervals[k] \in Int \cup {Invalid}
    /\ \A n \in DOMAIN env.sources :
          "interval" \in DOMAIN env.sources[n] => env.sources[n].interval \in Int \cup {Invalid}

ASSUME SetupsAssumption ==
    \A s \in DOMAIN Setups :
        /\ EnvTyped(Setups[s].env)
        /\ \A path \in DOMAIN Setups[s].files :
               Setups[s].files[path] # Invalid => FileTyped(Setups[s].files[path])

Workers == SourceNames \cup DOMAIN Registry

VARIABLES setup,     \* the setup of this process
          phase,     \* where Run is
          result,    \* what Run returns
          cancelled, \* SIGINT or SIGTERM cancelled ctx
          store,     \* the database is open
          rows,      \* sources with a row; survives the process
          cache,     \* sources with a cache slot
          cold,      \* history: sources whose row the hot start could not use, until they are fetched
          worker,    \* [pc, failures, delay] of each goroutine
          succeeded, \* sources with Health().LastSuccess
          running,   \* requests whose handler runs
          waited     \* history: some handler ran when Shutdown was called

dataVars == <<rows, cache, cold, succeeded>>
vars == <<setup, phase, result, cancelled, store, rows, cache, cold, worker, succeeded, running, waited>>

\* The settings in force: <<>> where the setup does not load.
Loaded == [s \in DOMAIN Setups |-> Load(Setups[s].env, Setups[s].files)]
Loads == Loaded[setup] # <<>>
Configured == phase # "load" /\ Loads
Cfg == Loaded[setup][1]
Sources_ == IF Loads THEN Enabled(Cfg) ELSE {}
Interval(w) == IF w \in SourceNames THEN SourceInterval(Cfg, w) ELSE ImageInterval(Cfg, w)

Off == [pc |-> "off", failures |-> 0, delay |-> 0]

Init ==
    /\ setup \in DOMAIN Setups
    /\ phase = "load" /\ result = "" /\ cancelled = FALSE /\ store = FALSE
    /\ rows \in SUBSET SourceNames
    /\ cache = {} /\ cold = {} /\ succeeded = {} /\ running = {} /\ waited = FALSE
    /\ worker = [w \in Workers |-> Off]

\* The process has ended, or is killed, and is started again; the rows stay.
Restart ==
    /\ setup' \in DOMAIN Setups
    /\ phase' = "load" /\ result' = "" /\ cancelled' = FALSE /\ store' = FALSE
    /\ cache' = {} /\ cold' = {} /\ succeeded' = {} /\ running' = {} /\ waited' = FALSE
    /\ worker' = [w \in Workers |-> Off]
    /\ UNCHANGED rows

---------------------------------------------------------------------------
(* Run, step by step.  An error leaves through the defers set so far.      *)

Goto(from, to) == phase = from /\ phase' = to
Leave(from, err, to) == Goto(from, to) /\ result' = err

\* main: a configuration that does not load ends the process before Run.
LoadConfig ==
    /\ IF Loads THEN Goto("load", "open") /\ UNCHANGED result ELSE Leave("load", "error", "returned")
    /\ UNCHANGED <<setup, cancelled, store, dataVars, worker, running, waited>>

OpenStore ==
    /\ \/ Goto("open", "migrate") /\ store' = TRUE /\ UNCHANGED result
       \/ Leave("open", "error", "returned") /\ UNCHANGED store
    /\ UNCHANGED <<setup, cancelled, dataVars, worker, running, waited>>

Migrate ==
    /\ \/ Goto("migrate", "hotstart") /\ ~cancelled /\ UNCHANGED result
       \/ Leave("migrate", "error", "close")
    /\ UNCHANGED <<setup, cancelled, store, dataVars, worker, running, waited>>

\* Mutant of HotStartOf: the first source that fails ends the loop.
HotStartOfAll(stored, failed) == IF failed = {} THEN stored ELSE {}
HotStartOf(stored, failed) == stored \ failed

Stored == rows \cap Sources_

\* A row that cannot be read or decoded leaves its source cold.
HotStart ==
    /\ Goto("hotstart", "disk")
    /\ \E failed \in SUBSET Stored :
          /\ cancelled => failed = Stored
          /\ cache' = HotStartOf(Stored, failed)
          /\ cold' = failed
    /\ UNCHANGED <<setup, result, cancelled, store, rows, worker, succeeded, running, waited>>

\* NewDiskStore, then the proxy, the hub, the router and the listener.
OpenDisk ==
    /\ \/ Goto("disk", "listen") /\ UNCHANGED result
       \/ Leave("disk", "error", "close")
    /\ UNCHANGED <<setup, cancelled, store, dataVars, worker, running, waited>>

Listen ==
    /\ \/ Goto("listen", "spawn") /\ UNCHANGED result
       \/ Leave("listen", "error", "close")
    /\ UNCHANGED <<setup, cancelled, store, dataVars, worker, running, waited>>

\* The first tick is at once, a poller's within the jitter of a quarter of its
\* interval.  A panic in a goroutine ends the process.
Spawn ==
    /\ phase = "spawn"
    /\ IF \E k \in Polled(Cfg) : JitterPanics(ImageInterval(Cfg, k))
       THEN Leave("spawn", "panic", "returned") /\ UNCHANGED worker
       ELSE /\ Goto("spawn", "serve")
            /\ worker' = [w \in Workers |-> IF w \in Sources_ \cup Polled(Cfg) THEN [Off EXCEPT !.pc = "wait"] ELSE Off]
            /\ UNCHANGED result
    /\ UNCHANGED <<setup, cancelled, store, dataVars, running, waited>>

\* The listener fails: Run returns though nobody cancelled ctx.
ServeFails ==
    /\ Leave("serve", "error", "stop")
    /\ UNCHANGED <<setup, cancelled, store, dataVars, worker, running, waited>>

\* srv.Shutdown closes the listener and returns when no handler runs, or when
\* its 5 s are over; it looks every now and then, so both may come.
Shutdown ==
    /\ cancelled
    /\ IF running = {} THEN Leave("serve", "ok", "stop") ELSE Goto("serve", "drain") /\ UNCHANGED result
    /\ waited' = (running # {})
    /\ UNCHANGED <<setup, cancelled, store, dataVars, worker, running>>

\* Mutant of Drained: Shutdown does not wait for handlers.
DrainedAtOnce ==
    /\ Leave("drain", "ok", "stop")
    /\ UNCHANGED <<setup, cancelled, store, dataVars, worker, running, waited>>
Drained ==
    /\ running = {}
    /\ Leave("drain", "ok", "stop")
    /\ UNCHANGED <<setup, cancelled, store, dataVars, worker, running, waited>>

GraceOver ==
    /\ Leave("drain", "deadline", "stop")
    /\ UNCHANGED <<setup, cancelled, store, dataVars, worker, running, waited>>

\* The deferred imgStop cancels the pollers' context and waits for them.
Pollers == DOMAIN Registry
Stopped(w) == worker[w].pc \in {"off", "ended"}
StopPollers ==
    /\ \A k \in Pollers : Stopped(k)
    /\ Goto("stop", "close")
    /\ UNCHANGED <<setup, result, cancelled, store, dataVars, worker, running, waited>>

CloseStore ==
    /\ Goto("close", "returned")
    /\ store' = FALSE
    /\ UNCHANGED <<setup, result, cancelled, dataVars, worker, running, waited>>

Main == \/ LoadConfig \/ OpenStore \/ Migrate \/ HotStart \/ OpenDisk \/ Listen \/ Spawn
        \/ Shutdown \/ Drained \/ GraceOver \/ StopPollers \/ CloseStore

---------------------------------------------------------------------------
(* The world: signals and clients.                                         *)

Signal ==
    /\ ~cancelled /\ phase \notin {"load", "returned"}
    /\ cancelled' = TRUE
    /\ UNCHANGED <<setup, phase, result, store, dataVars, worker, running, waited>>

Arrive(r) ==
    /\ phase = "serve" /\ r \notin running
    /\ running' = running \cup {r}
    /\ UNCHANGED <<setup, phase, result, cancelled, store, dataVars, worker, waited>>

\* A stream ends when its client goes.  The other routes have a limit of 5 s,
\* which is Shutdown's too: they also may outlast it.
Finish(r) ==
    /\ r \in running
    /\ running' = running \ {r}
    /\ UNCHANGED <<setup, phase, result, cancelled, store, dataVars, worker, waited>>

---------------------------------------------------------------------------
(* Fetchers and pollers.                                                   *)

Step(w, from, to) == worker[w].pc = from /\ worker' = [worker EXCEPT ![w].pc = to]
workerFrame == <<setup, phase, result, cancelled, store, running, waited>>

\* A poller's context also ends when imgStop is called.
\* Mutant of Done: imgStop waits and does not cancel.
DoneByCtx(w) == cancelled
Done(w) == cancelled \/ (w \in Pollers /\ phase = "stop")

Wake(w) ==
    /\ Step(w, "wait", "fetch")
    /\ UNCHANGED <<workerFrame, rows, cache, cold, succeeded>>

Quit(w) ==
    /\ Done(w)
    /\ Step(w, "wait", "off")
    /\ UNCHANGED <<workerFrame, rows, cache, cold, succeeded>>

Scheduled(w, failures) ==
    [pc |-> "wait", failures |-> failures, delay |-> Backoff(Interval(w), failures)]

\* Mutant of FetchFails: the goroutine returns on an error.
FetchFailsAndQuits(w) ==
    /\ Step(w, "fetch", "off")
    /\ UNCHANGED <<workerFrame, rows, cache, cold, succeeded>>
FetchFails(w) ==
    /\ worker[w].pc = "fetch"
    /\ worker' = [worker EXCEPT ![w] = Scheduled(w, IF @.failures < MaxFailures[w] THEN @.failures + 1 ELSE @.failures)]
    /\ UNCHANGED <<workerFrame, rows, cache, cold, succeeded>>

\* runOne takes os.ErrNotExist for an unknown key and returns; a Refresh also
\* returns it when Put finds a directory or a file of the store gone.
PollerEnds(w) ==
    /\ w \in Pollers
    /\ Step(w, "fetch", "ended")
    /\ UNCHANGED <<workerFrame, rows, cache, cold, succeeded>>

\* A fetched version that the cache does not have is stored first.
Fetched(w) ==
    /\ w \in SourceNames
    /\ \/ Step(w, "fetch", "save")
       \/ w \in cache /\ Step(w, "fetch", "set")
    /\ UNCHANGED <<workerFrame, rows, cache, cold, succeeded>>

\* Append fails when ctx is cancelled or the store closed; the tick goes on.
Save(w) ==
    /\ Step(w, "save", "set")
    /\ \/ store /\ ~cancelled /\ rows' = rows \cup {w}
       \/ UNCHANGED rows
    /\ UNCHANGED <<workerFrame, cache, cold, succeeded>>

\* Mutant of SetCache: the success is recorded before the cache is filled.
SetCacheLate(w) ==
    /\ Step(w, "set", "mark")
    /\ succeeded' = succeeded \cup {w}
    /\ UNCHANGED <<workerFrame, rows, cache, cold>>
SetCache(w) ==
    /\ Step(w, "set", "mark")
    /\ cache' = cache \cup {w}
    /\ cold' = cold \ {w}
    /\ UNCHANGED <<workerFrame, rows, succeeded>>

Succeed(w) ==
    /\ worker[w].pc = "mark"
    /\ worker' = [worker EXCEPT ![w] = Scheduled(w, 0)]
    /\ succeeded' = succeeded \cup {w}
    /\ UNCHANGED <<workerFrame, rows, cache, cold>>

Polled_(w) ==
    /\ w \in Pollers /\ worker[w].pc = "fetch"
    /\ worker' = [worker EXCEPT ![w] = Scheduled(w, 0)]
    /\ UNCHANGED <<workerFrame, rows, cache, cold, succeeded>>

\* When Run has returned main returns, and the goroutines are gone.
Work(w) ==
    /\ phase # "returned"
    /\ \/ Wake(w) \/ Quit(w) \/ FetchFails(w) \/ PollerEnds(w) \/ Fetched(w) \/ Save(w) \/ SetCache(w) \/ Succeed(w) \/ Polled_(w)

Next ==
    \/ Main \/ ServeFails \/ Signal \/ Restart
    \/ \E r \in Requests : Arrive(r) \/ Finish(r)
    \/ \E w \in Workers : Work(w)

(* Fairness: Run's own steps end (its calls have limits); a worker's timer   *)
(* fires and its fetch ends (the HTTP clients have a timeout).  Nothing makes  *)
(* a client leave, a signal come or a fetch succeed.  Of a poller's timer and  *)
(* context that are both ready, select takes the context in the end; of a    *)
(* fetcher, which nothing waits for, that is not needed.                     *)
Fairness ==
    /\ WF_vars(Main)
    /\ \A w \in Workers : WF_vars(Work(w))
    /\ \A k \in Pollers : SF_vars(Quit(k))

Spec == Init /\ [][Next]_vars /\ Fairness

---------------------------------------------------------------------------
(* Properties.                                                             *)

\* /readyz
Ready == Sources_ \subseteq succeeded

TypeOK ==
    /\ setup \in DOMAIN Setups
    /\ phase \in {"load", "open", "migrate", "hotstart", "disk", "listen", "spawn", "serve", "drain", "stop", "close", "returned"}
    /\ result \in {"", "ok", "error", "deadline", "panic"}
    /\ cancelled \in BOOLEAN /\ store \in BOOLEAN /\ waited \in BOOLEAN
    /\ rows \subseteq SourceNames /\ cache \subseteq Sources_ /\ cold \subseteq Sources_ /\ succeeded \subseteq Sources_
    /\ running \subseteq Requests
    /\ \A w \in Workers :
          /\ worker[w].pc \in {"off", "wait", "fetch", "save", "set", "mark", "ended"}
          /\ worker[w].failures \in 0..MaxFailures[w]
          /\ worker[w].pc # "off" => w \in Sources_ \cup Polled(Cfg)

\* /readyz answers 200 only when a snapshot taken from then on has every enabled
\* source, and from a fetch of this process: hot-started data does not count.
ReadyMeansComplete == phase = "serve" /\ Ready => Sources_ \subseteq cache

\* From the first request on, every source the store has a row of is in the
\* cache, but for those whose row failed, until they are fetched, and one whose
\* fetcher has stored and not yet set: a bad row leaves no other source cold.
FirstPaintIsWarm ==
    phase = "serve" =>
        \A n \in rows \cap Sources_ : n \in cache \cup cold \/ worker[n].pc = "set"

\* Run returns nil only after a signal, with every handler done; it reports the
\* deadline only when a handler ran at the signal; and it never returns while a
\* poller runs or the store is open.
StopIsOrderly ==
    /\ phase = "stop" /\ result = "ok" => cancelled /\ running = {}
    /\ result = "deadline" => cancelled /\ waited
    /\ phase = "returned" => ~store /\ \A k \in Pollers : Stopped(k)

\* The timers of the background workers: a fetcher and a prewarm poller wait at
\* least their interval between two attempts, the whole of it after an answer, and
\* never more than five however long the upstream fails.  Requests have no such
\* limit: each Get of a stale image starts a Refresh (proxy.go:163-178).
PoliteAndPersistent ==
    \A w \in Workers : worker[w].pc = "wait" /\ worker[w].delay # 0 =>
        LET base == Interval(w)
            d == worker[w].delay
        IN /\ base <= d /\ d <= 5 * base
           /\ worker[w].failures <= 1 => d = base
           /\ worker[w].failures >= 4 => d = 5 * base

\* Whatever the layers say, what the process runs with is usable: it polls at
\* positive intervals, images no faster than the floor and with a jitter that
\* does not panic; the caps are positive, or for the hot tier zero, which means
\* disabled; the number of days kept is positive (as a Duration it may wrap
\* around, server.go:357); only entries that match their pattern filter, and only
\* registered images are polled.
SettingsUsable ==
    Configured =>
    /\ \A n \in Sources_ : SourceInterval(Cfg, n) > 0
    /\ \A k \in DOMAIN Registry : ImageInterval(Cfg, k) >= Floor /\ ~JitterPanics(ImageInterval(Cfg, k))
    /\ Caps(Cfg).disk > 0 /\ Caps(Cfg).hot >= 0 /\ Caps(Cfg).entries >= 0
    /\ Cfg.scalars.retention_days > 0 /\ Cfg.window > 0
    /\ Cfg.region \subseteq Patterned /\ Cfg.products \subseteq Patterned
    /\ result # "panic"

\* The file of this process; <<>> when it has none.
Env == Setups[setup].env
File == LET path == ResolveConfigPath(Env, Setups[setup].files)
        IN IF path = "" THEN None ELSE Setups[setup].files[path]
Layer(l, s) == IF s \in DOMAIN l /\ l[s] # Null THEN l[s] ELSE None
SaysOf(l, n, field) == n \in DOMAIN l /\ field \in DOMAIN l[n]

\* The environment overrides the file and the file the defaults, for every
\* setting the process runs with: a variable that does not parse, a zero interval
\* and a source the file only mentions fall back; an image's interval is clamped
\* wherever it comes from, an invalid window replaced and invalid entries dropped
\* from the list that won.  Two exceptions: a file whose sources are null has the
\* variables of the sources not looked up, and a hot cap of 0 is replaced by the
\* default (server.go:228-235), where config.go:76-82 has it disable the tier.
LayersInOrder ==
    Configured =>
    LET env == Env
        fileScalars == IF "scalars" \in DOMAIN File THEN File.scalars ELSE None
        fileSources == Layer(File, "sources")
        envSources == IF "sources" \in DOMAIN File /\ File.sources = Null THEN None
                      ELSE [n \in DOMAIN env.sources |-> Parsed(env.sources[n])]
        Given(n, field) == IF SaysOf(envSources, n, field) THEN <<envSources[n][field]>>
                           ELSE IF SaysOf(fileSources, n, field) THEN <<fileSources[n][field]>>
                           ELSE None
        scalars == Over(Parsed(env.scalars), Over(fileScalars, Defaults.scalars))
        intervals == Over(Parsed(env.intervals), Layer(File, "intervals"))
        Listed(s) == IF s \notin DOMAIN File THEN Defaults[s] ELSE IF File[s] = Null THEN {} ELSE File[s]
    IN /\ \A s \in DOMAIN Defaults.scalars : Cfg.scalars[s] = scalars[s]
       /\ Caps(Cfg).disk = scalars.disk_max_bytes
       /\ scalars.hot_max_bytes # 0 => Caps(Cfg).hot = scalars.hot_max_bytes
       /\ scalars.hot_max_entries # 0 => Caps(Cfg).entries = scalars.hot_max_entries
       /\ \A n \in SourceNames :
             /\ n \in Enabled(Cfg) <=> Given(n, "enabled") # <<FALSE>>
             /\ SourceInterval(Cfg, n) =
                   IF Given(n, "interval") # None /\ Given(n, "interval")[1] > 0
                   THEN Given(n, "interval")[1] ELSE DefaultIntervals[n]
       /\ \A k \in DOMAIN Registry :
             ImageInterval(Cfg, k) =
                IF k \notin DOMAIN intervals \/ intervals[k] <= 0 THEN Registry[k]
                ELSE IF intervals[k] < Floor THEN Floor ELSE intervals[k]
       /\ Polled(Cfg) = (IF env.prewarm # None THEN env.prewarm[1] ELSE Listed("prewarm")) \cap DOMAIN Registry
       /\ Cfg.window = IF "window" \in DOMAIN File /\ File.window > 0 THEN File.window ELSE Defaults.window
       /\ Cfg.products = Listed("products") \cap Patterned
       /\ Cfg.region = Listed("region") \cap Patterned

\* A signal ends the process, streams or not, and so does a listener that fails.
StopEnds ==
    cancelled \/ phase = "stop" ~> phase \in {"returned", "load"}

\* Until it is stopped, the process asks every enabled source and every prewarmed
\* image again and again, however often they failed; only an image whose Refresh
\* returned os.ErrNotExist is given up.
PollsForever ==
    \A w \in Workers :
        phase = "serve" /\ w \in Sources_ \cup Polled(Cfg) ~>
            worker[w].pc = "fetch" \/ phase # "serve" \/ cancelled \/ (w \in Pollers /\ worker[w].pc = "ended")

=============================================================================
