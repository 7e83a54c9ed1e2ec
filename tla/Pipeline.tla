------------------------------ MODULE Pipeline ------------------------------
(***************************************************************************)
(* One source from its upstream to the clients: internal/sources Fetch,    *)
(* internal/fetcher tick, the cache slot, internal/store and the hot start *)
(* of internal/server, with crashes of the process and the prune loop.     *)
(*                                                                         *)
(* The upstream serves one of several versions of a list; a version may be *)
(* an empty list, and may be served without an ETag.  A source that hashes *)
(* what it fetched is the case where every version has a tag and the       *)
(* upstream never answers 304.                                             *)
(*                                                                         *)
(* There is no clock: a row's fetched_at is its place in rows (a tick      *)
(* starts later than the one before, so ON CONFLICT never applies), the    *)
(* timer may fire whenever the fetcher waits, and the prune cutoff may     *)
(* fall after any row.  cache.Set is one step here; Cache has its own.     *)
(***************************************************************************)
EXTENDS Naturals, Sequences

CONSTANTS Versions,   \* what the upstream may serve: positive numbers
          Tagged,     \* versions served with an ETag (or hashed)
          Empty,      \* versions that are empty lists
          MaxChanges, \* bound: changes of the upstream
          MaxCrashes, \* bound: stops of the process
          MaxFailures \* bound: consecutive failures counted

ASSUME PipelineAssumption ==
    /\ Versions \subseteq Nat \ {0}
    /\ Versions # {}
    /\ Tagged \subseteq Versions
    /\ Empty \subseteq Versions
    /\ MaxChanges \in Nat
    /\ MaxCrashes \in Nat
    /\ MaxFailures \in Nat \ {0}

Null == 0  \* a nil slice: JSON null where an empty list is [] ; as a tag: none
None == [tag |-> Null, payload |-> Null]
Results == [tag : Tagged \cup {Null}, payload : Versions \cup {Null}]

VARIABLES
    world,    \* the version the upstream serves
    changes,  \* changes of the upstream so far
    crashes,  \* stops of the process so far
    pc,       \* where the fetcher goroutine is; "down" when the process is not up
    prior,    \* lastETag and lastQuakes (lastVolcs) of the source
    res,      \* the FetchResult of the current tick
    hit,      \* cache.Get's hit indicator for the source
    latest,   \* the cached envelope
    rows,     \* the source's rows in SQLite, oldest first
    err,      \* health.LastError is set
    fails,    \* failures, the local of Run
    reported, \* health.ConsecutiveFailures
    etag,     \* health.ETag
    seen,     \* history: what a client connected since boot displays
    lost,     \* history: latest's row was not stored (encode or Append failed)
    wiped,    \* history: Prune deleted latest's row
    faults,   \* history: some Append, encode or hot start failed so far
    fresh     \* the newest row was stored in the current tick

sourceVars == <<prior, res>>
cacheVars == <<hit, latest, seen>>
healthVars == <<err, fails, reported, etag>>
histVars == <<lost, wiped, faults, fresh>>
vars == <<world, changes, crashes, pc, sourceVars, cacheVars, rows, healthVars, histVars>>

TagOf(v) == IF v \in Tagged THEN v ELSE Null
Last(q) == q[Len(q)]

\* append([]Quake(nil), list...): the copy of an empty list is nil.
Copied(p) == IF p \in Empty THEN Null ELSE p

Init ==
    /\ world \in Versions
    /\ changes = 0
    /\ crashes = 0
    /\ pc = "down"
    /\ prior = None
    /\ res = None
    /\ hit = FALSE
    /\ latest = None
    /\ rows = <<>>
    /\ err = FALSE
    /\ fails = 0
    /\ reported = 0
    /\ etag = Null
    /\ seen = Null
    /\ lost = FALSE
    /\ wiped = FALSE
    /\ faults = FALSE
    /\ fresh = FALSE

\* The upstream publishes another version, or returns to an earlier one.
Change ==
    /\ changes < MaxChanges
    /\ changes' = changes + 1
    /\ world' \in Versions \ {world}
    /\ UNCHANGED <<crashes, pc, sourceVars, cacheVars, rows, healthVars, histVars>>

\* server.Run: the cache is filled from store.Latest, then the fetcher is built
\* and started.  A Latest or decode error leaves the cache empty.
Boot ==
    /\ pc = "down"
    /\ pc' = "wait"
    /\ \/ /\ rows # <<>>
          /\ hit' = TRUE
          /\ latest' = Last(rows)
          /\ seen' = Last(rows).payload
          /\ UNCHANGED faults
       \/ /\ hit' = FALSE
          /\ latest' = None
          /\ seen' = Null
          /\ faults' = (faults \/ rows # <<>>)
    /\ prior' = None
    /\ res' = None
    /\ err' = FALSE
    /\ fails' = 0
    /\ reported' = 0
    /\ etag' = Null
    /\ lost' = FALSE
    /\ fresh' = FALSE
    /\ UNCHANGED <<world, changes, crashes, rows, wiped>>

\* The process stops, at any point of a tick; only rows survive.
Stop ==
    /\ pc # "down"
    /\ crashes < MaxCrashes
    /\ crashes' = crashes + 1
    /\ pc' = "down"
    /\ UNCHANGED <<world, changes, sourceVars, cacheVars, rows, healthVars, histVars>>

\* The timer fires; Fetch reads lastETag and sends the request.
StartTick ==
    /\ pc = "wait"
    /\ pc' = "fetch"
    /\ UNCHANGED <<world, changes, crashes, sourceVars, cacheVars, rows, healthVars, histVars>>

\* Fetch, 200: the parsed list and its ETag are kept for the next request.
Fetch200 ==
    /\ pc = "fetch"
    /\ pc' = "fetched"
    /\ res' = [tag |-> TagOf(world), payload |-> world]
    /\ prior' = res'
    /\ UNCHANGED <<world, changes, crashes, cacheVars, rows, healthVars, histVars>>

\* Fetch, 304: the prior payload (a copy) and the prior ETag.
Fetch304 ==
    /\ pc = "fetch"
    /\ prior.tag # Null
    /\ prior.tag = TagOf(world)
    /\ pc' = "fetched"
    /\ res' = [tag |-> prior.tag, payload |-> Copied(prior.payload)]
    /\ UNCHANGED <<world, changes, crashes, prior, cacheVars, rows, healthVars, histVars>>

\* Mutant of FetchFails: the ETag is kept before the body is read and parsed.
FetchFailsKeepsETag ==
    /\ pc = "fetch"
    /\ pc' = "failed"
    /\ err' = TRUE
    /\ prior' = [prior EXCEPT !.tag = TagOf(world)]
    /\ UNCHANGED <<world, changes, crashes, res, cacheVars, rows,
                   fails, reported, etag, histVars>>

\* Fetch fails (transport, status, body or parse): tick records the error.
FetchFails ==
    /\ pc = "fetch"
    /\ pc' = "failed"
    /\ err' = TRUE
    /\ UNCHANGED <<world, changes, crashes, sourceVars, cacheVars, rows,
                   fails, reported, etag, histVars>>

\* Mutants of Decide: every successful fetch is persisted; a missing cached
\* envelope is taken for an unchanged one.
DecideAlways ==
    /\ pc = "fetched"
    /\ pc' = "persist"
    /\ UNCHANGED <<world, changes, crashes, sourceVars, cacheVars, rows, healthVars, histVars>>

DecideIgnoresMiss ==
    /\ pc = "fetched"
    /\ pc' = IF hit /\ latest.tag # res.tag THEN "persist" ELSE "set"
    /\ UNCHANGED <<world, changes, crashes, sourceVars, cacheVars, rows, healthVars, histVars>>

\* cache.Get, and whether the validator differs from the cached one.
Decide ==
    /\ pc = "fetched"
    /\ pc' = IF ~hit \/ latest.tag # res.tag THEN "persist" ELSE "set"
    /\ UNCHANGED <<world, changes, crashes, sourceVars, cacheVars, rows, healthVars, histVars>>

\* encodePayloadJSON and store.Append succeed.
Persist ==
    /\ pc = "persist"
    /\ pc' = "set"
    /\ rows' = Append(rows, res)
    /\ lost' = FALSE
    /\ wiped' = FALSE
    /\ fresh' = TRUE
    /\ UNCHANGED <<world, changes, crashes, sourceVars, cacheVars, healthVars, faults>>

\* One of them fails: logged, and the tick goes on to cache.Set.
PersistFails ==
    /\ pc = "persist"
    /\ pc' = "set"
    /\ lost' = TRUE
    /\ faults' = TRUE
    /\ UNCHANGED <<world, changes, crashes, sourceVars, cacheVars, rows, healthVars, wiped, fresh>>

\* cache.Set broadcasts unless the validator is the same and not empty.
Broadcasts == ~hit \/ latest.tag # res.tag \/ res.tag = Null

\* Mutant of SetCache: the first envelope is stored with no broadcast.
SetCacheQuietFirst ==
    /\ pc = "set"
    /\ pc' = "health"
    /\ hit' = TRUE
    /\ latest' = res
    /\ seen' = IF hit /\ Broadcasts THEN res.payload ELSE seen
    /\ UNCHANGED <<world, changes, crashes, sourceVars, rows, healthVars, histVars>>

\* cache.Set: store the envelope and broadcast it.
SetCache ==
    /\ pc = "set"
    /\ pc' = "health"
    /\ hit' = TRUE
    /\ latest' = res
    /\ seen' = IF Broadcasts THEN res.payload ELSE seen
    /\ UNCHANGED <<world, changes, crashes, sourceVars, rows, healthVars, histVars>>

\* Mutant of Succeed: the error is cleared only when the validator changed.
SucceedIfChanged ==
    /\ pc = "health"
    /\ pc' = "succeeded"
    /\ err' = IF etag = res.tag THEN err ELSE FALSE
    /\ etag' = res.tag
    /\ UNCHANGED <<world, changes, crashes, sourceVars, cacheVars, rows, fails, reported, histVars>>

\* tick's last critical section: LastSuccess, LastError, ETag.
Succeed ==
    /\ pc = "health"
    /\ pc' = "succeeded"
    /\ err' = FALSE
    /\ etag' = res.tag
    /\ UNCHANGED <<world, changes, crashes, sourceVars, cacheVars, rows, fails, reported, histVars>>

\* Back in Run: failures is counted and reported, the timer is reset.
EndTick ==
    /\ pc \in {"failed", "succeeded"}
    /\ pc' = "wait"
    /\ fails' = IF pc = "succeeded" THEN 0
                ELSE IF fails < MaxFailures THEN fails + 1 ELSE fails
    /\ reported' = fails'
    /\ fresh' = FALSE
    /\ UNCHANGED <<world, changes, crashes, sourceVars, cacheVars, rows, err, etag,
                   lost, wiped, faults>>

\* runPrune: DELETE ... WHERE fetched_at < cutoff.  The retention is a day or
\* more and a tick a minute at most: a row is not deleted in its own tick.
Prune ==
    /\ pc # "down"
    /\ \E k \in 1..Len(rows) :
         /\ k < Len(rows) \/ ~fresh
         /\ rows' = SubSeq(rows, k + 1, Len(rows))
         /\ wiped' = (wiped \/ k = Len(rows))
    /\ UNCHANGED <<world, changes, crashes, pc, sourceVars, cacheVars, healthVars,
                   lost, faults, fresh>>

Tick == \/ StartTick \/ Fetch200 \/ Fetch304 \/ FetchFails \/ Decide \/ Persist
        \/ PersistFails \/ SetCache \/ Succeed \/ EndTick
Next == Tick \/ Boot \/ Stop \/ Change \/ Prune

Spec == Init /\ [][Next]_vars

-----------------------------------------------------------------------------
TypeOK ==
    /\ world \in Versions
    /\ changes \in 0..MaxChanges
    /\ crashes \in 0..MaxCrashes
    /\ pc \in {"down", "wait", "fetch", "failed", "fetched", "persist", "set",
               "health", "succeeded"}
    /\ prior \in Results
    /\ res \in Results
    /\ hit \in BOOLEAN
    /\ latest \in Results
    /\ rows \in Seq(Results)
    /\ err \in BOOLEAN
    /\ fails \in 0..MaxFailures
    /\ reported \in 0..MaxFailures
    /\ etag \in Tagged \cup {Null}
    /\ seen \in Versions \cup {Null}
    /\ lost \in BOOLEAN
    /\ wiped \in BOOLEAN
    /\ faults \in BOOLEAN
    /\ fresh \in BOOLEAN

\* An envelope's payload is the list its validator names.
Matches(e) == e.tag # Null => e.payload \in {e.tag, Copied(e.tag)}

\* Whatever 200s, 304s, failures and restarts interleave, a payload is never
\* paired with another version's validator: in the source's memory, in the
\* cache, or in a stored row that a later hot start trusts.
PayloadMatchesValidator ==
    /\ Matches(prior)
    /\ Matches(res)
    /\ Matches(latest)
    /\ \A k \in 1..Len(rows) : Matches(rows[k])

\* Between ticks the newest row is the cached version, so that a restart shows
\* what clients saw, unless storing it failed, Prune deleted it, or the version
\* has no validator.
StoreKeepsUp ==
    pc = "wait" /\ hit /\ latest.tag # Null =>
        \/ lost
        \/ wiped
        \/ rows # <<>> /\ Last(rows).tag = latest.tag

\* History holds changes: adjacent rows differ in their validator, unless an
\* Append or a hot start failed before.
RowsAreChanges ==
    faults \/ \A k \in 2..Len(rows) : rows[k].tag # rows[k - 1].tag

\* Between ticks /api/sources is consistent: it reports an error exactly when
\* it reports failures, and after a success the cached envelope's validator.
HealthTellsTruth ==
    pc = "wait" =>
        /\ err <=> reported > 0
        /\ etag # Null => etag = latest.tag

\* "Persist to store before broadcasting so that any subscriber that reads
\* Latest() immediately upon receiving the envelope sees the row": so it does,
\* unless storing it failed, Prune came between, or the version has no validator
\* (an empty one equals the last, and nothing is appended).
RowPrecedesBroadcast ==
    [][SetCache /\ Broadcasts /\ ~lost /\ ~wiped /\ res.tag # Null
          => rows # <<>> /\ Last(rows).payload = res.payload]_vars

-----------------------------------------------------------------------------
\* The process is restarted, the goroutine runs, and an upstream and a store that
\* are asked again and again answer again and again.
Fairness ==
    /\ WF_vars(Boot)
    /\ WF_vars(StartTick)
    /\ SF_vars(Fetch200 \/ Fetch304)
    /\ WF_vars(Decide)
    /\ WF_vars(Persist \/ PersistFails)
    /\ WF_vars(SetCache)
    /\ WF_vars(Succeed)
    /\ WF_vars(EndTick)
FairSpec == Spec /\ Fairness

\* A client displays the upstream's version in the end (changes and crashes are
\* bounded, so the upstream settles).
ClientsCatchUp == <>[](seen \in {world, Copied(world)})
=============================================================================
