----------------------------- MODULE ImageProxy -----------------------------
(***************************************************************************)
(* internal/imageproxy/proxy.go over its two tiers: concurrent Gets, one   *)
(* Refresh at a time per key (refreshMu), started by a Get that finds no   *)
(* copy, by a Get of a stale image or by a prewarm poller, and crashes of  *)
(* the process, which leave only the disk.                                 *)
(*                                                                         *)
(* There is no clock: any cached image may be past its interval, a poller  *)
(* may always fire.  ETag and Last-Modified are one validator.  Touching   *)
(* LastAccess and copying the index for the manifest are one step, as are  *)
(* markValidator and markSuccess.                                          *)
(***************************************************************************)
EXTENDS HotTier, DiskStore

CONSTANTS Getters,   \* handlers of GET /img/{source}/{name}
          Prewarm,   \* keys polled in the background
          MaxGets,   \* bound: Gets in a behaviour
          MaxCrashes \* bound: crashes in a behaviour

ASSUME ProxyAssumption ==
    /\ Prewarm \subseteq Keys /\ "none" \notin Getters
    /\ MaxGets \in Nat /\ MaxCrashes \in Nat

VARIABLES
    world,     \* world[k]: the version the upstream serves
    st,        \* st[k]: entryState: etag, hash, whether failing, whether ever ok
    ref,       \* ref[k]: the Refresh that holds k's refreshMu
    async,     \* async[k]: refreshAsync goroutines waiting for refreshMu
    poll,      \* poll[k]: the prewarm poller waits for its timer, refreshes, or is off
    get,       \* get[g]: the Get that g runs
    answer,    \* answer[g]: what its last Get returned
    announced, \* announced[k]: the version of the last image.invalidate
    raced,     \* history: a Get held an older disk read of k during a hot.Put
    gets,      \* Gets started so far
    crashes    \* crashes so far

proxyVars == <<st, ref, async, poll, get, answer, announced, raced>>
vars == <<hotVars, diskVars, world, proxyVars, gets, crashes>>

NoManifest == [entries |-> [k \in Keys |-> NoEntry], recency |-> <<>>]
NoState == [etag |-> None, hash |-> None, failing |-> FALSE, ok |-> FALSE]
IdleRef == [pc |-> "idle", by |-> "none", body |-> None, man |-> NoManifest]
IdleGet == [pc |-> "idle", key |-> "none", ent |-> NoEntry, body |-> None,
            man |-> NoManifest, floor |-> None]
NoAnswer == [key |-> "none", body |-> None, tag |-> None, floor |-> None, err |-> "none"]

Pollers == [k \in Keys |-> IF k \in Prewarm THEN "timer" ELSE "off"]

Init ==
    /\ HotInit
    /\ DiskInit
    /\ world = [k \in Keys |-> 1]
    /\ st = [k \in Keys |-> NoState]
    /\ ref = [k \in Keys |-> IdleRef]
    /\ async = [k \in Keys |-> 0]
    /\ poll = Pollers
    /\ get = [g \in Getters |-> IdleGet]
    /\ answer = [g \in Getters |-> NoAnswer]
    /\ announced = [k \in Keys |-> None]
    /\ raced = [k \in Keys |-> FALSE]
    /\ gets = 0
    /\ crashes = 0

\* The upstream publishes another version.
Change(k) ==
    /\ world[k] < MaxBody
    /\ world' = [world EXCEPT ![k] = @ + 1]
    /\ UNCHANGED <<hotVars, diskVars, proxyVars, gets, crashes>>

-----------------------------------------------------------------------------
\* Refresh.

RefPc(k, pc) == ref' = [ref EXCEPT ![k].pc = pc]

\* Refresh returns and unlocks refreshMu; the Get that called it goes on.
Return(k, err) ==
    /\ ref' = [ref EXCEPT ![k] = IdleRef]
    /\ get' = [g \in Getters |->
                 IF g = ref[k].by
                 THEN [get[g] EXCEPT !.pc = IF err THEN "failed" ELSE "again"]
                 ELSE get[g]]

\* The poller, if it was its Refresh, waits for its timer again.
Reschedule(k) == poll' = [poll EXCEPT ![k] = IF @ = "refresh" THEN "timer" ELSE @]

\* A poller's or an asynchronous Refresh gets the lock and sends the request.
RefreshAsync(k) ==
    /\ ref[k].pc = "idle"
    /\ \/ async[k] > 0 /\ async' = [async EXCEPT ![k] = @ - 1] /\ UNCHANGED poll
       \/ poll[k] = "timer" /\ poll' = [poll EXCEPT ![k] = "refresh"] /\ UNCHANGED async
    /\ RefPc(k, "sent")
    /\ UNCHANGED <<hotVars, diskVars, world, st, get, answer, announced, raced, gets, crashes>>

Fail(k) == st' = [st EXCEPT ![k].failing = TRUE]

\* Mutant of RefreshFails: an early return leaves refreshMu locked.
RefreshFailsLocked(k) ==
    /\ ref[k].pc = "sent"
    /\ Fail(k)
    /\ RefPc(k, "stuck")
    /\ UNCHANGED <<hotVars, diskVars, world, async, poll, get, answer, announced, raced, gets, crashes>>

\* Transport, status, body or content type: markFailure.
RefreshFails(k) ==
    /\ ref[k].pc = "sent"
    /\ Fail(k)
    /\ Return(k, TRUE)
    /\ Reschedule(k)
    /\ UNCHANGED <<hotVars, diskVars, world, async, answer, announced, raced, gets, crashes>>

ETagOf(b) == IF b \in Tagged THEN b ELSE None

\* 304, or 200 with the body that was stored last.
RefreshUnchanged(k) ==
    /\ ref[k].pc = "sent"
    /\ \/ st[k].etag # None /\ st[k].etag = world[k]
       \/ st[k].hash = world[k]
    /\ st' = [st EXCEPT ![k] = [@ EXCEPT !.etag = ETagOf(world[k]),
                                         !.failing = FALSE, !.ok = TRUE]]
    /\ Return(k, FALSE)
    /\ Reschedule(k)
    /\ UNCHANGED <<hotVars, diskVars, world, async, answer, announced, raced, gets, crashes>>

\* Mutant of RefreshChanged: the hash is kept before the body is stored.
RefreshChangedMarks(k) ==
    /\ ref[k].pc = "sent"
    /\ st[k].etag # world[k]
    /\ st[k].hash # world[k]
    /\ ref' = [ref EXCEPT ![k].pc = "bin", ![k].body = world[k]]
    /\ st' = [st EXCEPT ![k].hash = world[k]]
    /\ UNCHANGED <<hotVars, diskVars, world, async, poll, get, answer, announced, raced, gets, crashes>>

\* 200 with another body: Put begins.
RefreshChanged(k) ==
    /\ ref[k].pc = "sent"
    /\ st[k].etag # world[k]
    /\ st[k].hash # world[k]
    /\ ref' = [ref EXCEPT ![k].pc = "bin", ![k].body = world[k]]
    /\ UNCHANGED <<hotVars, diskVars, world, st, async, poll, get, answer, announced, raced, gets, crashes>>

\* Writing the image or its metadata fails: Put returns the error.  If it is an
\* os.ErrNotExist (the directory went away), a poller takes the key for an unknown
\* one and ends.
PutFails(k) ==
    /\ ref[k].pc \in {"bin", "json"}
    /\ Fail(k)
    /\ Return(k, TRUE)
    /\ \/ Reschedule(k)
       \/ poll[k] = "refresh" /\ poll' = [poll EXCEPT ![k] = "off"]
    /\ UNCHANGED <<hotVars, diskVars, world, async, answer, announced, raced, gets, crashes>>

PutBin(k) ==
    /\ ref[k].pc = "bin"
    /\ WriteBin(k, ref[k].body)
    /\ RefPc(k, "json")
    /\ UNCHANGED <<hotVars, world, st, async, poll, get, answer, announced, raced, gets, crashes>>

PutJson(k) ==
    /\ ref[k].pc = "json"
    /\ WriteJson(k)
    /\ RefPc(k, "register")
    /\ UNCHANGED <<hotVars, world, st, async, poll, get, answer, announced, raced, gets, crashes>>

PutRegister(k) ==
    /\ ref[k].pc = "register"
    /\ Register(k, ref[k].body)
    /\ RefPc(k, "evict")
    /\ UNCHANGED <<hotVars, world, st, async, poll, get, answer, announced, raced, gets, crashes>>

PutEvict(k) ==
    /\ ref[k].pc = "evict"
    /\ EvictIfOverCap
    /\ RefPc(k, "copy")
    /\ UNCHANGED <<hotVars, world, st, async, poll, get, answer, announced, raced, gets, crashes>>

PutCopy(k) ==
    /\ ref[k].pc = "copy"
    /\ ref' = [ref EXCEPT ![k].pc = "manifest", ![k].man = Snapshot]
    /\ UNCHANGED <<hotVars, diskVars, world, st, async, poll, get, answer, announced, raced, gets, crashes>>

PutManifest(k) ==
    /\ ref[k].pc = "manifest"
    /\ WriteManifest(ref[k].man)
    /\ ref' = [ref EXCEPT ![k].pc = "hot", ![k].man = NoManifest]
    /\ UNCHANGED <<hotVars, world, st, async, poll, get, answer, announced, raced, gets, crashes>>

\* A Get of k is between its disk lookup and its hot.Put.
Holding(k) == \E g \in Getters : get[g].key = k /\ get[g].pc \in {"read", "touch", "manifest", "warm"}

\* Mutant of RefreshHot: the new image waits on disk for the next miss.
RefreshHotLazy(k) ==
    /\ ref[k].pc = "hot"
    /\ raced' = [raced EXCEPT ![k] = @ \/ Holding(k)]
    /\ RefPc(k, "mark")
    /\ UNCHANGED <<hotVars, diskVars, world, st, async, poll, get, answer, announced, gets, crashes>>

\* p.hot.Put, in a Refresh.
RefreshHot(k) ==
    /\ ref[k].pc = "hot"
    /\ HotPut(k, ref[k].body, ref[k].body)
    /\ raced' = [raced EXCEPT ![k] = @ \/ Holding(k)]
    /\ RefPc(k, "mark")
    /\ UNCHANGED <<diskVars, world, st, async, poll, get, answer, announced, gets, crashes>>

\* Mutant of RefreshMark: the hash of the stored body is not kept.
RefreshMarkNoHash(k) ==
    /\ ref[k].pc = "mark"
    /\ st' = [st EXCEPT ![k] = [etag |-> ETagOf(ref[k].body), hash |-> None,
                                failing |-> FALSE, ok |-> TRUE]]
    /\ RefPc(k, "announce")
    /\ UNCHANGED <<hotVars, diskVars, world, async, poll, get, answer, announced, raced, gets, crashes>>

\* markValidator and markSuccess.
RefreshMark(k) ==
    /\ ref[k].pc = "mark"
    /\ st' = [st EXCEPT ![k] = [etag |-> ETagOf(ref[k].body), hash |-> ref[k].body,
                                failing |-> FALSE, ok |-> TRUE]]
    /\ RefPc(k, "announce")
    /\ UNCHANGED <<hotVars, diskVars, world, async, poll, get, answer, announced, raced, gets, crashes>>

\* onInvalidate broadcasts image.invalidate; Refresh returns.
Announce(k) ==
    /\ ref[k].pc = "announce"
    /\ announced' = [announced EXCEPT ![k] = ref[k].body]
    /\ Return(k, FALSE)
    /\ Reschedule(k)
    /\ UNCHANGED <<hotVars, diskVars, world, st, async, answer, raced, gets, crashes>>

-----------------------------------------------------------------------------
\* Get.

GetPc(g, pc) == get' = [get EXCEPT ![g].pc = pc]

\* Get returns an image; a stale one starts a refreshAsync.  A failure since
\* the last success makes it stale; so may its age.
Serve(g, k, b, t, floor) ==
    /\ answer' = [answer EXCEPT ![g] = [key |-> k, body |-> b, tag |-> t,
                                        floor |-> floor, err |-> "none"]]
    /\ get' = [get EXCEPT ![g] = IdleGet]
    /\ \/ async' = [async EXCEPT ![k] = @ + 1]
       \/ UNCHANGED async /\ ~(st[k].failing /\ st[k].ok)

\* A request arrives and looks in the hot tier.
GetHit(g, k) ==
    /\ get[g].pc = "idle"
    /\ gets < MaxGets
    /\ gets' = gets + 1
    /\ HotHas(k)
    /\ HotTouch(k)
    /\ Serve(g, k, HotEntry(k).body, HotEntry(k).tag, announced[k])
    /\ UNCHANGED <<diskVars, world, st, ref, poll, announced, raced, crashes>>

GetMiss(g, k) ==
    /\ get[g].pc = "idle"
    /\ gets < MaxGets
    /\ gets' = gets + 1
    /\ ~HotHas(k)
    /\ get' = [get EXCEPT ![g] = [IdleGet EXCEPT !.pc = "lookup", !.key = k,
                                                 !.floor = announced[k]]]
    /\ answer' = [answer EXCEPT ![g] = NoAnswer]
    /\ UNCHANGED <<hotVars, diskVars, world, st, ref, async, poll, announced, raced, crashes>>

\* DiskStore.Get: the entry, under s.mu.
GetLookup(g) ==
    /\ get[g].pc = "lookup"
    /\ LET e == entries[get[g].key] IN
       get' = [get EXCEPT ![g].pc = IF e = NoEntry THEN "refresh" ELSE "read",
                          ![g].ent = e]
    /\ UNCHANGED <<hotVars, diskVars, world, st, ref, async, poll, answer, announced, raced, gets, crashes>>

\* DiskStore.Get: the file, after s.mu is released.
GetRead(g) ==
    /\ get[g].pc = "read"
    /\ LET b == bin[get[g].key] IN
       get' = IF b = None
              THEN [get EXCEPT ![g].pc = "refresh", ![g].ent = NoEntry]
              ELSE [get EXCEPT ![g].pc = "touch", ![g].body = b]
    /\ UNCHANGED <<hotVars, diskVars, world, st, ref, async, poll, answer, announced, raced, gets, crashes>>

\* DiskStore.Get: LastAccess, and the index is copied for the manifest.
GetTouch(g) ==
    /\ get[g].pc = "touch"
    /\ Touch(get[g].key, get[g].ent)
    /\ get' = [get EXCEPT ![g].pc = "manifest",
                          ![g].man = [entries |-> entries, recency |-> recency']]
    /\ UNCHANGED <<hotVars, world, st, ref, async, poll, answer, announced, raced, gets, crashes>>

GetManifest(g) ==
    /\ get[g].pc = "manifest"
    /\ WriteManifest(get[g].man)
    /\ get' = [get EXCEPT ![g].pc = "warm", ![g].man = NoManifest]
    /\ UNCHANGED <<hotVars, world, st, ref, async, poll, answer, announced, raced, gets, crashes>>

\* The disk's image goes into the hot tier and to the client.
GetWarm(g) ==
    /\ get[g].pc = "warm"
    /\ HotPut(get[g].key, get[g].body, get[g].ent.tag)
    /\ Serve(g, get[g].key, get[g].body, get[g].ent.tag, get[g].floor)
    /\ UNCHANGED <<diskVars, world, st, ref, poll, announced, raced, gets, crashes>>

\* No copy: the Get takes refreshMu and calls Refresh itself.
GetRefresh(g) ==
    /\ get[g].pc = "refresh"
    /\ ref[get[g].key].pc = "idle"
    /\ ref' = [ref EXCEPT ![get[g].key].pc = "sent", ![get[g].key].by = g]
    /\ GetPc(g, "wait")
    /\ UNCHANGED <<hotVars, diskVars, world, st, async, poll, answer, announced, raced, gets, crashes>>

Answer502(g, err) ==
    /\ answer' = [answer EXCEPT ![g] = [NoAnswer EXCEPT !.key = get[g].key, !.err = err]]
    /\ get' = [get EXCEPT ![g] = IdleGet]

GetFailed(g) ==
    /\ get[g].pc = "failed"
    /\ Answer502(g, "upstream")
    /\ UNCHANGED <<hotVars, diskVars, world, st, ref, async, poll, announced, raced, gets, crashes>>

\* Its Refresh succeeded: the hot tier is read again.
GetAgain(g) ==
    /\ get[g].pc = "again"
    /\ LET k == get[g].key IN
       IF HotHas(k)
       THEN /\ HotTouch(k)
            /\ answer' = [answer EXCEPT ![g] = [key |-> k, body |-> HotEntry(k).body,
                                                tag |-> HotEntry(k).tag,
                                                floor |-> get[g].floor, err |-> "none"]]
            /\ get' = [get EXCEPT ![g] = IdleGet]
       ELSE Answer502(g, "empty") /\ UNCHANGED hotVars
    /\ UNCHANGED <<diskVars, world, st, ref, async, poll, announced, raced, gets, crashes>>

\* Stats asks the disk for every key's length, as if it were read: the key becomes
\* the most recent.  One step: its reads race as those of Get do.
StatsGet(k) ==
    /\ entries[k] # NoEntry /\ bin[k] # None
    /\ recency' = Append(Without(recency, {k}), k)
    /\ manifest' = [entries |-> entries, recency |-> recency']
    /\ UNCHANGED <<hotVars, entries, bytes, bin, json, world, proxyVars, gets, crashes>>

-----------------------------------------------------------------------------
\* The process crashes and starts again: the disk is what is left, and the
\* index is read from the manifest.
Crash ==
    /\ crashes < MaxCrashes
    /\ crashes' = crashes + 1
    /\ hot' = <<>> /\ hotBytes' = 0
    /\ LoadManifest
    /\ st' = [k \in Keys |-> NoState]
    /\ ref' = [k \in Keys |-> IdleRef]
    /\ async' = [k \in Keys |-> 0]
    /\ poll' = Pollers
    /\ get' = [g \in Getters |-> IdleGet]
    /\ answer' = [g \in Getters |-> NoAnswer]
    /\ UNCHANGED <<world, announced, raced, gets>>

Put(k) == PutFails(k) \/ PutBin(k) \/ PutJson(k) \/ PutRegister(k) \/ PutEvict(k)
          \/ PutCopy(k) \/ PutManifest(k)
Refresh(k) == RefreshAsync(k) \/ RefreshFails(k) \/ RefreshUnchanged(k) \/ RefreshChanged(k)
              \/ Put(k) \/ RefreshHot(k) \/ RefreshMark(k) \/ Announce(k)
GetStep(g) == GetLookup(g) \/ GetRead(g) \/ GetTouch(g) \/ GetManifest(g) \/ GetWarm(g)
              \/ GetRefresh(g) \/ GetFailed(g) \/ GetAgain(g)
Next == \/ \E k \in Keys : Change(k) \/ Refresh(k) \/ StatsGet(k)
        \/ \E g \in Getters : GetStep(g) \/ \E k \in Keys : GetHit(g, k) \/ GetMiss(g, k)
        \/ Crash

Spec == Init /\ [][Next]_vars

-----------------------------------------------------------------------------
RefPcs == {"idle", "sent", "bin", "json", "register", "evict", "copy", "manifest",
           "hot", "mark", "announce"}
GetPcs == {"idle", "lookup", "read", "touch", "manifest", "warm", "refresh", "wait",
           "failed", "again"}
Versions == Bodies \cup {None}
TypeOK ==
    /\ HotTypeOK
    /\ DiskTypeOK
    /\ world \in [Keys -> Bodies]
    /\ st \in [Keys -> [etag : Tagged \cup {None}, hash : Versions,
                        failing : BOOLEAN, ok : BOOLEAN]]
    /\ ref \in [Keys -> [pc : RefPcs, by : Getters \cup {"none"}, body : Versions,
                         man : Manifests]]
    /\ async \in [Keys -> Nat]
    /\ poll \in [Keys -> {"timer", "refresh", "off"}]
    /\ get \in [Getters -> [pc : GetPcs, key : Keys \cup {"none"}, ent : Entries,
                            body : Versions, man : Manifests, floor : Versions]]
    /\ answer \in [Getters -> [key : Keys \cup {"none"}, body : Versions, tag : Versions,
                               floor : Versions, err : {"none", "upstream", "empty"}]]
    /\ announced \in [Keys -> Versions]
    /\ raced \in [Keys -> BOOLEAN]
    /\ gets \in 0..MaxGets
    /\ crashes \in 0..MaxCrashes

\* Both tiers' accounting is exact after any order of puts, replacements,
\* touches, evictions and restarts: in memory both caps hold and a key is listed
\* once; on disk the byte count is the sum of the entries' lengths and the recency
\* order lists each entry once.
TiersExact == HotBounded /\ DiskIndexExact

\* A client that reloads an image after its image.invalidate gets that version or
\* a newer one, across crashes, evictions and failures, unless a Get held an older
\* disk read of the key while a Refresh stored a newer image, or a version was
\* too large for the hot tier, which then keeps the one before.
ReloadIsOldOnlyByRaceOrSize ==
    \A g \in Getters :
        LET a == answer[g] IN
        a.key # "none" /\ a.err = "none" =>
            \/ a.body >= a.floor
            \/ raced[a.key]
            \/ \E b \in 1..world[a.key] : Size[b] > HotMaxBytes

\* image.invalidate tells of a change: until the process restarts, no version is
\* announced twice in a row, whatever fails between its Put and its announcement.
AnnouncesChanges ==
    [][\A k \in Keys : Announce(k) /\ crashes = 0 => announced'[k] # announced[k]]_vars

-----------------------------------------------------------------------------
\* Goroutines run, a mutex is granted to a Get that waits for it, the timer of a
\* poller that has not ended fires, and an upstream and a disk that are asked again
\* and again work again and again.
Fairness ==
    /\ \A k \in Keys :
         /\ WF_vars(Refresh(k))
         /\ SF_vars(RefreshUnchanged(k) \/ RefreshChanged(k))
         /\ SF_vars(PutBin(k)) /\ SF_vars(PutJson(k))
    /\ \A g \in Getters : WF_vars(GetStep(g)) /\ SF_vars(GetRefresh(g))
FairSpec == Spec /\ Fairness

\* Every Get is answered, whatever its Refresh and the others' run into: no path
\* out of Refresh keeps refreshMu.
GetAnswers == \A g \in Getters : []<>(get[g].pc = "idle")

\* Once the upstream settles and answers, the last image.invalidate of a
\* prewarmed key is for the version it serves, through failures and a crash at
\* any point of a Put, unless a Put that failed with os.ErrNotExist ended its poller.
AnnouncementsCatchUp ==
    \A k \in Prewarm : <>[](announced[k] = world[k] \/ poll[k] = "off")
=============================================================================
