------------------------------- MODULE Cache -------------------------------
(***************************************************************************)
(* internal/cache/cache.go: the latest envelope per source and the fan-out *)
(* of changes to subscribers.                                              *)
(*                                                                         *)
(* An envelope of source s is the index of the Set call that stored it;    *)
(* log[s] lists the validators of those envelopes, so that c.latest[s] is  *)
(* the last entry of log[s].  c.subscribers[s] is a Go slice: a backing    *)
(* array (array[s], its length is the slice's capacity) and a length       *)
(* (count[s]).  Set takes a copy of the slice HEADER under c.mu and ranges *)
(* over it after c.mu is released, while Subscribe and the unsubscribe     *)
(* goroutine write the SAME backing array under c.mu.  The model keeps     *)
(* that sharing: a Set in flight reads array[s] unless the array was       *)
(* reallocated since, in which case it keeps the old one (old[w]).         *)
(*                                                                         *)
(* An action is one critical section of c.mu or of a subscriber's mu, but  *)
(* for the in-place filter of the unsubscribe goroutine: Sets in flight    *)
(* read the array between any two of the elements it writes, so each write *)
(* is an action, and mu is the lock held from the first to the last.       *)
(***************************************************************************)
EXTENDS Naturals, Sequences, FiniteSets

CONSTANTS Clients,     \* contexts that subscribe: one per SSE request
          Sources,     \* source names
          Writers,     \* goroutines that call Set
          Feeds,       \* Feeds[w]: the source w calls Set for
          Validators,  \* validators an envelope may carry
          NoValidator, \* the empty validator
          ChanCap,     \* capacity of a subscription's channel (4 in the code)
          MaxSets      \* bound: Set calls per source

ASSUME CacheAssumption ==
    /\ Feeds \in [Writers -> Sources]
    /\ NoValidator \in Validators
    /\ ChanCap \in Nat \ {0}
    /\ MaxSets \in Nat

Subs == Clients \X Sources      \* a subscription: Subscribe(ctx of c, s)
Nil == <<>>                     \* an unused slot of a backing array

VARIABLES
    log,      \* log[s]: validators of the envelopes stored for s; the last is current
    array,    \* array[s]: backing array of c.subscribers[s]
    count,    \* count[s]: length of c.subscribers[s]
    env,      \* env[w]: the envelope of the Set in flight of writer w, 0 if none
    len,      \* len[w]: length of the slice header that Set copied
    pos,      \* pos[w]: elements its range loop has read
    at,       \* at[w]: the element read and not sent to yet, or Nil
    old,      \* old[w]: the copied backing array once it is no longer shared
    due,      \* history: due[w]: listed when copied and not visited yet
    crossed,  \* history: crossed[w]: moved from the slot it reads next into the one read
    mu,       \* the subscription whose goroutine holds c.mu to filter, Nil if c.mu is free
    gap,      \* the slot the filter writes next
    sub,      \* sub[x]: "none", "open", "removed" (being unlisted or unlisted), "closed"
    ch,       \* ch[x]: envelopes waiting in x's channel
    got,      \* got[x]: last envelope x's consumer received, 0 if none
    done,     \* contexts that are done
    joined,   \* history: joined[x]: current envelope of the source when x subscribed
    missed    \* history: last envelope x was owed by a Set and not given, 0 if none

setVars == <<env, len, pos, at, old, due, crossed>>
cacheVars == <<log, array, count, setVars, mu, gap, sub, ch, got, done, joined, missed>>

Latest(s) == Len(log[s])

\* The slots of the list; not the gap of the filter that works on it, whose element
\* it drops or has already moved down.
Slots(s) == IF mu # Nil /\ mu[2] = s THEN 1..count[s] \ {gap} ELSE 1..count[s]
Listed(s) == {array[s][k] : k \in Slots(s)}
Live(x) == sub[x] = "open" /\ x[1] \notin done
Newest(x) == IF ch[x] = <<>> THEN got[x] ELSE ch[x][Len(ch[x])]
ArrayOf(w) == IF old[w] = <<>> THEN array[Feeds[w]] ELSE old[w]

Init ==
    /\ log = [s \in Sources |-> <<>>]
    /\ array = [s \in Sources |-> <<>>]
    /\ count = [s \in Sources |-> 0]
    /\ env = [w \in Writers |-> 0]
    /\ len = [w \in Writers |-> 0]
    /\ pos = [w \in Writers |-> 0]
    /\ at = [w \in Writers |-> Nil]
    /\ old = [w \in Writers |-> <<>>]
    /\ due = [w \in Writers |-> {}]
    /\ crossed = [w \in Writers |-> {}]
    /\ mu = Nil
    /\ gap = 0
    /\ sub = [x \in Subs |-> "none"]
    /\ ch = [x \in Subs |-> <<>>]
    /\ got = [x \in Subs |-> 0]
    /\ done = {}
    /\ joined = [x \in Subs |-> 0]
    /\ missed = [x \in Subs |-> 0]

\* Mutant of Broadcasts: empty validators compared like any other.
BroadcastsOnDifference(s, v) == log[s] = <<>> \/ log[s][Len(log[s])] # v

\* Set broadcasts unless a previous envelope has the same, non-empty validator.
Broadcasts(s, v) ==
    \/ log[s] = <<>>
    \/ log[s][Len(log[s])] # v
    \/ v = NoValidator

\* Set, under c.mu: store the envelope, copy the slice header.
SetStore(w, v) ==
    LET s == Feeds[w] IN
    /\ mu = Nil
    /\ env[w] = 0
    /\ Len(log[s]) < MaxSets
    /\ log' = [log EXCEPT ![s] = Append(@, v)]
    /\ IF Broadcasts(s, v)
       THEN /\ env' = [env EXCEPT ![w] = Len(log[s]) + 1]
            /\ len' = [len EXCEPT ![w] = count[s]]
            /\ pos' = [pos EXCEPT ![w] = 0]
            /\ old' = [old EXCEPT ![w] = <<>>]
            /\ due' = [due EXCEPT ![w] = Listed(s)]
            /\ crossed' = [crossed EXCEPT ![w] = {}]
            /\ UNCHANGED at
       ELSE UNCHANGED setVars
    /\ UNCHANGED <<array, count, mu, gap, sub, ch, got, done, joined, missed>>

\* The range loop reads the next element, with no lock held.
SetLoad(w) ==
    /\ env[w] # 0
    /\ at[w] = Nil
    /\ pos[w] < len[w]
    /\ at' = [at EXCEPT ![w] = ArrayOf(w)[pos[w] + 1]]
    /\ pos' = [pos EXCEPT ![w] = @ + 1]
    /\ UNCHANGED <<log, array, count, env, len, old, due, crossed,
                   mu, gap, sub, ch, got, done, joined, missed>>

\* Mutants of Offer: the envelope sent without the closed check; a full channel
\* that makes room by sending its oldest envelope to the back; a send that
\* blocks when the channel is full.
OfferUnchecked(x, n) ==
    /\ Len(ch[x]) < ChanCap
    /\ ch' = [ch EXCEPT ![x] = Append(@, n)]
    /\ UNCHANGED missed
OfferRotating(x, n) ==
    /\ ch' = [ch EXCEPT ![x] = IF Len(@) < ChanCap THEN Append(@, n)
                                                   ELSE Tail(Append(Append(@, n), Head(@)))]
    /\ UNCHANGED missed
OfferBlocking(x, n) ==
    \/ /\ sub[x] # "closed"
       /\ Len(ch[x]) < ChanCap
       /\ ch' = [ch EXCEPT ![x] = Append(@, n)]
       /\ UNCHANGED missed
    \/ /\ sub[x] = "closed"
       /\ UNCHANGED <<ch, missed>>
\* subscriber.send, under s.mu: nothing if closed; the select takes a ready
\* case (either one, if the channel has room and the context is done), and
\* its default drops the envelope when the channel is full.  (A loop may meet a
\* subscriber twice: what it already has is then no loss.)
Offer(x, n) ==
    \/ /\ sub[x] # "closed"
       /\ Len(ch[x]) < ChanCap
       /\ ch' = [ch EXCEPT ![x] = Append(@, n)]
       /\ UNCHANGED missed
    \/ /\ \/ sub[x] = "closed"
          \/ x[1] \in done
       /\ UNCHANGED <<ch, missed>>
    \/ /\ sub[x] # "closed"
       /\ x[1] \notin done
       /\ Len(ch[x]) >= ChanCap
       /\ missed' = [missed EXCEPT ![x] = IF Newest(x) = n THEN @ ELSE n]
       /\ UNCHANGED ch

\* Mutant of SetSend: the loop ends at a closed subscriber (break for continue).
SetSendStopsAtClosed(w) ==
    /\ at[w] # Nil
    /\ Offer(at[w], env[w])
    /\ at' = [at EXCEPT ![w] = Nil]
    /\ due' = [due EXCEPT ![w] = @ \ {at[w]}]
    /\ pos' = [pos EXCEPT ![w] = IF sub[at[w]] = "closed" THEN len[w] ELSE @]
    /\ UNCHANGED <<log, array, count, env, len, old, crossed,
                   mu, gap, sub, got, done, joined>>

SetSend(w) ==
    /\ at[w] # Nil
    /\ Offer(at[w], env[w])
    /\ at' = [at EXCEPT ![w] = Nil]
    /\ due' = [due EXCEPT ![w] = @ \ {at[w]}]
    /\ UNCHANGED <<log, array, count, env, len, pos, old, crossed,
                   mu, gap, sub, got, done, joined>>

\* The loop ends and Set returns.  Subscribers still due were listed when the
\* header was copied and never visited.
LoopDone(w) == env[w] # 0 /\ at[w] = Nil /\ pos[w] = len[w]
SetReturn(w) ==
    /\ LoopDone(w)
    /\ missed' = [x \in Subs |-> IF x \in due[w] THEN env[w] ELSE missed[x]]
    /\ env' = [env EXCEPT ![w] = 0]
    /\ len' = [len EXCEPT ![w] = 0]
    /\ pos' = [pos EXCEPT ![w] = 0]
    /\ old' = [old EXCEPT ![w] = <<>>]
    /\ due' = [due EXCEPT ![w] = {}]
    /\ crossed' = [crossed EXCEPT ![w] = {}]
    /\ UNCHANGED <<log, array, count, at, mu, gap, sub, ch, got, done, joined>>

\* append(c.subscribers[s], x): in place when there is room, otherwise into a
\* new array of twice the capacity; the Sets in flight keep the old one.
Grown(s, x) ==
    LET full == Len(array[s]) IN
    [k \in 1..(IF full = 0 THEN 1 ELSE 2 * full) |->
        IF k <= full THEN array[s][k] ELSE IF k = full + 1 THEN x ELSE Nil]

Detach(s) ==
    [w \in Writers |-> IF Feeds[w] = s /\ env[w] # 0 /\ old[w] = <<>>
                       THEN array[s] ELSE old[w]]

Subscribe(x) ==
    LET s == x[2] IN
    /\ mu = Nil
    /\ sub[x] = "none"
    /\ sub' = [sub EXCEPT ![x] = "open"]
    /\ joined' = [joined EXCEPT ![x] = Latest(s)]
    /\ count' = [count EXCEPT ![s] = @ + 1]
    /\ IF count[s] < Len(array[s])
       THEN /\ array' = [array EXCEPT ![s][count[s] + 1] = x]
            /\ UNCHANGED old
       ELSE /\ array' = [array EXCEPT ![s] = Grown(s, x)]
            /\ old' = Detach(s)
    /\ UNCHANGED <<log, env, len, pos, at, due, crossed, mu, gap, ch, got, done, missed>>

\* The context of client c is done (its request ended).
Cancel(c) ==
    /\ c \notin done
    /\ done' = done \cup {c}
    /\ UNCHANGED <<log, array, count, setVars, mu, gap, sub, ch, got, joined, missed>>

\* Mutant of Unlist: the filter drops the element after x.
UnlistNeighbour(x) ==
    LET s == x[2] IN
    /\ mu = Nil
    /\ sub[x] = "open"
    /\ x[1] \in done
    /\ mu' = x
    /\ \E p \in 1..count[s] : array[s][p] = x /\ gap' = p + 1
    /\ sub' = [sub EXCEPT ![x] = "removed"]
    /\ UNCHANGED <<log, array, count, setVars, ch, got, done, joined, missed>>

\* The unsubscribe goroutine, once its context is done, locks c.mu and comes to x;
\* the elements before it are written where they are.
Unlist(x) ==
    LET s == x[2] IN
    /\ mu = Nil
    /\ sub[x] = "open"
    /\ x[1] \in done
    /\ mu' = x
    /\ \E p \in 1..count[s] : array[s][p] = x /\ gap' = p
    /\ sub' = [sub EXCEPT ![x] = "removed"]
    /\ UNCHANGED <<log, array, count, setVars, ch, got, done, joined, missed>>

\* Filtering in place (subs[:0]), it moves the next element one slot down: past
\* the loops that have read this slot and not the next.
Shift ==
    LET s == mu[2] IN
    /\ mu # Nil
    /\ gap < count[s]
    /\ array' = [array EXCEPT ![s][gap] = array[s][gap + 1]]
    /\ gap' = gap + 1
    /\ crossed' = [w \in Writers |->
           IF Feeds[w] = s /\ env[w] # 0 /\ old[w] = <<>> /\ pos[w] = gap
           THEN crossed[w] \cup {array[s][gap + 1]} ELSE crossed[w]]
    /\ UNCHANGED <<log, count, env, len, pos, at, old, due, mu, sub, ch, got, done, joined, missed>>

\* Mutant of StoreHeader: the freed slot is cleared, as one does to let the
\* subscriber be collected.
StoreHeaderCleared ==
    LET s == mu[2] IN
    /\ mu # Nil
    /\ gap = count[s]
    /\ array' = [array EXCEPT ![s][gap] = Nil]
    /\ count' = [count EXCEPT ![s] = @ - 1]
    /\ mu' = Nil
    /\ gap' = 0
    /\ UNCHANGED <<log, setVars, sub, ch, got, done, joined, missed>>

\* The shorter slice is stored and c.mu unlocked; the slot after it keeps its
\* stale pointer.
StoreHeader ==
    LET s == mu[2] IN
    /\ mu # Nil
    /\ gap = count[s]
    /\ count' = [count EXCEPT ![s] = @ - 1]
    /\ mu' = Nil
    /\ gap' = 0
    /\ UNCHANGED <<log, array, setVars, sub, ch, got, done, joined, missed>>

\* Mutant of CloseOnce: the channel's content thrown away.
CloseOnceDraining(x) ==
    /\ sub[x] = "removed" /\ mu # x
    /\ sub' = [sub EXCEPT ![x] = "closed"]
    /\ ch' = [ch EXCEPT ![x] = <<>>]
    /\ UNCHANGED <<log, array, count, setVars, mu, gap, got, done, joined, missed>>

\* closeOnce, under s.mu, when c.mu is unlocked again.
CloseOnce(x) ==
    /\ sub[x] = "removed" /\ mu # x
    /\ sub' = [sub EXCEPT ![x] = "closed"]
    /\ UNCHANGED <<log, array, count, setVars, mu, gap, ch, got, done, joined, missed>>

\* The consumer takes the next envelope from the channel.
Receive(x) ==
    /\ ch[x] # <<>>
    /\ got' = [got EXCEPT ![x] = Head(ch[x])]
    /\ ch' = [ch EXCEPT ![x] = Tail(@)]
    /\ UNCHANGED <<log, array, count, setVars, mu, gap, sub, done, joined, missed>>

Set(w) == \/ \E v \in Validators : SetStore(w, v)
          \/ SetLoad(w)
          \/ SetSend(w)
          \/ SetReturn(w)

Next == \/ \E w \in Writers : Set(w)
        \/ Shift \/ StoreHeader
        \/ \E c \in Clients : Cancel(c)
        \/ \E x \in Subs : Subscribe(x) \/ Unlist(x) \/ CloseOnce(x) \/ Receive(x)

Spec == Init /\ [][Next]_cacheVars

-----------------------------------------------------------------------------

\* Type invariant of the cache's state.
TypeOK ==
    /\ log \in [Sources -> Seq(Validators)]
    /\ \A s \in Sources : Len(log[s]) <= MaxSets
    /\ array \in [Sources -> Seq(Subs \cup {Nil})]
    /\ count \in [Sources -> Nat]
    /\ env \in [Writers -> 0..MaxSets]
    /\ len \in [Writers -> Nat]
    /\ pos \in [Writers -> Nat]
    /\ at \in [Writers -> Subs \cup {Nil}]
    /\ old \in [Writers -> Seq(Subs \cup {Nil})]
    /\ due \in [Writers -> SUBSET Subs]
    /\ crossed \in [Writers -> SUBSET Subs]
    /\ mu \in Subs \cup {Nil}
    /\ gap \in Nat
    /\ sub \in [Subs -> {"none", "open", "removed", "closed"}]
    /\ ch \in [Subs -> Seq(1..MaxSets)]
    /\ \A x \in Subs : Len(ch[x]) <= ChanCap
    /\ got \in [Subs -> 0..MaxSets]
    /\ done \subseteq Clients
    /\ joined \in [Subs -> 0..MaxSets]
    /\ missed \in [Subs -> 0..MaxSets]

-----------------------------------------------------------------------------
\* The last envelope of s that Set broadcast, 0 if none.
BroadcastAt(s, n) == n = 1 \/ log[s][n] # log[s][n - 1] \/ log[s][n] = NoValidator
LastBroadcast(s) ==
    CHOOSE n \in 0..Latest(s) :
        /\ n > 0 => BroadcastAt(s, n)
        /\ \A m \in (n + 1)..Latest(s) : ~BroadcastAt(s, m)

\* A source that one goroutine sets.  Every fetched source is one (cmd/cwd starts
\* one fetcher for each); image.invalidate, which every Refresh sets, is not.
SingleWriter(s) == \A v, w \in Writers : Feeds[v] = s /\ Feeds[w] = s => v = w

Quiet(s) == \A w \in Writers : Feeds[w] = s => env[w] = 0

\* The slice lists exactly the subscriptions of the source that no goroutine
\* removes or has removed, each once, whatever appends and in-place filters
\* happened and wherever a filter stands (cache.go Subscribe and its goroutine).
SubscriberListExact ==
    \A s \in Sources :
        /\ count[s] <= Len(array[s])
        /\ Listed(s) = {x \in Subs : x[2] = s /\ sub[x] = "open"}
        /\ \A j, k \in Slots(s) : array[s][j] = array[s][k] => j = k

\* What writer w holds, and what its loop ranges over.
HeldOK(w) == at[w] # Nil => env[w] # 0 /\ at[w][2] = Feeds[w]
ReadsOK(w) ==
    env[w] # 0 =>
        /\ pos[w] <= len[w]
        /\ len[w] <= Len(ArrayOf(w))
        /\ \A k \in 1..len[w] : ArrayOf(w)[k] \in Subs /\ ArrayOf(w)[k][2] = Feeds[w]

\* Every element a Set in flight reads is a subscriber of its source, never an
\* empty slot (a nil dereference), though Subscribe and the in-place filter
\* write the array it ranges over.
SetReadsSubscribers == \A w \in Writers : HeldOK(w) /\ ReadsOK(w)

\* No send reaches a channel after closeOnce closed it (it would panic), even
\* from a Set whose copied header still lists the subscriber.
ClosedChannelGetsNothing ==
    [][\A x \in Subs : sub[x] = "closed" => Len(ch'[x]) <= Len(ch[x])]_cacheVars

\* Of a source with one writer, a subscriber never receives an envelope older
\* than one it was given before.
DeliveredInOrder ==
    \A x \in Subs :
        SingleWriter(x[2]) =>
            /\ \A k \in 1..Len(ch[x]) : got[x] <= ch[x][k]
            /\ \A j, k \in 1..Len(ch[x]) : j <= k => ch[x][j] <= ch[x][k]
            /\ Newest(x) <= Latest(x[2])

\* Every subscriber listed when Set copied the header, and still live when the
\* loop ends, has been visited ("broadcasts changes to subscribers").
EveryListedSubscriberVisited ==
    \A w \in Writers :
        LoopDone(w) => \A x \in due[w] : ~Live(x)

\* A live subscriber that was listed when Set copied the header is reached by its
\* loop, unless an in-place filter moved it from the slot the loop would read next
\* into the one it had just read: the shared array loses no subscriber otherwise,
\* though the loop reads it between any two writes of the filter (cache.go:89, 108-115).
SkippedOnlyWhenCrossed ==
    \A w \in Writers :
        LoopDone(w) => \A x \in due[w] : Live(x) => x \in crossed[w]

\* Once no Set is in flight, a live subscriber has been given the last
\* broadcast envelope of a source with one writer, unless it subscribed after that broadcast or a Set
\* dropped or skipped exactly that envelope for it.
NothingLostSilently ==
    \A x \in Subs :
        SingleWriter(x[2]) /\ Live(x) /\ Quiet(x[2]) =>
            LET last == LastBroadcast(x[2]) IN
            \/ Newest(x) = last
            \/ last <= joined[x]
            \/ missed[x] = last

\* The cache implements the promise of Broadcast.
Topic == INSTANCE Broadcast WITH
    Serial <- {s \in Sources : SingleWriter(s)},
    topic <- [x \in Subs |-> IF sub[x] = "removed" THEN "open" ELSE sub[x]]
ImplementsBroadcast == Topic!Spec

-----------------------------------------------------------------------------
\* A Set in flight never waits, neither for a slow or dead subscriber nor for
\* one that leaves: its next step can be taken, and it has finitely many.
SetNeverWaits == \A w \in Writers : env[w] # 0 => ENABLED (SetLoad(w) \/ SetSend(w) \/ SetReturn(w))
=============================================================================
