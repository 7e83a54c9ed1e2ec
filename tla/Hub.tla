-------------------------------- MODULE Hub --------------------------------
(***************************************************************************)
(* internal/sse/hub.go: one Serve per SSE client over the cache.           *)
(*                                                                         *)
(* Serve reads the current envelope of every source, writes them as one    *)
(* snapshot frame, THEN subscribes to every source, and from there on      *)
(* one forwarder goroutine per source moves envelopes from the cache's     *)
(* channel into the client's mux channel, from which Serve writes update   *)
(* frames.  The cache is the one of module Cache, with its own steps.      *)
(***************************************************************************)
EXTENDS Cache

CONSTANTS Order,  \* h.sources: the source names in the order Serve visits them
          MuxCap  \* capacity of a client's mux channel (16 in the code)

ASSUME HubAssumption ==
    /\ Order \in Seq(Sources)
    /\ {Order[k] : k \in 1..Len(Order)} = Sources
    /\ Len(Order) = Cardinality(Sources)
    /\ MuxCap \in Nat \ {0}

VARIABLES
    serve, \* serve[c]: "off", "snapshot", "subscribe", "loop" or "returned"
    step,  \* step[c]: position in Order of the next source Serve visits
    shown, \* shown[x]: the envelope the frames for x's client show, 0 if none
    fwd,   \* fwd[x]: x's forwarder: "none", "run" or "exit"
    hand,  \* hand[x]: the envelope x's forwarder holds, 0 if none
    mux    \* mux[c]: envelopes waiting to be written, as <<source, index>>

hubOnly == <<serve, step, shown, fwd, hand, mux>>
vars == <<cacheVars, serve, step, shown, fwd, hand, mux>>

HubInit ==
    /\ Init
    /\ serve = [c \in Clients |-> "off"]
    /\ step = [c \in Clients |-> 1]
    /\ shown = [x \in Subs |-> 0]
    /\ fwd = [x \in Subs |-> "none"]
    /\ hand = [x \in Subs |-> 0]
    /\ mux = [c \in Clients |-> <<>>]

\* A request reaches Serve.
Connect(c) ==
    /\ serve[c] = "off"
    /\ serve' = [serve EXCEPT ![c] = "snapshot"]
    /\ UNCHANGED <<cacheVars, step, shown, fwd, hand, mux>>

\* Serve, first loop: cache.Get of one source, under c.mu.
SnapshotGet(c) ==
    /\ mu = Nil
    /\ serve[c] = "snapshot"
    /\ step[c] <= Len(Order)
    /\ shown' = [shown EXCEPT ![<<c, Order[step[c]]>>] = Latest(Order[step[c]])]
    /\ step' = [step EXCEPT ![c] = @ + 1]
    /\ UNCHANGED <<cacheVars, serve, fwd, hand, mux>>

\* The snapshot frame is written; a write error is ignored.
SnapshotWrite(c) ==
    /\ serve[c] = "snapshot"
    /\ step[c] > Len(Order)
    /\ serve' = [serve EXCEPT ![c] = "subscribe"]
    /\ step' = [step EXCEPT ![c] = 1]
    /\ UNCHANGED <<cacheVars, shown, fwd, hand, mux>>

\* Second loop: cache.Subscribe of one source.
HubSubscribe(c) ==
    /\ serve[c] = "subscribe"
    /\ step[c] <= Len(Order)
    /\ Subscribe(<<c, Order[step[c]]>>)
    /\ step' = [step EXCEPT ![c] = @ + 1]
    /\ UNCHANGED <<serve, shown, fwd, hand, mux>>

\* Mutant of StartForwarders: the cache is read again to close the gap between
\* the snapshot and the subscriptions.
StartForwardersRereads(c) ==
    /\ serve[c] = "subscribe"
    /\ step[c] > Len(Order)
    /\ serve' = [serve EXCEPT ![c] = "loop"]
    /\ fwd' = [x \in Subs |-> IF x[1] = c THEN "run" ELSE fwd[x]]
    /\ shown' = [x \in Subs |-> IF x[1] = c THEN Latest(x[2]) ELSE shown[x]]
    /\ UNCHANGED <<cacheVars, step, hand, mux>>

\* All sources subscribed: the forwarders start and Serve enters its loop.
StartForwarders(c) ==
    /\ serve[c] = "subscribe"
    /\ step[c] > Len(Order)
    /\ serve' = [serve EXCEPT ![c] = "loop"]
    /\ fwd' = [x \in Subs |-> IF x[1] = c THEN "run" ELSE fwd[x]]
    /\ UNCHANGED <<cacheVars, step, shown, hand, mux>>

\* Forwarder: range over the subscription's channel.
ForwardTake(x) ==
    /\ fwd[x] = "run"
    /\ hand[x] = 0
    /\ Receive(x)
    /\ hand' = [hand EXCEPT ![x] = Head(ch[x])]
    /\ UNCHANGED <<serve, step, shown, fwd, mux>>

\* The channel is closed and drained: the range ends.
ForwardEnd(x) ==
    /\ fwd[x] = "run"
    /\ hand[x] = 0
    /\ ch[x] = <<>>
    /\ sub[x] = "closed"
    /\ fwd' = [fwd EXCEPT ![x] = "exit"]
    /\ UNCHANGED <<cacheVars, serve, step, shown, hand, mux>>

\* Mutant of ForwardPush: a full mux drops the envelope.
ForwardPushOrDrop(x) ==
    /\ hand[x] # 0
    /\ IF Len(mux[x[1]]) < MuxCap
       THEN mux' = [mux EXCEPT ![x[1]] = Append(@, <<x[2], hand[x]>>)]
       ELSE UNCHANGED mux
    /\ hand' = [hand EXCEPT ![x] = 0]
    /\ UNCHANGED <<cacheVars, serve, step, shown, fwd>>

\* mux <- envWithName: blocks while mux is full.
ForwardPush(x) ==
    /\ hand[x] # 0
    /\ Len(mux[x[1]]) < MuxCap
    /\ mux' = [mux EXCEPT ![x[1]] = Append(@, <<x[2], hand[x]>>)]
    /\ hand' = [hand EXCEPT ![x] = 0]
    /\ UNCHANGED <<cacheVars, serve, step, shown, fwd>>

\* Mutants of ForwardGiveUp: the push has no ctx.Done() case; the forwarder
\* returns whenever mux is full.
ForwardGiveUpNever(x) == FALSE /\ hand[x] # 0 /\ UNCHANGED vars
ForwardGiveUpWhenFull(x) ==
    /\ hand[x] # 0
    /\ Len(mux[x[1]]) = MuxCap
    /\ hand' = [hand EXCEPT ![x] = 0]
    /\ fwd' = [fwd EXCEPT ![x] = "exit"]
    /\ UNCHANGED <<cacheVars, serve, step, shown, mux>>

\* <-ctx.Done() while the push blocks: the forwarder returns.
ForwardGiveUp(x) ==
    /\ hand[x] # 0
    /\ x[1] \in done
    /\ hand' = [hand EXCEPT ![x] = 0]
    /\ fwd' = [fwd EXCEPT ![x] = "exit"]
    /\ UNCHANGED <<cacheVars, serve, step, shown, mux>>

\* Serve takes an envelope from mux and writes its update frame.
WriteUpdate(c) ==
    /\ serve[c] = "loop"
    /\ mux[c] # <<>>
    /\ shown' = [shown EXCEPT ![<<c, Head(mux[c])[1]>>] = Head(mux[c])[2]]
    /\ mux' = [mux EXCEPT ![c] = Tail(@)]
    /\ UNCHANGED <<cacheVars, serve, step, fwd, hand>>

\* Writing an update or a ping fails: Serve returns; what it took is lost.
WriteFail(c) ==
    /\ serve[c] = "loop"
    /\ serve' = [serve EXCEPT ![c] = "returned"]
    /\ mux' = [mux EXCEPT ![c] = IF @ = <<>> THEN @ ELSE Tail(@)]
    /\ UNCHANGED <<cacheVars, step, shown, fwd, hand>>

\* <-ctx.Done() in Serve's loop.
ServeReturn(c) ==
    /\ serve[c] = "loop"
    /\ c \in done
    /\ serve' = [serve EXCEPT ![c] = "returned"]
    /\ UNCHANGED <<cacheVars, step, shown, fwd, hand, mux>>

\* The client goes away, or net/http cancels the context of a returned handler.
Disconnect(c) ==
    /\ serve[c] # "off"
    /\ Cancel(c)
    /\ UNCHANGED hubOnly

Serve(c) == \/ Connect(c) \/ SnapshotGet(c) \/ SnapshotWrite(c) \/ HubSubscribe(c)
            \/ StartForwarders(c) \/ WriteUpdate(c) \/ WriteFail(c)
            \/ ServeReturn(c) \/ Disconnect(c)
Forward(x) == ForwardTake(x) \/ ForwardEnd(x) \/ ForwardPush(x) \/ ForwardGiveUp(x)
CacheStep == /\ \/ \E w \in Writers : Set(w)
                \/ Shift \/ StoreHeader
                \/ \E x \in Subs : Unlist(x) \/ CloseOnce(x)
             /\ UNCHANGED hubOnly

HubNext == \/ \E c \in Clients : Serve(c)
           \/ \E x \in Subs : Forward(x)
           \/ CacheStep

HubSpec == HubInit /\ [][HubNext]_vars

-----------------------------------------------------------------------------
HubTypeOK ==
    /\ TypeOK
    /\ serve \in [Clients -> {"off", "snapshot", "subscribe", "loop", "returned"}]
    /\ step \in [Clients -> 1..(Len(Order) + 1)]
    /\ shown \in [Subs -> 0..MaxSets]
    /\ fwd \in [Subs -> {"none", "run", "exit"}]
    /\ hand \in [Subs -> 0..MaxSets]
    /\ mux \in [Clients -> Seq(Sources \X (1..MaxSets))]
    /\ \A c \in Clients : Len(mux[c]) <= MuxCap

\* Envelopes of x anywhere between the cache and the client.
InTransit(x) ==
    \/ ch[x] # <<>>
    \/ hand[x] # 0
    \/ \E k \in 1..Len(mux[x[1]]) : mux[x[1]][k][1] = x[2]

\* What a client displays for a source never moves back to an older envelope,
\* from the snapshot frame through every update frame, if the source has one writer.
ClientNeverGoesBack ==
    [][\A x \in Subs : SingleWriter(x[2]) => shown'[x] >= shown[x]]_vars

\* A connected client whose pipeline is drained shows the last broadcast, or it
\* missed it in one of two ways: the broadcast fell between its snapshot and its
\* subscription, or a Set dropped (full channel) or skipped it.
Drained(x) == serve[x[1]] = "loop" /\ Live(x) /\ Quiet(x[2]) /\ ~InTransit(x)
StaleOnlyByGapOrMiss ==
    \A x \in Subs :
        SingleWriter(x[2]) /\ Drained(x) =>
            LET last == LastBroadcast(x[2]) IN
            \/ shown[x] >= last
            \/ last <= joined[x]
            \/ missed[x] = last

-----------------------------------------------------------------------------
\* Every goroutine that can run does, but for the loop of Serve: it writes to the
\* network, and the server sets no WriteTimeout, so a client that stops reading holds
\* it as long as it likes.  net/http cancels the context of a handler that returned.
\* Clients connect, disconnect and fail at will.
ServeSteps(c) == SnapshotGet(c) \/ HubSubscribe(c) \/ StartForwarders(c)
HubFairness ==
    /\ \A w \in Writers : WF_vars((SetLoad(w) \/ SetSend(w) \/ SetReturn(w)) /\ UNCHANGED hubOnly)
    /\ \A x \in Subs : WF_vars((Unlist(x) \/ CloseOnce(x)) /\ UNCHANGED hubOnly)
    /\ WF_vars((Shift \/ StoreHeader) /\ UNCHANGED hubOnly)
    /\ \A x \in Subs : WF_vars(Forward(x))
    /\ \A c \in Clients : WF_vars(ServeSteps(c))
    /\ \A c \in Clients : WF_vars(serve[c] = "returned" /\ Disconnect(c))
HubFairSpec == HubSpec /\ HubFairness

\* The client reads what is written to it: the loop of Serve goes on.
Reads(c) == WF_vars(WriteUpdate(c) \/ ServeReturn(c))

\* An envelope in x's channel is written to a client that keeps reading, or the
\* client is gone.
QueuedUpdateIsWritten ==
    \A x \in Subs : Reads(x[1]) =>
        \A n \in 1..MaxSets :
            (\E k \in 1..Len(ch[x]) : ch[x][k] = n)
                ~> (shown[x] >= n \/ serve[x[1]] = "returned")

\* A client that goes away leaves nothing behind: its forwarders end and its
\* channels are closed (no goroutine leak), even with a full mux.
NothingLeaks ==
    \A x \in Subs :
        serve[x[1]] = "returned" ~> (fwd[x] = "exit" /\ sub[x] = "closed")
=============================================================================
