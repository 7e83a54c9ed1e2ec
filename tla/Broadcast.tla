----------------------------- MODULE Broadcast -----------------------------
(***************************************************************************)
(* What internal/cache promises the SSE hub, with nothing of how it keeps  *)
(* the promise: per source there is one sequence of envelopes, and every   *)
(* subscription's channel carries envelopes of its source, in publication  *)
(* order where one goroutine publishes.  A subscription may miss envelopes *)
(* (the channel is bounded and never blocks the publisher) but never sees  *)
(* those of one publisher out of order, never sees one that was not        *)
(* published, and a closed channel gets nothing.                           *)
(***************************************************************************)
EXTENDS Naturals, Sequences

CONSTANTS Clients,    \* contexts that subscribe: one per SSE request
          Sources,    \* source names
          Serial,     \* the sources of which one goroutine publishes
          Validators, \* validators an envelope may carry
          ChanCap,    \* capacity of a subscription's channel
          MaxSets     \* bound: envelopes published per source

VARIABLES log,    \* log[s]: validators of the envelopes published for s, in order
          topic,  \* topic[x]: "none", "open" or "closed"
          ch,     \* ch[x]: indices into log[s] waiting in x's channel
          got     \* got[x]: the last index x's consumer received, 0 if none

bvars == <<log, topic, ch, got>>

Subs == Clients \X Sources

\* The newest index subscription x has been given.
Newest(x) == IF ch[x] = <<>> THEN got[x] ELSE ch[x][Len(ch[x])]

Init == /\ log = [s \in Sources |-> <<>>]
        /\ topic = [x \in Subs |-> "none"]
        /\ ch = [x \in Subs |-> <<>>]
        /\ got = [x \in Subs |-> 0]

Publish(s, v) ==
    /\ Len(log[s]) < MaxSets
    /\ log' = [log EXCEPT ![s] = Append(@, v)]
    /\ UNCHANGED <<topic, ch, got>>

Subscribe(x) ==
    /\ topic[x] = "none"
    /\ topic' = [topic EXCEPT ![x] = "open"]
    /\ UNCHANGED <<log, ch, got>>

Deliver(x, n) ==
    /\ topic[x] = "open"
    /\ Len(ch[x]) < ChanCap
    /\ x[2] \in Serial => Newest(x) <= n
    /\ ch' = [ch EXCEPT ![x] = Append(@, n)]
    /\ UNCHANGED <<log, topic, got>>

Receive(x) ==
    /\ ch[x] # <<>>
    /\ got' = [got EXCEPT ![x] = Head(ch[x])]
    /\ ch' = [ch EXCEPT ![x] = Tail(@)]
    /\ UNCHANGED <<log, topic>>

Close(x) ==
    /\ topic[x] = "open"
    /\ topic' = [topic EXCEPT ![x] = "closed"]
    /\ UNCHANGED <<log, ch, got>>

Next == \/ \E s \in Sources, v \in Validators : Publish(s, v)
        \/ \E x \in Subs : \/ Subscribe(x)
                           \/ \E n \in 1..Len(log[x[2]]) : Deliver(x, n)
                           \/ Receive(x)
                           \/ Close(x)

Spec == Init /\ [][Next]_bvars
=============================================================================
