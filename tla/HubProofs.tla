----------------------------- MODULE HubProofs -----------------------------
(***************************************************************************)
(* Theorems about what an SSE client is shown, for every value of the      *)
(* constants: the hub's steps are steps of the cache or leave it alone, so *)
(* the theorems of DeliveryProofs hold of it, and along each client's      *)
(* pipeline (channel, forwarder, mux, frames) order is kept.               *)
(***************************************************************************)
EXTENDS Hub, DeliveryProofs

-----------------------------------------------------------------------------
\* A subscription is the pair of its parts.
LEMMA SubIsPair == \A x \in Subs : x = <<x[1], x[2]>> /\ x[1] \in Clients /\ x[2] \in Sources
  BY DEF Subs

\* The source Serve visits next is a source.
LEMMA VisitedSource ==
  ASSUME HubTypeOK, NEW c \in Clients, step[c] <= Len(Order)
  PROVE  Order[step[c]] \in Sources /\ <<c, Order[step[c]]>> \in Subs
  <1>1. step[c] \in 1..Len(Order)
    BY HubAssumption DEF HubTypeOK
  <1>2. Order[step[c]] \in Sources
    BY <1>1, HubAssumption
  <1>3. QED BY <1>2 DEF Subs

\* A step of the hub is a step of the cache or changes nothing of it.
LEMMA HubStepIsCacheStep ==
  ASSUME HubTypeOK, [HubNext]_vars
  PROVE  [Next]_cacheVars
  <1>1. ASSUME NEW c \in Clients, Serve(c) PROVE [Next]_cacheVars
    <2>1. CASE HubSubscribe(c)
      <3>1. Subscribe(<<c, Order[step[c]]>>) /\ step[c] <= Len(Order)
        BY <2>1 DEF HubSubscribe
      <3>2. QED BY <3>1, VisitedSource DEF Next
    <2>2. CASE Disconnect(c)
      BY <2>2 DEF Disconnect, Next
    <2>3. CASE UNCHANGED cacheVars
      BY <2>3
    <2>4. QED
      BY <1>1, <2>1, <2>2, <2>3
         DEF Serve, Connect, SnapshotGet, SnapshotWrite, StartForwarders, WriteUpdate, WriteFail, ServeReturn
  <1>2. ASSUME NEW x \in Subs, Forward(x) PROVE [Next]_cacheVars
    BY <1>2 DEF Forward, ForwardTake, ForwardEnd, ForwardPush, ForwardGiveUp, Next
  <1>3. ASSUME CacheStep PROVE [Next]_cacheVars
    BY <1>3 DEF CacheStep, Next
  <1>4. CASE UNCHANGED vars
    BY <1>4 DEF vars
  <1>5. QED BY <1>1, <1>2, <1>3, <1>4 DEF HubNext

\* The types of the hub's own state are preserved.
LEMMA HubTypeStep ==
  ASSUME IInv, HubTypeOK, [HubNext]_vars
  PROVE  HubTypeOK'
  <1>a. /\ serve \in [Clients -> {"off", "snapshot", "subscribe", "loop", "returned"}]
        /\ step \in [Clients -> 1..(Len(Order) + 1)]
        /\ shown \in [Subs -> 0..MaxSets]
        /\ fwd \in [Subs -> {"none", "run", "exit"}]
        /\ hand \in [Subs -> 0..MaxSets]
        /\ mux \in [Clients -> Seq(Sources \X (1..MaxSets))]
        /\ \A c \in Clients : Len(mux[c]) <= MuxCap
        /\ log \in [Sources -> Seq(Validators)] /\ \A s \in Sources : Len(log[s]) <= MaxSets
        /\ ch \in [Subs -> Seq(1..MaxSets)]
    BY DEF HubTypeOK, TypeOK
  <1>b. Len(Order) \in Nat /\ MaxSets \in Nat /\ MuxCap \in Nat \ {0}
    BY HubAssumption, CacheAssumption
  <1>c. TypeOK'
    BY HubStepIsCacheStep, TypeStep
  <1> DEFINE Own ==
        /\ serve \in [Clients -> {"off", "snapshot", "subscribe", "loop", "returned"}]
        /\ step \in [Clients -> 1..(Len(Order) + 1)]
        /\ shown \in [Subs -> 0..MaxSets]
        /\ fwd \in [Subs -> {"none", "run", "exit"}]
        /\ hand \in [Subs -> 0..MaxSets]
        /\ mux \in [Clients -> Seq(Sources \X (1..MaxSets))]
        /\ \A c \in Clients : Len(mux[c]) <= MuxCap
  <1>1. ASSUME NEW c \in Clients, Connect(c) PROVE Own'
    BY <1>1, <1>a DEF Connect
  <1>2. ASSUME NEW c \in Clients, SnapshotGet(c) PROVE Own'
    <2>1. Latest(Order[step[c]]) \in 0..MaxSets
      BY <1>2, <1>a, <1>b, VisitedSource DEF SnapshotGet, Latest
    <2>2. step[c] + 1 \in 1..(Len(Order) + 1)
      BY <1>2, <1>a, <1>b DEF SnapshotGet
    <2>3. QED BY <1>2, <1>a, <2>1, <2>2 DEF SnapshotGet
  <1>3. ASSUME NEW c \in Clients, SnapshotWrite(c) PROVE Own'
    BY <1>3, <1>a, <1>b DEF SnapshotWrite
  <1>4. ASSUME NEW c \in Clients, HubSubscribe(c) PROVE Own'
    <2>1. step[c] + 1 \in 1..(Len(Order) + 1)
      BY <1>4, <1>a, <1>b DEF HubSubscribe
    <2>2. QED BY <1>4, <1>a, <2>1 DEF HubSubscribe
  <1>5. ASSUME NEW c \in Clients, StartForwarders(c) PROVE Own'
    BY <1>5, <1>a DEF StartForwarders
  <1>6. ASSUME NEW c \in Clients, WriteUpdate(c) PROVE Own'
    <2>1. mux[c] \in Seq(Sources \X (1..MaxSets)) /\ mux[c] # <<>>
      BY <1>6, <1>a DEF WriteUpdate
    <2>2. /\ Head(mux[c]) \in Sources \X (1..MaxSets) /\ Tail(mux[c]) \in Seq(Sources \X (1..MaxSets))
          /\ Len(Tail(mux[c])) = Len(mux[c]) - 1 /\ Len(mux[c]) \in Nat
      BY <2>1, HeadTailProperties
    <2>3. Head(mux[c])[2] \in 0..MaxSets
      BY <2>2, <1>b
    <2>4. shown' \in [Subs -> 0..MaxSets]
      BY <1>6, <1>a, <2>3 DEF WriteUpdate
    <2>5. mux' \in [Clients -> Seq(Sources \X (1..MaxSets))] /\ \A d \in Clients : Len(mux'[d]) <= MuxCap
      <3>1. mux' = [mux EXCEPT ![c] = Tail(@)]
        BY <1>6 DEF WriteUpdate
      <3>2. \A d \in Clients : Len(mux[d]) \in Nat
        BY <1>a
      <3>3. QED BY <1>a, <1>b, <2>2, <3>1, <3>2, SMTT(60)
    <2>6. QED BY <1>6, <1>a, <2>4, <2>5 DEF WriteUpdate
  <1>7. ASSUME NEW c \in Clients, WriteFail(c) PROVE Own'
    <2>1. mux' = [mux EXCEPT ![c] = IF @ = <<>> THEN @ ELSE Tail(@)]
      BY <1>7 DEF WriteFail
    <2>2. mux' \in [Clients -> Seq(Sources \X (1..MaxSets))] /\ \A d \in Clients : Len(mux'[d]) <= MuxCap
      <3>1. CASE mux[c] = <<>>
        <4>1. mux' = mux
          BY <1>a, <2>1, <3>1
        <4>2. QED BY <1>a, <4>1
      <3>2. CASE mux[c] # <<>>
        <4>1. /\ Tail(mux[c]) \in Seq(Sources \X (1..MaxSets))
              /\ Len(Tail(mux[c])) = Len(mux[c]) - 1
          BY <1>a, <3>2, HeadTailProperties
        <4>2. \A d \in Clients : Len(mux[d]) \in Nat
          BY <1>a
        <4>3. QED BY <1>a, <1>b, <2>1, <3>2, <4>1, <4>2, SMTT(60)
      <3>3. QED BY <3>1, <3>2
    <2>3. QED BY <1>7, <1>a, <2>2 DEF WriteFail
  <1>8. ASSUME NEW c \in Clients, ServeReturn(c) PROVE Own'
    BY <1>8, <1>a DEF ServeReturn
  <1>9. ASSUME NEW x \in Subs, ForwardTake(x) PROVE Own'
    <2>1. Head(ch[x]) \in 0..MaxSets
      <3>1. ch[x] \in Seq(1..MaxSets) /\ ch[x] # <<>>
        BY <1>9, <1>a DEF ForwardTake, Receive
      <3>2. Head(ch[x]) \in 1..MaxSets
        BY <3>1, HeadTailProperties
      <3>3. QED BY <1>b, <3>2
    <2>2. QED BY <1>9, <1>a, <2>1 DEF ForwardTake
  <1>10. ASSUME NEW x \in Subs, ForwardEnd(x) PROVE Own'
    BY <1>10, <1>a DEF ForwardEnd
  <1>11. ASSUME NEW x \in Subs, ForwardPush(x) PROVE Own'
    <2>1. x[1] \in Clients /\ <<x[2], hand[x]>> \in Sources \X (1..MaxSets)
      BY <1>11, <1>a, <1>b, SubIsPair DEF ForwardPush
    <2>2. /\ mux' = [mux EXCEPT ![x[1]] = Append(@, <<x[2], hand[x]>>)]
          /\ hand' = [hand EXCEPT ![x] = 0] /\ Len(mux[x[1]]) < MuxCap
          /\ UNCHANGED <<serve, step, shown, fwd>>
      BY <1>11 DEF ForwardPush
    <2>3. /\ mux[x[1]] \in Seq(Sources \X (1..MaxSets))
          /\ Append(mux[x[1]], <<x[2], hand[x]>>) \in Seq(Sources \X (1..MaxSets))
          /\ Len(Append(mux[x[1]], <<x[2], hand[x]>>)) = Len(mux[x[1]]) + 1
          /\ Len(mux[x[1]]) \in Nat
      BY <1>a, <2>1, AppendProperties
    <2>4. mux' \in [Clients -> Seq(Sources \X (1..MaxSets))] /\ \A d \in Clients : Len(mux'[d]) <= MuxCap
      BY <1>a, <1>b, <2>1, <2>2, <2>3, SMTT(60)
    <2>5. hand' \in [Subs -> 0..MaxSets]
      BY <1>a, <1>b, <2>2
    <2>6. QED BY <1>a, <2>2, <2>4, <2>5
  <1>12. ASSUME NEW x \in Subs, ForwardGiveUp(x) PROVE Own'
    BY <1>12, <1>a, <1>b DEF ForwardGiveUp
  <1>13. ASSUME UNCHANGED hubOnly PROVE Own'
    BY <1>13, <1>a DEF hubOnly
  <1>14. ASSUME NEW c \in Clients, Disconnect(c) PROVE Own'
    BY <1>13, <1>14 DEF Disconnect
  <1>15. ASSUME CacheStep PROVE Own'
    BY <1>13, <1>15 DEF CacheStep
  <1>16. ASSUME UNCHANGED vars PROVE Own'
    BY <1>13, <1>16 DEF vars, hubOnly
  <1> HIDE DEF Own
  <1>17. Own'
    BY <1>1, <1>2, <1>3, <1>4, <1>5, <1>6, <1>7, <1>8, <1>9, <1>10, <1>11, <1>12, <1>14, <1>15, <1>16
       DEF HubNext, Serve, Forward
  <1>18. QED BY <1>c, <1>17 DEF HubTypeOK, Own

\* The hub runs the cache: types, and every behaviour of the hub is one of the
\* cache.
LEMMA HubRunsCache == HubSpec => [](IInv /\ HubTypeOK) /\ Spec
  <1>1. HubInit => IInv /\ HubTypeOK
    <2> SUFFICES ASSUME HubInit PROVE IInv /\ HubTypeOK
      OBVIOUS
    <2>1. IInv
      BY IInvInit DEF HubInit
    <2>2. HubTypeOK
      BY <2>1, HubAssumption, CacheAssumption DEF HubInit, HubTypeOK, IInv
    <2>3. QED BY <2>1, <2>2
  <1>2. IInv /\ HubTypeOK /\ [HubNext]_vars => IInv' /\ HubTypeOK' /\ [Next]_cacheVars
    BY HubTypeStep, HubStepIsCacheStep, TypeStep, FilterStep, ListStep, ReadsStep DEF IInv
  <1>3. HubInit => Init
    BY DEF HubInit
  <1>4. QED BY <1>1, <1>2, <1>3, PTL DEF HubSpec, Spec

\* The hub's state keeps its types: no mux overflows, whatever the clients do.
THEOREM HubTypeCorrect == HubSpec => []HubTypeOK
  BY HubRunsCache, PTL

-----------------------------------------------------------------------------
\* The envelopes of one source in a mux: all between two bounds, and in order.

MuxBetween(m, s, lo, hi) == \A k \in 1..Len(m) : m[k][1] = s => lo <= m[k][2] /\ m[k][2] <= hi
MuxInOrder(m, s) ==
    \A j, k \in 1..Len(m) : j <= k /\ m[j][1] = s /\ m[k][1] = s => m[j][2] <= m[k][2]

\* Taking the head of a mux.
LEMMA MuxTail ==
  ASSUME NEW m \in Seq(Sources \X (1..MaxSets)), m # <<>>, NEW s, NEW lo \in Nat, NEW hi \in Nat,
         MuxBetween(m, s, lo, hi), MuxInOrder(m, s)
  PROVE  /\ MuxBetween(Tail(m), s, lo, hi)
         /\ MuxInOrder(Tail(m), s)
         /\ Head(m)[1] = s => /\ lo <= Head(m)[2] /\ Head(m)[2] <= hi
                              /\ MuxBetween(Tail(m), s, Head(m)[2], hi)
         /\ \A e : (\E k \in 1..Len(m) : m[k] = e)
                     => e = Head(m) \/ \E k \in 1..Len(Tail(m)) : Tail(m)[k] = e
  <1>1. /\ Len(m) \in Nat /\ Len(m) >= 1 /\ Len(Tail(m)) = Len(m) - 1 /\ Head(m) = m[1]
        /\ \A k \in 1..(Len(m) - 1) : Tail(m)[k] = m[k + 1]
    BY EmptySeq, HeadTailProperties
  <1>2. 1 \in 1..Len(m)
    BY <1>1
  <1>3. \A k \in 1..(Len(m) - 1) : k \in Nat /\ k + 1 \in 1..Len(m) /\ Tail(m)[k] = m[k + 1] /\ 1 <= k + 1
    BY <1>1
  <1>4. MuxBetween(Tail(m), s, lo, hi)
    BY <1>1, <1>3 DEF MuxBetween
  <1>5. MuxInOrder(Tail(m), s)
    BY <1>1, <1>3 DEF MuxInOrder
  <1>6. Head(m)[1] = s => /\ lo <= Head(m)[2] /\ Head(m)[2] <= hi
                          /\ MuxBetween(Tail(m), s, Head(m)[2], hi)
    BY <1>1, <1>2, <1>3 DEF MuxBetween, MuxInOrder
  <1>7. ASSUME NEW k \in 1..Len(m)
        PROVE  m[k] = Head(m) \/ \E j \in 1..Len(Tail(m)) : Tail(m)[j] = m[k]
    <2>1. CASE k = 1
      BY <1>1, <2>1
    <2>2. CASE k # 1
      <3>1. k - 1 \in 1..(Len(m) - 1) /\ (k - 1) + 1 = k
        BY <1>1, <2>2
      <3>2. Tail(m)[k - 1] = m[k]
        BY <1>1, <3>1
      <3>3. QED BY <1>1, <3>1, <3>2
    <2>3. QED BY <2>1, <2>2
  <1>8. QED BY <1>4, <1>5, <1>6, <1>7

\* Adding an envelope to a mux: one of another source, or the newest of its own.
LEMMA MuxAppend ==
  ASSUME NEW m \in Seq(Sources \X (1..MaxSets)), NEW s, NEW lo \in Nat, NEW hi \in Nat,
         MuxBetween(m, s, lo, hi), MuxInOrder(m, s),
         NEW e \in Sources \X (1..MaxSets), e[1] = s => lo <= e[2] /\ e[2] = hi
  PROVE  /\ MuxBetween(Append(m, e), s, lo, hi)
         /\ MuxInOrder(Append(m, e), s)
         /\ \A k \in 1..Len(m) : k \in 1..Len(Append(m, e)) /\ Append(m, e)[k] = m[k]
         /\ \E k \in 1..Len(Append(m, e)) : Append(m, e)[k] = e
  <1>1. /\ Len(m) \in Nat /\ Len(Append(m, e)) = Len(m) + 1 /\ Append(m, e)[Len(m) + 1] = e
        /\ \A k \in 1..Len(m) : Append(m, e)[k] = m[k]
    BY AppendProperties
  <1>2. \A k \in 1..(Len(m) + 1) : k \in 1..Len(m) \/ k = Len(m) + 1
    BY <1>1
  <1>3. MuxBetween(Append(m, e), s, lo, hi)
    <2> SUFFICES ASSUME NEW k \in 1..(Len(m) + 1), Append(m, e)[k][1] = s
                 PROVE  lo <= Append(m, e)[k][2] /\ Append(m, e)[k][2] <= hi
      BY <1>1 DEF MuxBetween
    <2>1. CASE k \in 1..Len(m)
      BY <1>1, <2>1 DEF MuxBetween
    <2>2. CASE k = Len(m) + 1
      BY <1>1, <2>2
    <2>3. QED BY <1>2, <2>1, <2>2
  <1>4. MuxInOrder(Append(m, e), s)
    <2> SUFFICES ASSUME NEW j \in 1..(Len(m) + 1), NEW k \in 1..(Len(m) + 1), j <= k,
                        Append(m, e)[j][1] = s, Append(m, e)[k][1] = s
                 PROVE  Append(m, e)[j][2] <= Append(m, e)[k][2]
      BY <1>1 DEF MuxInOrder
    <2>1. CASE k \in 1..Len(m)
      <3>1. j \in 1..Len(m)
        BY <1>1, <2>1
      <3>2. QED BY <1>1, <2>1, <3>1 DEF MuxInOrder
    <2>2. CASE k = Len(m) + 1
      <3>1. Append(m, e)[k][2] = hi
        BY <1>1, <2>2
      <3>2. CASE j \in 1..Len(m)
        BY <1>1, <3>1, <3>2 DEF MuxBetween
      <3>3. CASE j = Len(m) + 1
        BY <1>1, <2>2, <3>1, <3>3
      <3>4. QED BY <1>2, <3>2, <3>3
    <2>3. QED BY <1>2, <2>1, <2>2
  <1>5. \A k \in 1..Len(m) : k \in 1..Len(Append(m, e)) /\ Append(m, e)[k] = m[k]
    BY <1>1
  <1>6. \E k \in 1..Len(Append(m, e)) : Append(m, e)[k] = e
    BY <1>1
  <1>7. QED BY <1>3, <1>4, <1>5, <1>6

-----------------------------------------------------------------------------
\* One subscription's pipeline, from the cache's channel to the frames written:
\* nothing moves before Serve subscribed and started the forwarder; what is
\* shown is not newer than what was current when it subscribed, or what was
\* received since; what is in the mux lies between what is shown and what was
\* received, in order; and while Serve loops, the last envelope received is
\* shown, in the forwarder's hand or in the mux.
NotStarted(x) ==
    /\ serve[x[1]] \in {"off", "snapshot"} => sub[x] = "none"
    /\ serve[x[1]] \in {"off", "snapshot", "subscribe"} => fwd[x] = "none"
    /\ fwd[x] = "none" => got[x] = 0 /\ hand[x] = 0
ShownBounded(x) ==
    /\ sub[x] = "none" => shown[x] <= Latest(x[2])
    /\ sub[x] # "none" /\ got[x] = 0 => shown[x] <= joined[x]
    /\ got[x] # 0 => shown[x] <= got[x]
    /\ hand[x] # 0 => hand[x] = got[x]
MuxOrdered(x) ==
    /\ MuxBetween(mux[x[1]], x[2], shown[x], got[x])
    /\ MuxInOrder(mux[x[1]], x[2])
LastReachesClient(x) ==
    serve[x[1]] = "loop" /\ x[1] \notin done =>
        \/ got[x] = 0
        \/ shown[x] = got[x]
        \/ hand[x] = got[x]
        \/ \E k \in 1..Len(mux[x[1]]) : mux[x[1]][k] = <<x[2], got[x]>>
Pipe(x) == NotStarted(x) /\ ShownBounded(x) /\ MuxOrdered(x) /\ LastReachesClient(x)

\* What Pipe says depends on x's own state only; a newer current envelope and
\* more contexts that are done leave it true.
LEMMA PipeFrame ==
  ASSUME NEW x \in Subs, Pipe(x), Latest(x[2]) \in Nat, Latest(x[2])' \in Nat,
         Latest(x[2]) <= Latest(x[2])', shown[x] \in Nat,
         sub'[x] = "none" <=> sub[x] = "none", got'[x] = got[x], joined'[x] = joined[x],
         done \subseteq done', serve'[x[1]] = serve[x[1]], fwd'[x] = fwd[x], hand'[x] = hand[x],
         shown'[x] = shown[x], mux'[x[1]] = mux[x[1]]
  PROVE  Pipe(x)'
  <1>1. NotStarted(x)'
    BY DEF Pipe, NotStarted
  <1>2. ShownBounded(x)'
    BY DEF Pipe, ShownBounded
  <1>3. MuxOrdered(x)'
    BY DEF Pipe, MuxOrdered
  <1>4. LastReachesClient(x)'
    BY DEF Pipe, LastReachesClient
  <1>5. QED BY <1>1, <1>2, <1>3, <1>4 DEF Pipe

\* The invariant of the hub, for the sources with one writer, and the cache's it
\* rests on.
PipesInOrder == \A x \in Subs : SingleWriter(x[2]) => Pipe(x)
HInv == HubTypeOK /\ OInv /\ JoinedFirst /\ PipesInOrder

\* Every step keeps every pipeline in order, and never shows an older envelope.
LEMMA PipeStep ==
  ASSUME HInv, [HubNext]_vars, NEW x \in Subs, SingleWriter(x[2])
  PROVE  Pipe(x)' /\ shown'[x] >= shown[x]
  <1> DEFINE c == x[1]
             s == x[2]
             m == mux[c]
  <1>a. /\ serve \in [Clients -> {"off", "snapshot", "subscribe", "loop", "returned"}]
        /\ step \in [Clients -> 1..(Len(Order) + 1)]
        /\ shown \in [Subs -> 0..MaxSets] /\ hand \in [Subs -> 0..MaxSets]
        /\ fwd \in [Subs -> {"none", "run", "exit"}]
        /\ mux \in [Clients -> Seq(Sources \X (1..MaxSets))]
        /\ sub \in [Subs -> {"none", "open", "removed", "closed"}]
        /\ ch \in [Subs -> Seq(1..MaxSets)] /\ got \in [Subs -> 0..MaxSets]
        /\ joined \in [Subs -> 0..MaxSets]
        /\ MaxSets \in Nat
    BY CacheAssumption DEF HInv, HubTypeOK, TypeOK
  <1>p. x = <<c, s>> /\ c \in Clients /\ s \in Sources
    BY SubIsPair
  <1>t. /\ m \in Seq(Sources \X (1..MaxSets)) /\ shown[x] \in Nat /\ got[x] \in Nat /\ hand[x] \in Nat
        /\ joined[x] \in Nat
    BY <1>a, <1>p
  <1>i. Pipe(x) /\ IInv /\ HubTypeOK
    BY DEF HInv, PipesInOrder, OInv
  <1>n. [Next]_cacheVars
    BY <1>i, HubStepIsCacheStep
  <1>l. Latest(s) \in Nat /\ Latest(s)' \in Nat /\ Latest(s) <= Latest(s)'
    BY <1>i, <1>n, <1>p, LogGrows
  <1>q. /\ NotStarted(x) /\ ShownBounded(x) /\ LastReachesClient(x)
        /\ MuxBetween(m, s, shown[x], got[x]) /\ MuxInOrder(m, s)
    BY <1>i DEF Pipe, MuxOrdered
  <1>e. \A k \in 1..Len(m) : m[k] \in Sources \X (1..MaxSets)
    BY <1>t
  <1> HIDE DEF c, s, m
  <1>fr. ASSUME sub'[x] = "none" <=> sub[x] = "none", got'[x] = got[x], joined'[x] = joined[x],
                done \subseteq done', serve'[c] = serve[c], fwd'[x] = fwd[x], hand'[x] = hand[x],
                shown'[x] = shown[x], mux'[c] = m
         PROVE  Pipe(x)' /\ shown'[x] >= shown[x]
    BY <1>fr, <1>i, <1>l, <1>t, PipeFrame DEF c, s, m
  <1>o. ASSUME sub'[x] = "none" <=> sub[x] = "none", got'[x] = got[x], joined'[x] = joined[x],
               done \subseteq done', UNCHANGED hubOnly
        PROVE  Pipe(x)' /\ shown'[x] >= shown[x]
    BY <1>fr, <1>o DEF hubOnly, m
  \* The steps of Serve for client d.
  <1>1. ASSUME NEW d \in Clients, Connect(d) PROVE Pipe(x)' /\ shown'[x] >= shown[x]
    <2>1. /\ serve[d] = "off" /\ serve' = [serve EXCEPT ![d] = "snapshot"]
          /\ UNCHANGED <<log, sub, got, joined, done, step, shown, fwd, hand, mux>>
      BY <1>1 DEF Connect, cacheVars
    <2>2. CASE d # c
      BY <1>a, <1>p, <1>fr, <2>1, <2>2 DEF m
    <2>3. CASE d = c
      <3>1. serve[c] = "off" /\ serve'[c] = "snapshot"
        BY <1>a, <2>1, <2>3
      <3>2. NotStarted(x)'
        BY <1>q, <2>1, <3>1 DEF NotStarted, c
      <3>3. ShownBounded(x)' /\ MuxOrdered(x)'
        BY <1>q, <2>1 DEF ShownBounded, MuxOrdered, c, s, m, Latest
      <3>4. LastReachesClient(x)'
        BY <3>1 DEF LastReachesClient, c
      <3>5. QED BY <1>t, <2>1, <3>2, <3>3, <3>4 DEF Pipe
    <2>4. QED BY <2>2, <2>3
  <1>2. ASSUME NEW d \in Clients, SnapshotGet(d) PROVE Pipe(x)' /\ shown'[x] >= shown[x]
    <2> DEFINE y == <<d, Order[step[d]]>>
    <2>1. /\ serve[d] = "snapshot" /\ y \in Subs
          /\ shown' = [shown EXCEPT ![y] = Latest(Order[step[d]])]
          /\ UNCHANGED <<log, sub, got, joined, done, serve, fwd, hand, mux>>
      BY <1>2, <1>i, VisitedSource DEF SnapshotGet, cacheVars
    <2>2. CASE y # x
      BY <1>a, <1>fr, <2>1, <2>2 DEF m
    <2>3. CASE y = x
      <3>1. d = c /\ Order[step[d]] = s
        BY <2>3 DEF c, s
      <3>2. shown'[x] = Latest(s) /\ serve[c] = "snapshot"
        BY <1>a, <2>1, <2>3, <3>1
      <3>3. sub[x] = "none" /\ fwd[x] = "none" /\ got[x] = 0 /\ shown[x] <= Latest(s)
        BY <1>q, <3>2 DEF NotStarted, ShownBounded, c, s
      <3>4. NotStarted(x)'
        BY <1>q, <2>1 DEF NotStarted
      <3>5. ShownBounded(x)'
        BY <1>q, <1>l, <2>1, <3>2, <3>3 DEF ShownBounded, s, Latest
      <3>6. MuxOrdered(x)'
        <4>1. \A k \in 1..Len(m) : m[k][1] # s
          <5> SUFFICES ASSUME NEW k \in 1..Len(m), m[k][1] = s PROVE FALSE
            OBVIOUS
          <5>1. m[k][2] \in 1..MaxSets /\ m[k][2] <= 0
            BY <1>q, <1>e, <3>3 DEF MuxBetween
          <5>2. QED BY <1>a, <5>1
        <4>2. mux'[c] = m
          BY <2>1 DEF m
        <4>3. QED BY <4>1, <4>2 DEF MuxOrdered, MuxBetween, MuxInOrder, c, s
      <3>7. LastReachesClient(x)'
        BY <2>1, <3>2 DEF LastReachesClient, c
      <3>8. QED BY <1>t, <1>l, <3>2, <3>3, <3>4, <3>5, <3>6, <3>7 DEF Pipe
    <2>4. QED BY <2>2, <2>3
  <1>3. ASSUME NEW d \in Clients, SnapshotWrite(d) PROVE Pipe(x)' /\ shown'[x] >= shown[x]
    <2>1. /\ serve[d] = "snapshot" /\ serve' = [serve EXCEPT ![d] = "subscribe"]
          /\ UNCHANGED <<log, sub, got, joined, done, shown, fwd, hand, mux>>
      BY <1>3 DEF SnapshotWrite, cacheVars
    <2>2. CASE d # c
      BY <1>a, <1>p, <1>fr, <2>1, <2>2 DEF m
    <2>3. CASE d = c
      <3>1. serve[c] = "snapshot" /\ serve'[c] = "subscribe"
        BY <1>a, <2>1, <2>3
      <3>2. NotStarted(x)'
        BY <1>q, <2>1, <3>1 DEF NotStarted, c
      <3>3. ShownBounded(x)' /\ MuxOrdered(x)'
        BY <1>q, <2>1 DEF ShownBounded, MuxOrdered, c, s, m, Latest
      <3>4. LastReachesClient(x)'
        BY <3>1 DEF LastReachesClient, c
      <3>5. QED BY <1>t, <2>1, <3>2, <3>3, <3>4 DEF Pipe
    <2>4. QED BY <2>2, <2>3
  <1>4. ASSUME NEW d \in Clients, HubSubscribe(d) PROVE Pipe(x)' /\ shown'[x] >= shown[x]
    <2> DEFINE y == <<d, Order[step[d]]>>
    <2>1. /\ serve[d] = "subscribe" /\ y \in Subs /\ sub[y] = "none"
          /\ sub' = [sub EXCEPT ![y] = "open"] /\ joined' = [joined EXCEPT ![y] = Latest(y[2])]
          /\ UNCHANGED <<log, got, done, serve, shown, fwd, hand, mux>>
      BY <1>4, <1>i, VisitedSource DEF HubSubscribe, Subscribe
    <2>2. CASE y # x
      BY <1>a, <1>fr, <2>1, <2>2 DEF m
    <2>3. CASE y = x
      <3>1. serve[c] = "subscribe" /\ sub[x] = "none" /\ sub'[x] = "open" /\ joined'[x] = Latest(s)
        BY <1>a, <2>1, <2>3 DEF c, s
      <3>2. NotStarted(x)'
        BY <1>q, <2>1, <3>1 DEF NotStarted, c
      <3>3. ShownBounded(x)'
        BY <1>q, <2>1, <3>1 DEF ShownBounded, s
      <3>4. MuxOrdered(x)'
        BY <1>q, <2>1 DEF MuxOrdered, c, s, m
      <3>5. LastReachesClient(x)'
        BY <2>1, <3>1 DEF LastReachesClient, c
      <3>6. QED BY <1>t, <2>1, <3>2, <3>3, <3>4, <3>5 DEF Pipe
    <2>4. QED BY <2>2, <2>3
  <1>5. ASSUME NEW d \in Clients, StartForwarders(d) PROVE Pipe(x)' /\ shown'[x] >= shown[x]
    <2>1. /\ serve[d] = "subscribe" /\ serve' = [serve EXCEPT ![d] = "loop"]
          /\ fwd' = [y \in Subs |-> IF y[1] = d THEN "run" ELSE fwd[y]]
          /\ UNCHANGED <<log, sub, got, joined, done, shown, hand, mux>>
      BY <1>5 DEF StartForwarders, cacheVars
    <2>2. CASE d # c
      <3>1. fwd'[x] = fwd[x] /\ serve'[c] = serve[c]
        BY <1>a, <1>p, <2>1, <2>2 DEF c
      <3>2. QED BY <1>fr, <2>1, <3>1 DEF m
    <2>3. CASE d = c
      <3>1. serve[c] = "subscribe" /\ serve'[c] = "loop" /\ fwd'[x] = "run"
        BY <1>a, <2>1, <2>3 DEF c
      <3>2. got[x] = 0
        BY <1>q, <3>1 DEF NotStarted, c
      <3>3. NotStarted(x)'
        BY <3>1 DEF NotStarted, c
      <3>4. ShownBounded(x)' /\ MuxOrdered(x)'
        BY <1>q, <2>1 DEF ShownBounded, MuxOrdered, c, s, m, Latest
      <3>5. LastReachesClient(x)'
        BY <2>1, <3>2 DEF LastReachesClient
      <3>6. QED BY <1>t, <2>1, <3>3, <3>4, <3>5 DEF Pipe
    <2>4. QED BY <2>2, <2>3
  <1>6. ASSUME NEW d \in Clients, WriteUpdate(d) PROVE Pipe(x)' /\ shown'[x] >= shown[x]
    <2>1. /\ serve[d] = "loop" /\ mux[d] # <<>> /\ mux' = [mux EXCEPT ![d] = Tail(@)]
          /\ shown' = [shown EXCEPT ![<<d, Head(mux[d])[1]>>] = Head(mux[d])[2]]
          /\ UNCHANGED <<log, sub, got, joined, done, serve, fwd, hand>>
      BY <1>6 DEF WriteUpdate, cacheVars
    <2>2. CASE d # c
      <3>1. <<d, Head(mux[d])[1]>> # x
        BY <2>2 DEF c
      <3>2. shown'[x] = shown[x] /\ mux'[c] = m
        BY <1>a, <1>p, <2>1, <2>2, <3>1 DEF m
      <3>3. QED BY <1>fr, <2>1, <3>2
    <2>3. CASE d = c
      <3>1. mux'[c] = Tail(m) /\ m # <<>> /\ serve[c] = "loop"
        BY <1>a, <1>p, <2>1, <2>3 DEF m
      <3>2. /\ MuxBetween(Tail(m), s, shown[x], got[x])
            /\ MuxInOrder(Tail(m), s)
            /\ Head(m)[1] = s => /\ shown[x] <= Head(m)[2] /\ Head(m)[2] <= got[x]
                                 /\ MuxBetween(Tail(m), s, Head(m)[2], got[x])
            /\ \A e : (\E k \in 1..Len(m) : m[k] = e)
                        => e = Head(m) \/ \E k \in 1..Len(Tail(m)) : Tail(m)[k] = e
        BY <1>t, <1>q, <3>1, MuxTail
      <3>3. Head(m) \in Sources \X (1..MaxSets)
        BY <1>t, <3>1, HeadTailProperties
      <3>4. NotStarted(x)'
        BY <1>q, <2>1 DEF NotStarted
      <3>5. CASE Head(m)[1] = s
        <4>1. shown'[x] = Head(m)[2]
          BY <1>a, <1>p, <2>1, <2>3, <3>5 DEF m
        <4>2. Head(m)[2] \in 1..MaxSets /\ got[x] # 0 /\ shown'[x] <= got[x] /\ shown[x] <= shown'[x]
          BY <1>a, <1>t, <3>2, <3>3, <3>5, <4>1
        <4>3. ShownBounded(x)'
          <5>1. sub[x] # "none"
            BY <4>2 DEF HInv, JoinedFirst
          <5>2. QED BY <1>q, <2>1, <4>2, <5>1 DEF ShownBounded
        <4>4. MuxOrdered(x)'
          BY <2>1, <3>1, <3>2, <3>5, <4>1 DEF MuxOrdered, c, s
        <4>5. LastReachesClient(x)'
          <5>1. CASE c \in done
            BY <2>1, <5>1 DEF LastReachesClient, c
          <5>2. CASE c \notin done
            <6>1. \/ shown[x] = got[x] \/ hand[x] = got[x]
                  \/ \E k \in 1..Len(m) : m[k] = <<s, got[x]>>
              BY <1>q, <3>1, <4>2, <5>2 DEF LastReachesClient, c, s, m
            <6>2. CASE hand[x] = got[x]
              BY <2>1, <6>2 DEF LastReachesClient
            <6>3. CASE shown[x] = got[x]
              <7>1. shown'[x] = got[x]
                BY <1>t, <1>a, <3>2, <3>5, <4>1, <4>2, <6>3
              <7>2. QED BY <2>1, <7>1 DEF LastReachesClient
            <6>4. CASE \E k \in 1..Len(m) : m[k] = <<s, got[x]>>
              <7>1. CASE <<s, got[x]>> = Head(m)
                <8>1. shown'[x] = got[x]
                  BY <4>1, <7>1
                <8>2. QED BY <2>1, <8>1 DEF LastReachesClient
              <7>2. CASE \E k \in 1..Len(Tail(m)) : Tail(m)[k] = <<s, got[x]>>
                BY <2>1, <3>1, <7>2 DEF LastReachesClient, c, s
              <7>3. QED BY <3>2, <6>4, <7>1, <7>2
            <6>5. QED BY <6>1, <6>2, <6>3, <6>4
          <5>3. QED BY <5>1, <5>2
        <4>6. QED BY <1>t, <3>4, <4>2, <4>3, <4>4, <4>5 DEF Pipe
      <3>6. CASE Head(m)[1] # s
        <4>1. shown'[x] = shown[x]
          <5>1. <<d, Head(mux[d])[1]>> # x
            BY <1>p, <2>3, <3>6 DEF m
          <5>2. QED BY <1>a, <2>1, <5>1
        <4>2. ShownBounded(x)'
          BY <1>q, <2>1, <4>1 DEF ShownBounded, Latest
        <4>3. MuxOrdered(x)'
          BY <2>1, <3>1, <3>2, <4>1 DEF MuxOrdered, c, s
        <4>4. LastReachesClient(x)'
          <5>1. \A k \in 1..Len(m) : m[k] = <<s, got[x]>> => m[k] # Head(m)
            BY <3>6
          <5>2. (\E k \in 1..Len(m) : m[k] = <<s, got[x]>>)
                  => \E k \in 1..Len(Tail(m)) : Tail(m)[k] = <<s, got[x]>>
            BY <3>2, <5>1
          <5>3. QED BY <1>q, <2>1, <3>1, <4>1, <5>2 DEF LastReachesClient, c, s, m
        <4>5. QED BY <1>t, <3>4, <4>1, <4>2, <4>3, <4>4 DEF Pipe
      <3>7. QED BY <3>5, <3>6
    <2>4. QED BY <2>2, <2>3
  <1>7. ASSUME NEW d \in Clients, WriteFail(d) PROVE Pipe(x)' /\ shown'[x] >= shown[x]
    <2>1. /\ serve[d] = "loop" /\ serve' = [serve EXCEPT ![d] = "returned"]
          /\ mux' = [mux EXCEPT ![d] = IF @ = <<>> THEN @ ELSE Tail(@)]
          /\ UNCHANGED <<log, sub, got, joined, done, shown, fwd, hand>>
      BY <1>7 DEF WriteFail, cacheVars
    <2>2. CASE d # c
      BY <1>a, <1>p, <1>fr, <2>1, <2>2 DEF m
    <2>3. CASE d = c
      <3>1. serve'[c] = "returned" /\ serve[c] = "loop"
        BY <1>a, <2>1, <2>3
      <3>2. MuxBetween(mux'[c], s, shown[x], got[x]) /\ MuxInOrder(mux'[c], s)
        <4>1. mux'[c] = IF m = <<>> THEN m ELSE Tail(m)
          BY <1>a, <1>p, <2>1, <2>3 DEF m
        <4>2. CASE m = <<>>
          BY <1>q, <4>1, <4>2
        <4>3. CASE m # <<>>
          <5>1. MuxBetween(Tail(m), s, shown[x], got[x]) /\ MuxInOrder(Tail(m), s)
            BY <1>t, <1>q, <4>3, MuxTail
          <5>2. QED BY <4>1, <4>3, <5>1
        <4>4. QED BY <4>2, <4>3
      <3>3. MuxOrdered(x)'
        BY <2>1, <3>2 DEF MuxOrdered, c, s
      <3>4. NotStarted(x)'
        BY <1>q, <2>1, <3>1 DEF NotStarted, c
      <3>5. ShownBounded(x)'
        BY <1>q, <2>1 DEF ShownBounded, Latest
      <3>6. LastReachesClient(x)'
        BY <3>1 DEF LastReachesClient, c
      <3>7. QED BY <1>t, <2>1, <3>3, <3>4, <3>5, <3>6 DEF Pipe
    <2>4. QED BY <2>2, <2>3
  <1>8. ASSUME NEW d \in Clients, ServeReturn(d) PROVE Pipe(x)' /\ shown'[x] >= shown[x]
    <2>1. /\ serve[d] = "loop" /\ serve' = [serve EXCEPT ![d] = "returned"]
          /\ UNCHANGED <<log, sub, got, joined, done, shown, fwd, hand, mux>>
      BY <1>8 DEF ServeReturn, cacheVars
    <2>2. CASE d # c
      BY <1>a, <1>p, <1>fr, <2>1, <2>2 DEF m
    <2>3. CASE d = c
      <3>1. serve'[c] = "returned" /\ serve[c] = "loop"
        BY <1>a, <2>1, <2>3
      <3>2. NotStarted(x)'
        BY <1>q, <2>1, <3>1 DEF NotStarted, c
      <3>3. ShownBounded(x)' /\ MuxOrdered(x)'
        BY <1>q, <2>1 DEF ShownBounded, MuxOrdered, c, s, m, Latest
      <3>4. LastReachesClient(x)'
        BY <3>1 DEF LastReachesClient, c
      <3>5. QED BY <1>t, <2>1, <3>2, <3>3, <3>4 DEF Pipe
    <2>4. QED BY <2>2, <2>3
  <1>9. ASSUME NEW d \in Clients, Disconnect(d) PROVE Pipe(x)' /\ shown'[x] >= shown[x]
    BY <1>9, <1>o DEF Disconnect, Cancel
  \* The steps of y's forwarder.
  <1>10. ASSUME NEW y \in Subs, ForwardTake(y) PROVE Pipe(x)' /\ shown'[x] >= shown[x]
    <2>1. /\ fwd[y] = "run" /\ hand[y] = 0 /\ ch[y] # <<>>
          /\ got' = [got EXCEPT ![y] = Head(ch[y])] /\ hand' = [hand EXCEPT ![y] = Head(ch[y])]
          /\ UNCHANGED <<log, sub, joined, done, serve, shown, fwd, mux>>
      BY <1>10 DEF ForwardTake, Receive
    <2>2. CASE y # x
      BY <1>a, <1>fr, <2>1, <2>2 DEF m
    <2>3. CASE y = x
      <3>1. /\ got'[x] = ch[x][1] /\ hand'[x] = got'[x] /\ 1 \in 1..Len(ch[x]) /\ ch[x][1] \in 1..MaxSets
        <4>1. ch[x] \in Seq(1..MaxSets) /\ ch[x] # <<>> /\ got'[x] = Head(ch[x]) /\ hand'[x] = Head(ch[x])
          BY <1>a, <2>1, <2>3
        <4>2. Len(ch[x]) >= 1 /\ Len(ch[x]) \in Nat
          BY <4>1, EmptySeq
        <4>3. Head(ch[x]) = ch[x][1]
          BY <4>1
        <4>4. 1 \in 1..Len(ch[x])
          BY <4>2
        <4>5. ch[x][1] \in 1..MaxSets
          BY <4>1, <4>4, ElementOfSeq
        <4>6. QED BY <4>1, <4>3, <4>4, <4>5
      <3>2. got[x] <= got'[x] /\ joined[x] <= got'[x]
        BY <3>1 DEF HInv, OInv, DeliveredInOrder, JoinedFirst
      <3>3. sub[x] # "none" /\ got'[x] # 0 /\ got'[x] \in Nat
        <4>1. ch[x] # <<>>
          BY <2>1, <2>3
        <4>2. QED BY <1>a, <3>1, <4>1, SMTT(60) DEF HInv, JoinedFirst
      <3>4. shown[x] <= got'[x]
        BY <1>q, <1>t, <3>2, <3>3 DEF ShownBounded
      <3>5. NotStarted(x)'
        BY <1>q, <2>1, <2>3 DEF NotStarted
      <3>6. ShownBounded(x)'
        BY <2>1, <3>1, <3>3, <3>4 DEF ShownBounded
      <3>7. MuxOrdered(x)'
        <4>1. \A k \in 1..Len(m) : m[k][2] \in Nat
          BY <1>a, <1>e, SMTT(60)
        <4>2. MuxBetween(m, s, shown[x], got'[x])
          BY <1>q, <1>t, <3>2, <3>3, <4>1 DEF MuxBetween
        <4>3. QED BY <1>q, <2>1, <4>2 DEF MuxOrdered, c, s, m
      <3>8. LastReachesClient(x)'
        BY <3>1 DEF LastReachesClient
      <3>9. QED BY <1>t, <2>1, <3>5, <3>6, <3>7, <3>8 DEF Pipe
    <2>4. QED BY <2>2, <2>3
  <1>11. ASSUME NEW y \in Subs, ForwardEnd(y) PROVE Pipe(x)' /\ shown'[x] >= shown[x]
    <2>1. /\ fwd[y] = "run" /\ fwd' = [fwd EXCEPT ![y] = "exit"]
          /\ UNCHANGED <<log, sub, got, joined, done, serve, shown, hand, mux>>
      BY <1>11 DEF ForwardEnd, cacheVars
    <2>2. CASE y # x
      BY <1>a, <1>fr, <2>1, <2>2 DEF m
    <2>3. CASE y = x
      <3>1. fwd'[x] = "exit" /\ fwd[x] = "run"
        BY <1>a, <2>1, <2>3
      <3>2. NotStarted(x)'
        BY <1>q, <2>1, <3>1 DEF NotStarted
      <3>3. ShownBounded(x)' /\ MuxOrdered(x)' /\ LastReachesClient(x)'
        BY <1>q, <2>1 DEF ShownBounded, MuxOrdered, LastReachesClient, c, s, m, Latest
      <3>4. QED BY <1>t, <2>1, <3>2, <3>3 DEF Pipe
    <2>4. QED BY <2>2, <2>3
  <1>12. ASSUME NEW y \in Subs, ForwardPush(y) PROVE Pipe(x)' /\ shown'[x] >= shown[x]
    <2>1. /\ hand[y] # 0 /\ hand' = [hand EXCEPT ![y] = 0]
          /\ mux' = [mux EXCEPT ![y[1]] = Append(@, <<y[2], hand[y]>>)]
          /\ UNCHANGED <<log, sub, got, joined, done, serve, shown, fwd>>
      BY <1>12 DEF ForwardPush, cacheVars
    <2>2. CASE y[1] # c
      <3>1. y # x /\ mux'[c] = m
        BY <1>a, <1>p, <2>1, <2>2 DEF c, m
      <3>2. QED BY <1>a, <1>fr, <2>1, <3>1
    <2>3. CASE y[1] = c
      <3>1. PICK e \in Sources \X (1..MaxSets) :
               e = <<y[2], hand[y]>> /\ mux'[c] = Append(m, e) /\ e[1] = y[2] /\ e[2] = hand[y]
        <4>1. hand[y] \in 1..MaxSets /\ y[2] \in Sources
          BY <1>a, <2>1, SubIsPair
        <4>2. mux'[c] = Append(m, <<y[2], hand[y]>>)
          BY <1>a, <1>p, <2>1, <2>3 DEF m
        <4>3. <<y[2], hand[y]>> \in Sources \X (1..MaxSets)
          BY <4>1
        <4>4. QED BY <4>2, <4>3
      <3>2. y[2] = s => y = x
        BY <1>p, <2>3, SubIsPair
      <3>3. e[1] = s => shown[x] <= e[2] /\ e[2] = got[x]
        BY <1>q, <2>1, <3>1, <3>2 DEF ShownBounded
      <3>4. /\ MuxBetween(Append(m, e), s, shown[x], got[x])
            /\ MuxInOrder(Append(m, e), s)
            /\ \A k \in 1..Len(m) : k \in 1..Len(Append(m, e)) /\ Append(m, e)[k] = m[k]
            /\ \E k \in 1..Len(Append(m, e)) : Append(m, e)[k] = e
        <4>1. /\ m \in Seq(Sources \X (1..MaxSets)) /\ shown[x] \in Nat /\ got[x] \in Nat
              /\ MuxBetween(m, s, shown[x], got[x]) /\ MuxInOrder(m, s)
          BY <1>q, <1>t
        <4>2. e \in Sources \X (1..MaxSets)
          BY <3>1
        <4>3. QED BY <3>3, <4>1, <4>2, MuxAppend, SMTT(60)
      <3>5. hand'[x] = 0 \/ (hand'[x] = hand[x] /\ y # x)
        BY <1>a, <2>1
      <3>6. NotStarted(x)'
        BY <1>q, <2>1, <3>5 DEF NotStarted
      <3>7. ShownBounded(x)'
        BY <1>q, <2>1, <3>5 DEF ShownBounded, Latest
      <3>8. MuxOrdered(x)'
        BY <2>1, <3>1, <3>4 DEF MuxOrdered, c, s
      <3>9. LastReachesClient(x)'
        <4>1. (\E k \in 1..Len(m) : m[k] = <<s, got[x]>>)
                => \E k \in 1..Len(mux'[c]) : mux'[c][k] = <<s, got[x]>>
          BY <3>1, <3>4
        <4>2. CASE y = x
          <5>1. hand[x] = got[x] /\ e = <<s, got[x]>>
            BY <1>q, <2>1, <3>1, <4>2 DEF ShownBounded, s
          <5>2. \E k \in 1..Len(mux'[c]) : mux'[c][k] = <<s, got[x]>>
            BY <3>1, <3>4, <5>1
          <5>3. QED BY <2>1, <5>2 DEF LastReachesClient, c, s
        <4>3. CASE y # x
          <5>1. hand'[x] = hand[x]
            BY <1>a, <2>1, <4>3
          <5>2. QED BY <1>q, <2>1, <4>1, <5>1 DEF LastReachesClient, c, s, m
        <4>4. QED BY <4>2, <4>3
      <3>10. QED BY <1>t, <2>1, <3>6, <3>7, <3>8, <3>9 DEF Pipe
    <2>4. QED BY <2>2, <2>3
  <1>13. ASSUME NEW y \in Subs, ForwardGiveUp(y) PROVE Pipe(x)' /\ shown'[x] >= shown[x]
    <2>1. /\ hand[y] # 0 /\ y[1] \in done /\ hand' = [hand EXCEPT ![y] = 0]
          /\ fwd' = [fwd EXCEPT ![y] = "exit"]
          /\ UNCHANGED <<log, sub, got, joined, done, serve, shown, mux>>
      BY <1>13 DEF ForwardGiveUp, cacheVars
    <2>2. CASE y # x
      BY <1>a, <1>fr, <2>1, <2>2 DEF m
    <2>3. CASE y = x
      <3>1. hand'[x] = 0 /\ fwd'[x] = "exit" /\ c \in done
        BY <1>a, <2>1, <2>3 DEF c
      <3>2. fwd[x] # "none"
        BY <1>q, <2>1, <2>3 DEF NotStarted
      <3>3. NotStarted(x)'
        BY <1>q, <2>1, <3>1, <3>2 DEF NotStarted
      <3>4. ShownBounded(x)' /\ MuxOrdered(x)'
        BY <1>q, <2>1, <3>1 DEF ShownBounded, MuxOrdered, c, s, m, Latest
      <3>5. LastReachesClient(x)'
        BY <2>1, <3>1 DEF LastReachesClient, c
      <3>6. QED BY <1>t, <2>1, <3>3, <3>4, <3>5 DEF Pipe
    <2>4. QED BY <2>2, <2>3
  \* The steps of the cache.
  <1>14. ASSUME CacheStep PROVE Pipe(x)' /\ shown'[x] >= shown[x]
    <2>1. UNCHANGED <<got, joined, done>>
      BY <1>14 DEF CacheStep, Set, SetStore, SetLoad, SetSend, SetReturn, Unlist, Shift, StoreHeader,
             CloseOnce
    <2>2. sub'[x] = "none" <=> sub[x] = "none"
      <3>1. \/ sub' = sub
            \/ \E y \in Subs : /\ sub[y] # "none"
                               /\ sub' = [sub EXCEPT ![y] = "removed"] \/ sub' = [sub EXCEPT ![y] = "closed"]
        BY <1>14 DEF CacheStep, Set, SetStore, SetLoad, SetSend, SetReturn, Unlist, Shift, StoreHeader,
             CloseOnce
      <3>2. QED BY <1>a, <3>1
    <2>3. QED BY <1>14, <1>o, <2>1, <2>2 DEF CacheStep
  <1>15. CASE UNCHANGED vars
    BY <1>15, <1>o DEF vars, cacheVars, hubOnly
  <1>16. QED
    BY <1>1, <1>2, <1>3, <1>4, <1>5, <1>6, <1>7, <1>8, <1>9, <1>10, <1>11, <1>12, <1>13, <1>14, <1>15
       DEF HubNext, Serve, Forward

\* Every pipeline starts empty.
LEMMA PipeInit == HubInit => PipesInOrder
  <1> SUFFICES ASSUME HubInit, NEW x \in Subs PROVE Pipe(x)
    BY DEF PipesInOrder
  <1>1. /\ serve[x[1]] = "off" /\ sub[x] = "none" /\ fwd[x] = "none" /\ got[x] = 0 /\ hand[x] = 0
        /\ shown[x] = 0 /\ mux[x[1]] = <<>> /\ Latest(x[2]) = 0
    BY SubIsPair, EmptySeq DEF HubInit, Init, Latest
  <1>2. NotStarted(x)
    BY <1>1 DEF NotStarted
  <1>3. ShownBounded(x)
    BY <1>1 DEF ShownBounded
  <1>4. MuxOrdered(x)
    <2>1. \A k \in 1..Len(mux[x[1]]) : FALSE
      BY <1>1, EmptySeq
    <2>2. QED BY <2>1 DEF MuxOrdered, MuxBetween, MuxInOrder
  <1>5. LastReachesClient(x)
    BY <1>1 DEF LastReachesClient
  <1>6. QED BY <1>2, <1>3, <1>4, <1>5 DEF Pipe

\* The invariant of the hub holds in every state.
LEMMA HInvAlways == HubSpec => []HInv
  <1>1. HInv /\ [HubNext]_vars => PipesInOrder'
    BY PipeStep DEF PipesInOrder, SingleWriter
  <1>2. HubSpec => [](OInv /\ JoinedFirst /\ HubTypeOK)
    BY HubRunsCache, OInvAlways, JoinedAlways, PTL
  <1>3. QED BY PipeInit, <1>1, <1>2, PTL DEF HubSpec, HInv

\* What a client displays for a source never moves back to an older envelope,
\* from the snapshot frame through every update frame, whatever the sizes of the
\* channel and the mux and however many clients and sources there are (hub.go
\* Serve and its forwarders).
THEOREM FramesNeverGoBack == HubSpec => ClientNeverGoesBack
  <1>1. HInv /\ [HubNext]_vars => [\A x \in Subs : SingleWriter(x[2]) => shown'[x] >= shown[x]]_vars
    BY PipeStep
  <1>2. QED BY <1>1, HInvAlways, PTL DEF HubSpec, ClientNeverGoesBack

\* A connected client whose pipeline is drained shows the last broadcast, or the
\* broadcast fell between its snapshot and its subscription, or a Set dropped or
\* skipped exactly it: nothing is lost between the cache's channel and the frame
\* (hub.go Serve and its forwarders, cache.go Set).
THEOREM StaleOnlyByGapOrDrop == HubSpec => []StaleOnlyByGapOrMiss
  <1>1. HInv /\ LInv => StaleOnlyByGapOrMiss
    <2> SUFFICES ASSUME HInv, LInv, NEW x \in Subs, SingleWriter(x[2]), Drained(x)
                 PROVE  \/ shown[x] >= LastBroadcast(x[2])
                        \/ LastBroadcast(x[2]) <= joined[x]
                        \/ missed[x] = LastBroadcast(x[2])
      BY DEF StaleOnlyByGapOrMiss
    <2>1. /\ ch[x] = <<>> /\ hand[x] = 0 /\ Live(x) /\ Quiet(x[2]) /\ serve[x[1]] = "loop"
          /\ \A k \in 1..Len(mux[x[1]]) : mux[x[1]][k][1] # x[2]
      BY DEF Drained, InTransit
    <2>2. shown[x] \in Nat /\ got[x] \in Nat
      BY CacheAssumption DEF HInv, HubTypeOK, TypeOK
    <2>3. got[x] = 0 \/ shown[x] = got[x]
      <3>1. x[1] \notin done
        BY <2>1 DEF Live
      <3>2. \A k \in 1..Len(mux[x[1]]) : mux[x[1]][k] # <<x[2], got[x]>>
        BY <2>1
      <3>3. LastReachesClient(x)
        BY DEF HInv, PipesInOrder, Pipe
      <3>4. QED BY <2>1, <3>1, <3>2, <3>3 DEF LastReachesClient
    <2>4. Newest(x) = got[x]
      BY <2>1 DEF Newest
    <2>5. \/ Newest(x) = LastBroadcast(x[2])
          \/ LastBroadcast(x[2]) <= joined[x]
          \/ missed[x] = LastBroadcast(x[2])
      BY <2>1 DEF LInv, AllPaid, Paid, Quiet
    <2>6. QED BY <2>2, <2>3, <2>4, <2>5
  <1>2. QED BY <1>1, HInvAlways, HubRunsCache, LInvAlways, PTL

\* The hub uses the cache only through the cache's own steps, so what is proved
\* of the cache holds of it under the hub: in particular its channels keep the
\* promise of Broadcast.
THEOREM HubKeepsBroadcast == HubSpec => Spec /\ ImplementsBroadcast
  BY HubRunsCache, CacheImplementsBroadcast, PTL
=============================================================================
