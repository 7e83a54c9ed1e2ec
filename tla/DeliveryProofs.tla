--------------------------- MODULE DeliveryProofs ---------------------------
(***************************************************************************)
(* Theorems about what the cache delivers, for every value of its          *)
(* constants: order, the promise of Broadcast, no silent loss, and the only *)
(* way in which the shared backing array can make a Set skip a subscriber. *)
(***************************************************************************)
EXTENDS CacheProofs, WellFoundedInduction

\* Channels: c holds what is waiting and g is the last envelope received.

InOrder(c, g) == /\ \A k \in 1..Len(c) : g <= c[k]
                 /\ \A j, k \in 1..Len(c) : j <= k => c[j] <= c[k]
NewestOf(c, g) == IF c = <<>> THEN g ELSE c[Len(c)]

\* In an ordered channel everything is between the last envelope received and
\* the newest one.
LEMMA OrderBounds ==
  ASSUME NEW c \in Seq(Nat), NEW g \in Nat, InOrder(c, g)
  PROVE  /\ NewestOf(c, g) \in Nat
         /\ g <= NewestOf(c, g)
         /\ \A k \in 1..Len(c) : c[k] \in Nat /\ g <= c[k] /\ c[k] <= NewestOf(c, g)
  <1>1. Len(c) \in Nat /\ \A k \in 1..Len(c) : c[k] \in Nat
    OBVIOUS
  <1>2. c # <<>> => Len(c) \in 1..Len(c)
    BY <1>1, EmptySeq
  <1>3. c = <<>> => Len(c) = 0
    OBVIOUS
  <1>4. QED BY <1>1, <1>2, <1>3 DEF InOrder, NewestOf

\* A send that is not older than the newest envelope keeps the order.
LEMMA OrderAppend ==
  ASSUME NEW c \in Seq(Nat), NEW g \in Nat, NEW n \in Nat, InOrder(c, g), NewestOf(c, g) <= n
  PROVE  InOrder(Append(c, n), g) /\ NewestOf(Append(c, n), g) = n
  <1>1. /\ Len(c) \in Nat /\ Len(Append(c, n)) = Len(c) + 1 /\ Append(c, n) # <<>>
        /\ \A k \in 1..Len(c) : Append(c, n)[k] = c[k]
        /\ Append(c, n)[Len(c) + 1] = n
    BY AppendProperties
  <1>2. g <= n /\ \A k \in 1..Len(c) : c[k] \in Nat /\ g <= c[k] /\ c[k] <= n
    BY OrderBounds
  <1>3. \A k \in 1..(Len(c) + 1) : k \in 1..Len(c) \/ k = Len(c) + 1
    BY <1>1
  <1>4. \A k \in 1..(Len(c) + 1) : g <= Append(c, n)[k] /\ Append(c, n)[k] <= n
    BY <1>1, <1>2, <1>3
  <1>5. \A j, k \in 1..(Len(c) + 1) : j <= k => Append(c, n)[j] <= Append(c, n)[k]
    <2> TAKE j, k \in 1..(Len(c) + 1)
    <2>1. CASE k = Len(c) + 1
      BY <1>1, <1>4, <2>1
    <2>2. CASE k \in 1..Len(c)
      <3>1. j <= k => j \in 1..Len(c)
        BY <1>1, <2>2
      <3>2. QED BY <1>1, <2>2, <3>1 DEF InOrder
    <2>3. QED BY <1>3, <2>1, <2>2
  <1>6. QED BY <1>1, <1>4, <1>5 DEF InOrder, NewestOf

\* Taking the head keeps the order and the newest envelope.
LEMMA OrderTail ==
  ASSUME NEW c \in Seq(Nat), NEW g \in Nat, InOrder(c, g), c # <<>>
  PROVE  InOrder(Tail(c), Head(c)) /\ NewestOf(Tail(c), Head(c)) = NewestOf(c, g)
  <1>1. /\ Len(c) \in Nat /\ Len(c) >= 1
        /\ Tail(c) \in Seq(Nat) /\ Len(Tail(c)) = Len(c) - 1 /\ Head(c) = c[1]
        /\ \A k \in 1..(Len(c) - 1) : Tail(c)[k] = c[k + 1]
    BY EmptySeq, HeadTailProperties
  <1>2. \A k \in 1..(Len(c) - 1) : k + 1 \in 1..Len(c) /\ 1 \in 1..Len(c)
    BY <1>1
  <1>3. \A k \in 1..(Len(c) - 1) : Tail(c)[k] = c[k + 1] /\ k + 1 \in 1..Len(c) /\ k \in Nat
    BY <1>1
  <1>4. InOrder(Tail(c), Head(c))
    <2> HIDE DEF InOrder
    <2>1. \A k \in 1..(Len(c) - 1) : Head(c) <= Tail(c)[k]
      BY <1>1, <1>2, <1>3 DEF InOrder
    <2>2. \A j, k \in 1..(Len(c) - 1) : j <= k => Tail(c)[j] <= Tail(c)[k]
      BY <1>3 DEF InOrder
    <2>3. QED BY <1>1, <2>1, <2>2 DEF InOrder
  <1>5. CASE Len(c) = 1
    <2>1. Tail(c) = <<>>
      <3>1. Tail(c) \in Seq(Nat) /\ Len(Tail(c)) = 0
        BY <1>1, <1>5
      <3>2. QED BY <3>1, EmptySeq
    <2>2. QED BY <1>1, <1>4, <1>5, <2>1 DEF NewestOf
  <1>6. CASE Len(c) > 1
    <2>1. Tail(c) # <<>>
      <3>1. <<>> \in Seq(Nat) /\ Len(<<>>) = 0
        BY EmptySeq
      <3>2. Len(Tail(c)) # 0
        BY <1>1, <1>6
      <3>3. QED BY <3>1, <3>2
    <2>2. Len(c) - 1 \in 1..(Len(c) - 1)
      BY <1>1, <1>6
    <2>3. NewestOf(Tail(c), Head(c)) = c[Len(c)]
      BY <1>1, <2>1, <2>2 DEF NewestOf
    <2>4. QED BY <1>4, <2>3 DEF NewestOf
  <1>7. QED BY <1>1, <1>5, <1>6

-----------------------------------------------------------------------------
\* A Set in flight carries a stored envelope of its source, and the current one
\* if its writer is the only one that could store a newer one: it is busy.
CarriesLatest ==
    \A w \in Writers :
        env[w] # 0 => /\ env[w] <= Latest(Feeds[w])
                      /\ SingleWriter(Feeds[w]) => env[w] = Latest(Feeds[w])

\* It stays so at every step.
LEMMA CarriesLatestStep ==
  ASSUME IInv, CarriesLatest, [Next]_cacheVars
  PROVE  CarriesLatest'
  <1>a. /\ log \in [Sources -> Seq(Validators)] /\ env \in [Writers -> 0..MaxSets]
        /\ \A w \in Writers : Feeds[w] \in Sources
    BY CacheAssumption DEF IInv, TypeOK
  <1> SUFFICES ASSUME NEW u \in Writers, env'[u] # 0
               PROVE  /\ env'[u] <= Len(log'[Feeds[u]])
                      /\ SingleWriter(Feeds[u]) => env'[u] = Len(log'[Feeds[u]])
    BY DEF CarriesLatest, Latest, SingleWriter
  <1> DEFINE Carries == /\ env'[u] <= Len(log'[Feeds[u]])
                        /\ SingleWriter(Feeds[u]) => env'[u] = Len(log'[Feeds[u]])
  <1>b. env[u] # 0 => /\ env[u] <= Len(log[Feeds[u]])
                      /\ SingleWriter(Feeds[u]) => env[u] = Len(log[Feeds[u]])
    BY DEF CarriesLatest, Latest
  <1>1. ASSUME NEW w \in Writers, NEW v \in Validators, SetStore(w, v)
        PROVE  Carries
    <2>1. log' = [log EXCEPT ![Feeds[w]] = Append(@, v)] /\ env[w] = 0
      BY <1>1 DEF SetStore
    <2>2. env' = env \/ env' = [env EXCEPT ![w] = Len(log[Feeds[w]]) + 1]
      BY <1>1 DEF SetStore, setVars
    <2>3. Len(log[Feeds[w]]) \in Nat /\ Len(Append(log[Feeds[w]], v)) = Len(log[Feeds[w]]) + 1
      BY <1>a, AppendProperties
    <2>4. CASE u = w
      BY <1>a, <2>1, <2>2, <2>3, <2>4
    <2>5. CASE u # w
      <3>1. env'[u] = env[u] /\ env[u] \in Nat
        BY <1>a, <2>2, <2>5
      <3>2. CASE Feeds[u] # Feeds[w]
        BY <1>a, <1>b, <2>1, <3>1, <3>2
      <3>3. CASE Feeds[u] = Feeds[w]
        <4>1. ~SingleWriter(Feeds[u])
          BY <2>5, <3>3 DEF SingleWriter
        <4>2. QED BY <1>a, <1>b, <2>1, <2>3, <3>1, <3>3, <4>1
      <3>4. QED BY <3>2, <3>3
    <2>6. QED BY <2>4, <2>5
  <1>2. ASSUME NEW w \in Writers, SetReturn(w) PROVE Carries
    BY <1>a, <1>b, <1>2 DEF SetReturn
  <1>3. ASSUME log' = log, env' = env PROVE Carries
    BY <1>b, <1>3
  <1>4. ASSUME NEW w \in Writers, SetLoad(w) \/ SetSend(w) PROVE log' = log /\ env' = env
    BY <1>4 DEF SetLoad, SetSend
  <1>5. ASSUME NEW c \in Clients, Cancel(c) PROVE log' = log /\ env' = env
    BY <1>5 DEF Cancel, setVars
  <1>6. ASSUME NEW x \in Subs, Subscribe(x) \/ Unlist(x) \/ CloseOnce(x) \/ Receive(x)
        PROVE  log' = log /\ env' = env
    BY <1>6 DEF Subscribe, Unlist, CloseOnce, Receive, setVars
  <1>7. CASE UNCHANGED cacheVars
    BY <1>3, <1>7 DEF cacheVars, setVars
  <1>8. ASSUME Shift \/ StoreHeader PROVE log' = log /\ env' = env
    BY <1>8 DEF Shift, StoreHeader, setVars
  <1>9. QED
    BY <1>1, <1>2, <1>3, <1>4, <1>5, <1>6, <1>7, <1>8 DEF Next, Set

\* The order property, in terms of the operators on channels.
LEMMA OrderRestated ==
  DeliveredInOrder <=> \A x \in Subs : SingleWriter(x[2]) => /\ InOrder(ch[x], got[x])
                                                          /\ NewestOf(ch[x], got[x]) <= Latest(x[2])
  BY DEF DeliveredInOrder, InOrder, NewestOf, Newest

\* The log of a source never shrinks.
LEMMA LogGrows ==
  ASSUME IInv, [Next]_cacheVars, NEW s \in Sources
  PROVE  Latest(s) \in Nat /\ Latest(s)' \in Nat /\ Latest(s) <= Latest(s)'
  <1>a. log \in [Sources -> Seq(Validators)] /\ \A w \in Writers : Feeds[w] \in Sources
    BY CacheAssumption DEF IInv, TypeOK
  <1>1. ASSUME NEW w \in Writers, NEW v \in Validators, SetStore(w, v)
        PROVE  Len(log'[s]) \in Nat /\ Len(log[s]) <= Len(log'[s])
    <2>1. log' = [log EXCEPT ![Feeds[w]] = Append(@, v)]
      BY <1>1 DEF SetStore
    <2>2. Len(Append(log[Feeds[w]], v)) = Len(log[Feeds[w]]) + 1
      BY <1>a, AppendProperties
    <2>3. QED BY <1>a, <2>1, <2>2
  <1>2. log' = log \/ \E w \in Writers, v \in Validators : SetStore(w, v)
    BY DEF Next, Set, SetLoad, SetSend, SetReturn, Cancel, Subscribe, Unlist, Shift, StoreHeader, CloseOnce, Receive, cacheVars
  <1>3. QED BY <1>a, <1>1, <1>2 DEF Latest

\* Delivery stays in order.
LEMMA OrderStep ==
  ASSUME IInv, CarriesLatest, DeliveredInOrder, [Next]_cacheVars
  PROVE  DeliveredInOrder'
  <1>a. /\ ch \in [Subs -> Seq(1..MaxSets)] /\ got \in [Subs -> 0..MaxSets]
        /\ env \in [Writers -> 0..MaxSets] /\ at \in [Writers -> Subs \cup {Nil}]
        /\ MaxSets \in Nat
    BY CacheAssumption DEF IInv, TypeOK
  <1>b. \A x \in Subs : ch[x] \in Seq(Nat) /\ got[x] \in Nat
    <2>1. Seq(1..MaxSets) \subseteq Seq(Nat)
      BY <1>a, SeqMonotonic
    <2>2. QED BY <1>a, <2>1
  <1> SUFFICES ASSUME NEW x \in Subs, SingleWriter(x[2])
               PROVE  /\ InOrder(ch'[x], got'[x])
                      /\ NewestOf(ch'[x], got'[x]) <= Latest(x[2])'
    BY DEF DeliveredInOrder, InOrder, NewestOf, Newest, SingleWriter
  <1>c. InOrder(ch[x], got[x]) /\ NewestOf(ch[x], got[x]) <= Latest(x[2])
    BY OrderRestated
  <1>d. Latest(x[2]) \in Nat /\ Latest(x[2])' \in Nat /\ Latest(x[2]) <= Latest(x[2])'
    BY SubParts, LogGrows
  <1>e. NewestOf(ch[x], got[x]) \in Nat
    BY <1>b, <1>c, OrderBounds
  <1>1. ASSUME ch'[x] = ch[x], got'[x] = got[x]
        PROVE  InOrder(ch'[x], got'[x]) /\ NewestOf(ch'[x], got'[x]) <= Latest(x[2])'
    BY <1>1, <1>c, <1>d, <1>e
  <1>2. ASSUME NEW w \in Writers, SetSend(w)
        PROVE  InOrder(ch'[x], got'[x]) /\ NewestOf(ch'[x], got'[x]) <= Latest(x[2])'
    <2>1. got' = got /\ at[w] # Nil /\ Offer(at[w], env[w])
      BY <1>2 DEF SetSend
    <2>2. ch' = ch \/ ch' = [ch EXCEPT ![at[w]] = Append(@, env[w])]
      BY <2>1 DEF Offer
    <2>3. CASE at[w] # x
      BY <1>1, <1>a, <2>1, <2>2, <2>3
    <2>4. CASE at[w] = x
      <3>1. env[w] # 0 /\ x[2] = Feeds[w]
        BY <2>1, <2>4 DEF IInv, SetReadsSubscribers, HeldOK
      <3>2. env[w] = Latest(x[2]) /\ env[w] \in Nat
        BY <1>a, <3>1 DEF CarriesLatest
      <3>3. /\ InOrder(Append(ch[x], env[w]), got[x])
            /\ NewestOf(Append(ch[x], env[w]), got[x]) = env[w]
        BY <1>b, <1>c, <3>2, OrderAppend
      <3>4. CASE ch' = ch
        BY <1>1, <2>1, <3>4
      <3>5. CASE ch' = [ch EXCEPT ![x] = Append(@, env[w])]
        <4>1. ch'[x] = Append(ch[x], env[w]) /\ got'[x] = got[x]
          BY <1>a, <2>1, <3>5
        <4>2. QED BY <1>d, <3>2, <3>3, <4>1
      <3>6. QED BY <2>2, <2>4, <3>4, <3>5
    <2>5. QED BY <2>3, <2>4
  <1>3. ASSUME NEW y \in Subs, Receive(y)
        PROVE  InOrder(ch'[x], got'[x]) /\ NewestOf(ch'[x], got'[x]) <= Latest(x[2])'
    <2>1. ch[y] # <<>> /\ got' = [got EXCEPT ![y] = Head(ch[y])] /\ ch' = [ch EXCEPT ![y] = Tail(@)]
      BY <1>3 DEF Receive
    <2>2. CASE y # x
      BY <1>1, <1>a, <2>1, <2>2
    <2>3. CASE y = x
      <3>1. ch'[x] = Tail(ch[x]) /\ got'[x] = Head(ch[x]) /\ ch[x] # <<>>
        BY <1>a, <2>1, <2>3
      <3>2. /\ InOrder(Tail(ch[x]), Head(ch[x]))
            /\ NewestOf(Tail(ch[x]), Head(ch[x])) = NewestOf(ch[x], got[x])
        BY <1>b, <1>c, <3>1, OrderTail
      <3>3. QED BY <1>c, <1>d, <1>e, <3>1, <3>2
    <2>4. QED BY <2>2, <2>3
  <1>4. ASSUME NEW w \in Writers, Set(w) PROVE (ch' = ch /\ got' = got) \/ SetSend(w)
    BY <1>4 DEF Set, SetStore, SetLoad, SetReturn
  <1>5. ASSUME NEW c \in Clients, Cancel(c) PROVE ch' = ch /\ got' = got
    BY <1>5 DEF Cancel
  <1>6. ASSUME NEW y \in Subs, Subscribe(y) \/ Unlist(y) \/ CloseOnce(y)
        PROVE  ch' = ch /\ got' = got
    BY <1>6 DEF Subscribe, Unlist, CloseOnce
  <1>7. CASE UNCHANGED cacheVars
    BY <1>1, <1>7 DEF cacheVars
  <1>8. ASSUME Shift \/ StoreHeader PROVE ch' = ch /\ got' = got
    BY <1>8 DEF Shift, StoreHeader
  <1>9. QED
    BY <1>1, <1>2, <1>3, <1>4, <1>5, <1>6, <1>7, <1>8 DEF Next

\* The inductive invariant behind every theorem about order.
OInv == IInv /\ CarriesLatest /\ DeliveredInOrder

\* It holds in every state.
LEMMA OInvAlways == Spec => []OInv
  <1>1. Init => OInv
    <2> SUFFICES ASSUME Init PROVE OInv
      OBVIOUS
    <2>1. IInv
      BY IInvInit
    <2>2. CarriesLatest
      BY DEF Init, CarriesLatest
    <2>3. DeliveredInOrder
      <3>1. \A x \in Subs : ch[x] = <<>> /\ got[x] = 0 /\ Latest(x[2]) = 0
        BY SubParts DEF Init, Latest
      <3>2. QED BY <3>1 DEF DeliveredInOrder, Newest
    <2>4. QED BY <2>1, <2>2, <2>3 DEF OInv
  <1>2. OInv /\ [Next]_cacheVars => OInv'
    BY TypeStep, FilterStep, ListStep, ReadsStep, CarriesLatestStep, OrderStep DEF OInv, IInv
  <1>3. QED BY <1>1, <1>2, PTL DEF Spec

\* Of a source that one goroutine sets, no subscriber is given an envelope older than
\* one it was given before, however Sets, full channels and departures
\* interleave (cache.go Set, subscriber.send).
THEOREM OrderedDelivery == Spec => []DeliveredInOrder
  BY OInvAlways, PTL DEF OInv

-----------------------------------------------------------------------------
\* What the steps do to the array a Set in flight ranges over.

\* Subscribe writes at most the first place after the list, with the new
\* subscription, and only while the array is shared.
LEMMA ArrayAfterSubscribe ==
  ASSUME IInv, NEW x \in Subs, Subscribe(x), NEW v \in Writers, env[v] # 0
  PROVE  /\ old'[v] = <<>> => old[v] = <<>>
         /\ \A k \in 1..len[v] :
               \/ ArrayOf(v)'[k] = ArrayOf(v)[k]
               \/ /\ Feeds[v] = x[2] /\ old[v] = <<>> /\ k > count[x[2]]
                  /\ ArrayOf(v)'[k] = x
  <1> DEFINE s == x[2]
  <1>t. /\ array \in [Sources -> Seq(Subs \cup {Nil})] /\ count \in [Sources -> Nat]
        /\ old \in [Writers -> Seq(Subs \cup {Nil})] /\ len \in [Writers -> Nat]
    BY DEF IInv, TypeOK
  <1>a. /\ s \in Sources /\ array[s] \in Seq(Subs \cup {Nil}) /\ Len(array[s]) \in Nat
        /\ count[s] \in Nat /\ Feeds[v] \in Sources
    BY <1>t, CacheAssumption, SubParts
  <1>b. len[v] <= Len(ArrayOf(v))
    BY DEF IInv, SetReadsSubscribers, ReadsOK
  <1>1. CASE count[s] < Len(array[s])
    <2>1. array' = [array EXCEPT ![s] = [@ EXCEPT ![count[s] + 1] = x]] /\ old' = old
      BY <1>1 DEF Subscribe
    <2>2. CASE Feeds[v] = s /\ old[v] = <<>>
      <3>1. ArrayOf(v)' = [array[s] EXCEPT ![count[s] + 1] = x] /\ ArrayOf(v) = array[s]
        BY <1>a, <1>t, <2>1, <2>2 DEF ArrayOf
      <3>2. \A k \in 1..len[v] : k \in 1..Len(array[s])
        BY <1>a, <1>t, <1>b, <3>1
      <3>3. \A k \in 1..Len(array[s]) : ArrayOf(v)'[k] = IF k = count[s] + 1 THEN x ELSE array[s][k]
        BY <1>a, <1>t, <3>1
      <3>4. QED BY <1>a, <1>t, <2>1, <2>2, <3>1, <3>2, <3>3, SMTT(60)
    <2>3. CASE ~(Feeds[v] = s /\ old[v] = <<>>)
      <3>1. ArrayOf(v)' = ArrayOf(v)
        BY <1>a, <1>t, <2>1, <2>3 DEF ArrayOf
      <3>2. QED BY <2>1, <3>1
    <2>4. QED BY <2>2, <2>3
  <1>2. CASE ~(count[s] < Len(array[s]))
    <2>1. array' = [array EXCEPT ![s] = Grown(s, x)] /\ old' = Detach(s)
      BY <1>2 DEF Subscribe
    <2>2. CASE Feeds[v] = s /\ old[v] = <<>>
      <3>1. old'[v] = array[s] /\ ArrayOf(v) = array[s]
        BY <2>1, <2>2 DEF Detach, ArrayOf
      <3>2. CASE array[s] = <<>>
        <4>1. len[v] = 0
          BY <1>a, <1>t, <1>b, <3>1, <3>2
        <4>2. QED BY <2>2, <4>1
      <3>3. CASE array[s] # <<>>
        <4>1. ArrayOf(v)' = ArrayOf(v)
          BY <3>1, <3>3 DEF ArrayOf
        <4>2. QED BY <2>2, <4>1
      <3>4. QED BY <3>2, <3>3
    <2>3. CASE ~(Feeds[v] = s /\ old[v] = <<>>)
      <3>1. old'[v] = old[v]
        BY <2>1, <2>3 DEF Detach
      <3>2. ArrayOf(v)' = ArrayOf(v)
        BY <1>a, <1>t, <2>1, <2>3, <3>1 DEF ArrayOf
      <3>3. QED BY <3>1, <3>2
    <2>4. QED BY <2>2, <2>3
  <1>3. QED BY <1>1, <1>2

\* The in-place filter moves one element one place down, in the shared array only.
LEMMA ArrayAfterShift ==
  ASSUME IInv, Shift, NEW v \in Writers, env[v] # 0
  PROVE  \A k \in 1..len[v] :
           ArrayOf(v)'[k] = IF Feeds[v] = mu[2] /\ old[v] = <<>> /\ k = gap
                            THEN ArrayOf(v)[gap + 1] ELSE ArrayOf(v)[k]
  <1>0. mu # Nil /\ old' = old
    BY DEF Shift
  <1>i. TypeOK /\ FilterOK /\ SubscriberListExact
    BY DEF IInv
  <1> PICK s \in Sources, a \in Seq(Subs \cup {Nil}) : s = mu[2] /\ a = array[s]
    BY <1>0, <1>i, AtWork
  <1>1. /\ gap \in Nat /\ gap >= 1 /\ gap < count[s] /\ count[s] \in Nat /\ count[s] <= Len(a)
        /\ Len(a) \in Nat /\ len[v] \in Nat /\ Feeds[v] \in Sources
        /\ array \in [Sources -> Seq(Subs \cup {Nil})]
    BY <1>0, <1>i, AtWork, CacheAssumption DEF Shift, TypeOK
  <1>2. len[v] <= Len(ArrayOf(v))
    BY DEF IInv, SetReadsSubscribers, ReadsOK
  <1>3. array' = [array EXCEPT ![s] = [a EXCEPT ![gap] = a[gap + 1]]]
    BY DEF Shift
  <1>4. CASE Feeds[v] = s /\ old[v] = <<>>
    <2>1. ArrayOf(v)' = [a EXCEPT ![gap] = a[gap + 1]] /\ ArrayOf(v) = a
      BY <1>0, <1>1, <1>3, <1>4 DEF ArrayOf
    <2>2. \A k \in 1..len[v] : k \in 1..Len(a)
      BY <1>1, <1>2, <2>1
    <2>3. \A k \in 1..Len(a) : [a EXCEPT ![gap] = a[gap + 1]][k] = IF k = gap THEN a[gap + 1] ELSE a[k]
      BY <1>1, ExceptSeq
    <2>4. QED BY <1>4, <2>1, <2>2, <2>3
  <1>5. CASE ~(Feeds[v] = s /\ old[v] = <<>>)
    <2>1. ArrayOf(v)' = ArrayOf(v)
      BY <1>0, <1>1, <1>3, <1>5 DEF ArrayOf
    <2>2. QED BY <1>5, <2>1
  <1>6. QED BY <1>4, <1>5

\* The other steps leave it alone, apart from the Set that copies a header.
LEMMA ArrayOtherwise ==
  ASSUME IInv, [Next]_cacheVars, NEW v \in Writers, env'[v] # 0,
         ~Shift, \A x \in Subs : ~Subscribe(x)
  PROVE  \/ /\ env[v] # 0 /\ len'[v] = len[v] /\ old'[v] = old[v]
            /\ ArrayOf(v)' = ArrayOf(v) /\ env'[v] = env[v] /\ crossed'[v] = crossed[v]
         \/ \E u \in Validators : SetStore(v, u) /\ Broadcasts(Feeds[v], u)
  <1>a. /\ env \in [Writers -> 0..MaxSets] /\ len \in [Writers -> Nat]
        /\ old \in [Writers -> Seq(Subs \cup {Nil})] /\ crossed \in [Writers -> SUBSET Subs]
    BY DEF IInv, TypeOK
  <1> DEFINE Same == /\ env[v] # 0 /\ len'[v] = len[v] /\ old'[v] = old[v]
                     /\ ArrayOf(v)' = ArrayOf(v) /\ env'[v] = env[v]
                     /\ crossed'[v] = crossed[v]
  <1>1. ASSUME NEW w \in Writers, NEW u \in Validators, SetStore(w, u)
        PROVE  Same \/ (w = v /\ Broadcasts(Feeds[w], u))
    <2>1. array' = array /\ env[w] = 0
      BY <1>1 DEF SetStore
    <2>2. CASE w = v
      BY <1>1, <2>1, <2>2 DEF SetStore, setVars
    <2>3. CASE w # v
      BY <1>a, <1>1, <2>3 DEF SetStore, setVars, ArrayOf
    <2>4. QED BY <2>2, <2>3
  <1>2. ASSUME NEW w \in Writers, SetLoad(w) \/ SetSend(w) PROVE Same
    BY <1>2 DEF SetLoad, SetSend, ArrayOf
  <1>3. ASSUME NEW w \in Writers, SetReturn(w) PROVE Same
    BY <1>a, <1>3 DEF SetReturn, ArrayOf
  <1>4. ASSUME UNCHANGED <<array, setVars>> PROVE Same
    BY <1>4 DEF setVars, ArrayOf
  <1>5. ASSUME NEW c \in Clients, Cancel(c) PROVE Same
    BY <1>4, <1>5 DEF Cancel
  <1>6. ASSUME NEW x \in Subs, Unlist(x) \/ CloseOnce(x) \/ Receive(x) PROVE Same
    BY <1>4, <1>6 DEF Unlist, CloseOnce, Receive
  <1>7. ASSUME UNCHANGED cacheVars \/ StoreHeader PROVE Same
    BY <1>4, <1>7 DEF cacheVars, StoreHeader
  <1> HIDE DEF Same
  <1>8. Same \/ \E u \in Validators : SetStore(v, u) /\ Broadcasts(Feeds[v], u)
    BY <1>1, <1>2, <1>3, <1>5, <1>6, <1>7 DEF Next, Set
  <1>9. QED BY <1>8 DEF Same

-----------------------------------------------------------------------------
\* Whoever a Set in flight can still reach, holds or owes has subscribed to its
\* source.
ReachesSubscribed ==
    \A w \in Writers :
        env[w] # 0 =>
            /\ at[w] # Nil => sub[at[w]] # "none"
            /\ \A k \in 1..len[w] : sub[ArrayOf(w)[k]] # "none"
            /\ \A x \in due[w] : x[2] = Feeds[w] /\ sub[x] # "none"

\* Once subscribed, always subscribed; what is listed is subscribed.
LEMMA SubscribedForGood ==
  ASSUME IInv, [Next]_cacheVars, NEW x \in Subs, sub[x] # "none"
  PROVE  sub'[x] # "none"
  <1>1. sub \in [Subs -> {"none", "open", "removed", "closed"}]
    BY DEF IInv, TypeOK
  <1>2. \/ sub' = sub
        \/ \E y \in Subs : \/ sub' = [sub EXCEPT ![y] = "open"]
                           \/ sub' = [sub EXCEPT ![y] = "removed"]
                           \/ sub' = [sub EXCEPT ![y] = "closed"]
    BY DEF Next, Set, SetStore, SetLoad, SetSend, SetReturn, Cancel, Subscribe, Unlist, Shift, StoreHeader, CloseOnce,
           Receive, cacheVars
  <1>3. QED BY <1>1, <1>2

\* A Set in flight never owes more subscribers than when it copied the list.
LEMMA DueShrinks ==
  ASSUME IInv, [Next]_cacheVars, NEW v \in Writers, env[v] # 0
  PROVE  due'[v] \subseteq due[v]
  <1>a. due \in [Writers -> SUBSET Subs]
    BY DEF IInv, TypeOK
  <1>1. ASSUME NEW w \in Writers, NEW u \in Validators, SetStore(w, u) PROVE due'[v] \subseteq due[v]
    <2>1. w # v
      BY <1>1 DEF SetStore
    <2>2. QED BY <1>a, <1>1, <2>1 DEF SetStore, setVars
  <1>2. ASSUME NEW w \in Writers, SetLoad(w) \/ SetSend(w) \/ SetReturn(w)
        PROVE  due'[v] \subseteq due[v]
    BY <1>a, <1>2 DEF SetLoad, SetSend, SetReturn
  <1>3. ASSUME NEW c \in Clients, Cancel(c) PROVE due' = due
    BY <1>3 DEF Cancel, setVars
  <1>4. ASSUME NEW x \in Subs, Subscribe(x) \/ Unlist(x) \/ CloseOnce(x) \/ Receive(x)
        PROVE  due' = due
    BY <1>4 DEF Subscribe, Unlist, CloseOnce, Receive, setVars
  <1>5. CASE UNCHANGED cacheVars
    BY <1>5 DEF cacheVars, setVars
  <1>6. ASSUME Shift \/ StoreHeader PROVE due' = due
    BY <1>6 DEF Shift, StoreHeader, setVars
  <1>7. QED BY <1>1, <1>2, <1>3, <1>4, <1>5, <1>6 DEF Next, Set

\* A Set in flight reaches subscribers only, at every step.
LEMMA ReachesStep ==
  ASSUME IInv, ReachesSubscribed, [Next]_cacheVars
  PROVE  ReachesSubscribed'
  <1> SUFFICES ASSUME NEW v \in Writers, env'[v] # 0
               PROVE  /\ at'[v] # Nil => sub'[at'[v]] # "none"
                      /\ \A k \in 1..len'[v] : sub'[ArrayOf(v)'[k]] # "none"
                      /\ \A x \in due'[v] : x[2] = Feeds[v] /\ sub'[x] # "none"
    BY DEF ReachesSubscribed
  <1>a. /\ env \in [Writers -> 0..MaxSets] /\ len \in [Writers -> Nat]
        /\ pos \in [Writers -> Nat] /\ at \in [Writers -> Subs \cup {Nil}]
        /\ due \in [Writers -> SUBSET Subs] /\ count \in [Sources -> Nat]
        /\ old \in [Writers -> Seq(Subs \cup {Nil})]
    BY DEF IInv, TypeOK
  <1>f. Feeds[v] \in Sources
    BY CacheAssumption
  <1>b. env[v] # 0 => /\ at[v] # Nil => at[v] \in Subs /\ sub[at[v]] # "none"
                      /\ \A k \in 1..len[v] : ArrayOf(v)[k] \in Subs /\ sub[ArrayOf(v)[k]] # "none"
                      /\ \A x \in due[v] : x \in Subs /\ x[2] = Feeds[v] /\ sub[x] # "none"
    BY <1>a DEF IInv, SetReadsSubscribers, ReadsOK, ReachesSubscribed
  <1>c. \A s \in Sources : \A k \in Slots(s) : array[s][k] \in Subs /\ array[s][k][2] = s
                                                  /\ sub[array[s][k]] = "open"
    BY DEF IInv, SubscriberListExact, Listed
  <1>1. ASSUME NEW u \in Validators, SetStore(v, u), Broadcasts(Feeds[v], u)
        PROVE  /\ at'[v] # Nil => sub'[at'[v]] # "none"
               /\ \A k \in 1..len'[v] : sub'[ArrayOf(v)'[k]] # "none"
               /\ \A x \in due'[v] : x[2] = Feeds[v] /\ sub'[x] # "none"
    <2>1. /\ at' = at /\ array' = array /\ sub' = sub /\ env[v] = 0
          /\ len' = [len EXCEPT ![v] = count[Feeds[v]]]
          /\ due' = [due EXCEPT ![v] = Listed(Feeds[v])]
          /\ old' = [old EXCEPT ![v] = <<>>]
      BY <1>1 DEF SetStore
    <2>2. at[v] = Nil
      BY <2>1 DEF IInv, SetReadsSubscribers, HeldOK
    <2>3. len'[v] = count[Feeds[v]] /\ due'[v] = Listed(Feeds[v]) /\ ArrayOf(v)' = array[Feeds[v]]
      BY <1>a, <2>1 DEF ArrayOf
    <2>4. \A x \in Listed(Feeds[v]) : x[2] = Feeds[v] /\ sub[x] # "none"
      BY <1>c, <1>f DEF Listed
    <2>5. Slots(Feeds[v]) = 1..count[Feeds[v]]
      BY <1>1, <1>f, SlotsFree DEF SetStore
    <2>6. \A k \in 1..count[Feeds[v]] : sub[array[Feeds[v]][k]] # "none"
      BY <1>c, <1>f, <2>5
    <2>7. QED BY <2>1, <2>2, <2>3, <2>4, <2>6
  <1>2. CASE env[v] = 0
    <2>1. \E u \in Validators : SetStore(v, u) /\ Broadcasts(Feeds[v], u)
      <3>1. ASSUME Shift \/ \E x \in Subs : Subscribe(x) PROVE FALSE
        BY <1>2, <3>1 DEF Subscribe, Shift
      <3>2. QED BY <1>2, <3>1, ArrayOtherwise
    <2>2. QED BY <1>1, <2>1
  <1>3. CASE env[v] # 0 /\ ~\E u \in Validators : SetStore(v, u) /\ Broadcasts(Feeds[v], u)
    <2>1. /\ len'[v] = len[v]
          /\ \A k \in 1..len[v] : sub'[ArrayOf(v)'[k]] # "none"
      <3>1. ASSUME NEW x \in Subs, Subscribe(x)
            PROVE  len'[v] = len[v] /\ \A k \in 1..len[v] : sub'[ArrayOf(v)'[k]] # "none"
        <4>1. len' = len
          BY <3>1 DEF Subscribe
        <4>2. sub'[x] # "none"
          <5>1. sub \in [Subs -> {"none", "open", "removed", "closed"}]
            BY DEF IInv, TypeOK
          <5>2. QED BY <3>1, <5>1 DEF Subscribe
        <4>3. ASSUME NEW k \in 1..len[v] PROVE sub'[ArrayOf(v)'[k]] # "none"
          <5>1. ArrayOf(v)'[k] = ArrayOf(v)[k] \/ ArrayOf(v)'[k] = x
            BY <1>3, <3>1, ArrayAfterSubscribe
          <5>2. sub'[ArrayOf(v)[k]] # "none"
            BY <1>3, <1>b, SubscribedForGood
          <5>3. QED BY <4>2, <5>1, <5>2
        <4>4. QED BY <4>1, <4>3
      <3>2. ASSUME Shift
            PROVE  len'[v] = len[v] /\ \A k \in 1..len[v] : sub'[ArrayOf(v)'[k]] # "none"
        <4>1. len' = len /\ mu # Nil
          BY <3>2 DEF Shift
        <4>2. \A k \in 1..len[v] :
                ArrayOf(v)'[k] = IF Feeds[v] = mu[2] /\ old[v] = <<>> /\ k = gap
                                 THEN ArrayOf(v)[gap + 1] ELSE ArrayOf(v)[k]
          BY <1>3, <3>2, ArrayAfterShift
        <4>3. ASSUME NEW k \in 1..len[v] PROVE sub'[ArrayOf(v)'[k]] # "none"
          <5>1. CASE Feeds[v] = mu[2] /\ old[v] = <<>> /\ k = gap
            <6>1. gap + 1 \in Slots(Feeds[v])
              <7>1. gap \in Nat /\ count[mu[2]] \in Nat /\ gap < count[mu[2]] /\ 1 <= gap
                BY <3>2, <4>1, AtWork DEF IInv, Shift
              <7>2. QED BY <4>1, <5>1, <7>1 DEF Slots
            <6>2. ArrayOf(v)'[k] = array[Feeds[v]][gap + 1]
              BY <4>2, <5>1 DEF ArrayOf
            <6>3. QED BY <1>c, <1>f, <6>1, <6>2, SubscribedForGood
          <5>2. CASE ~(Feeds[v] = mu[2] /\ old[v] = <<>> /\ k = gap)
            <6>1. ArrayOf(v)'[k] = ArrayOf(v)[k]
              BY <4>2, <5>2
            <6>2. QED BY <1>3, <1>b, <6>1, SubscribedForGood
          <5>3. QED BY <5>1, <5>2
        <4>4. QED BY <4>1, <4>3
      <3>3. CASE ~Shift /\ \A x \in Subs : ~Subscribe(x)
        <4>1. len'[v] = len[v] /\ ArrayOf(v)' = ArrayOf(v)
          BY <1>3, <3>3, ArrayOtherwise
        <4>2. QED BY <1>3, <1>b, <4>1, SubscribedForGood
      <3>4. QED BY <3>1, <3>2, <3>3
    <2>2. due'[v] \subseteq due[v]
      BY <1>3, DueShrinks
    <2>3. at'[v] # Nil => sub'[at'[v]] # "none"
      <3>1. at'[v] = at[v] \/ at'[v] = Nil \/ (SetLoad(v) /\ at'[v] = ArrayOf(v)[pos[v] + 1])
        <4>1. ASSUME NEW w \in Writers, SetLoad(w)
              PROVE  at'[v] = at[v] \/ (SetLoad(v) /\ at'[v] = ArrayOf(v)[pos[v] + 1])
          BY <1>a, <4>1 DEF SetLoad
        <4>2. ASSUME NEW w \in Writers, SetSend(w) PROVE at'[v] = at[v] \/ at'[v] = Nil
          BY <1>a, <4>2 DEF SetSend
        <4>3. ASSUME NEW w \in Writers, SetReturn(w) \/ \E u \in Validators : SetStore(w, u)
              PROVE  at' = at
          BY <4>3 DEF SetReturn, SetStore, setVars
        <4>4. ASSUME NEW c \in Clients, Cancel(c) PROVE at' = at
          BY <4>4 DEF Cancel, setVars
        <4>5. ASSUME NEW x \in Subs, Subscribe(x) \/ Unlist(x) \/ CloseOnce(x) \/ Receive(x)
              PROVE  at' = at
          BY <4>5 DEF Subscribe, Unlist, CloseOnce, Receive, setVars
        <4>6. CASE UNCHANGED cacheVars
          BY <4>6 DEF cacheVars, setVars
        <4>7. ASSUME Shift \/ StoreHeader PROVE at' = at
          BY <4>7 DEF Shift, StoreHeader, setVars
        <4>8. QED BY <4>1, <4>2, <4>3, <4>4, <4>5, <4>6, <4>7 DEF Next, Set
      <3>2. at[v] # Nil => sub'[at[v]] # "none"
        BY <1>3, <1>b, SubscribedForGood
      <3>3. SetLoad(v) => sub'[ArrayOf(v)[pos[v] + 1]] # "none"
        <4>1. SetLoad(v) => pos[v] + 1 \in 1..len[v]
          BY <1>a DEF SetLoad
        <4>2. QED BY <1>3, <1>b, <4>1, SubscribedForGood
      <3>4. QED BY <3>1, <3>2, <3>3
    <2>4. \A x \in due'[v] : x[2] = Feeds[v] /\ sub'[x] # "none"
      BY <1>3, <1>b, <2>2, SubscribedForGood
    <2>5. QED BY <2>1, <2>3, <2>4
  <1>4. QED BY <1>1, <1>2, <1>3

\* It holds in every state, whatever the writers.
LEMMA ReachesAlways == Spec => [](IInv /\ ReachesSubscribed)
  <1>1. Init => IInv /\ ReachesSubscribed
    BY IInvInit DEF Init, ReachesSubscribed
  <1>2. IInv /\ ReachesSubscribed /\ [Next]_cacheVars => IInv' /\ ReachesSubscribed'
    BY TypeStep, FilterStep, ListStep, ReadsStep, ReachesStep DEF IInv
  <1>3. QED BY <1>1, <1>2, PTL DEF Spec

-----------------------------------------------------------------------------
\* Every step of the cache is a step of Broadcast or changes nothing of it.
LEMMA BroadcastStep ==
  ASSUME OInv, ReachesSubscribed, [Next]_cacheVars
  PROVE  [Topic!Next]_Topic!bvars
  <1> DEFINE t == [x \in Subs |-> IF sub[x] = "removed" THEN "open" ELSE sub[x]]
  <1>a. /\ ch \in [Subs -> Seq(1..MaxSets)] /\ got \in [Subs -> 0..MaxSets]
        /\ env \in [Writers -> 0..MaxSets] /\ at \in [Writers -> Subs \cup {Nil}]
        /\ sub \in [Subs -> {"none", "open", "removed", "closed"}]
        /\ \A w \in Writers : Feeds[w] \in Sources
    BY CacheAssumption DEF OInv, IInv, TypeOK
  <1>s. Topic!Subs = Subs
    BY DEF Subs, Topic!Subs
  <1>b. ASSUME UNCHANGED <<log, t, ch, got>> PROVE UNCHANGED Topic!bvars
    BY <1>b DEF Topic!bvars
  <1>1. ASSUME NEW w \in Writers, NEW v \in Validators, SetStore(w, v)
        PROVE  Topic!Publish(Feeds[w], v)
    <2>1. UNCHANGED <<sub, ch, got>> /\ Len(log[Feeds[w]]) < MaxSets
          /\ log' = [log EXCEPT ![Feeds[w]] = Append(@, v)]
      BY <1>1 DEF SetStore
    <2>2. QED BY <2>1 DEF Topic!Publish
  <1>2. ASSUME NEW w \in Writers, SetSend(w)
        PROVE  \/ UNCHANGED Topic!bvars
               \/ \E x \in Subs : \E n \in 1..Len(log[x[2]]) : Topic!Deliver(x, n)
    <2>1. UNCHANGED <<log, sub, got>> /\ at[w] # Nil /\ Offer(at[w], env[w])
      BY <1>2 DEF SetSend
    <2>2. CASE ch' = ch
      BY <1>b, <2>1, <2>2
    <2>3. CASE ch' # ch
      <3>1. /\ at[w] \in Subs /\ env[w] # 0 /\ at[w][2] = Feeds[w] /\ env[w] <= Latest(Feeds[w])
            /\ SingleWriter(Feeds[w]) => env[w] = Latest(Feeds[w])
        BY <1>a, <2>1 DEF OInv, IInv, SetReadsSubscribers, HeldOK, CarriesLatest
      <3>2. /\ sub[at[w]] # "closed" /\ Len(ch[at[w]]) < ChanCap
            /\ ch' = [ch EXCEPT ![at[w]] = Append(@, env[w])]
        BY <2>1, <2>3 DEF Offer
      <3>3. SingleWriter(at[w][2]) => Newest(at[w]) <= env[w]
        BY <3>1 DEF OInv, DeliveredInOrder
      <3>4. ch[at[w]] # <<>> \/ ch[at[w]] = <<>>
        OBVIOUS
      <3>5. sub[at[w]] # "none"
        BY <2>1, <3>1 DEF ReachesSubscribed
      <3>6. t[at[w]] = "open"
        BY <1>a, <3>1, <3>2, <3>5
      <3>7. env[w] \in 1..Len(log[at[w][2]])
        <4>1. Latest(Feeds[w]) \in Nat
          BY <1>a, LogGrows DEF OInv
        <4>2. QED BY <1>a, <3>1, <4>1 DEF Latest
      <3>8. Topic!Deliver(at[w], env[w])
        BY <2>1, <3>2, <3>3, <3>6 DEF Topic!Deliver, Topic!Newest, Newest
      <3>9. QED BY <3>1, <3>7, <3>8
    <2>4. QED BY <2>2, <2>3
  <1>3. ASSUME NEW w \in Writers, SetLoad(w) \/ SetReturn(w) PROVE UNCHANGED Topic!bvars
    BY <1>3, <1>b DEF SetLoad, SetReturn
  <1>4. ASSUME NEW c \in Clients, Cancel(c) PROVE UNCHANGED Topic!bvars
    BY <1>4, <1>b DEF Cancel
  <1>5. ASSUME NEW x \in Subs, Subscribe(x) PROVE Topic!Subscribe(x)
    <2>1. sub[x] = "none" /\ sub' = [sub EXCEPT ![x] = "open"] /\ UNCHANGED <<log, ch, got>>
      BY <1>5 DEF Subscribe
    <2>2. t[x] = "none" /\ t' = [t EXCEPT ![x] = "open"]
      BY <1>a, <2>1
    <2>3. QED BY <2>1, <2>2 DEF Topic!Subscribe
  <1>6. ASSUME NEW x \in Subs, Unlist(x) PROVE UNCHANGED Topic!bvars
    <2>1. sub[x] = "open" /\ sub' = [sub EXCEPT ![x] = "removed"] /\ UNCHANGED <<log, ch, got>>
      BY <1>6 DEF Unlist
    <2>2. t' = t
      BY <1>a, <2>1
    <2>3. QED BY <1>b, <2>1, <2>2
  <1>7. ASSUME NEW x \in Subs, CloseOnce(x) PROVE Topic!Close(x)
    <2>1. sub[x] = "removed" /\ sub' = [sub EXCEPT ![x] = "closed"] /\ UNCHANGED <<log, ch, got>>
      BY <1>7 DEF CloseOnce
    <2>2. t[x] = "open" /\ t' = [t EXCEPT ![x] = "closed"]
      BY <1>a, <2>1
    <2>3. QED BY <2>1, <2>2 DEF Topic!Close
  <1>8. ASSUME NEW x \in Subs, Receive(x) PROVE Topic!Receive(x)
    BY <1>8 DEF Receive, Topic!Receive
  <1>9. ASSUME UNCHANGED cacheVars PROVE UNCHANGED Topic!bvars
    BY <1>9, <1>b DEF cacheVars
  <1>10. ASSUME Shift \/ StoreHeader PROVE UNCHANGED Topic!bvars
    BY <1>10, <1>b DEF Shift, StoreHeader
  <1>11. QED
    BY <1>s, <1>1, <1>2, <1>3, <1>4, <1>5, <1>6, <1>7, <1>8, <1>9, <1>10, <1>a DEF Next, Set, Topic!Next

\* The cache implements Broadcast: seen from outside, a subscription's channel
\* carries published envelopes of its source, in publication order if one
\* goroutine publishes, gets nothing once closed and is never delivered to before
\* it subscribed.
THEOREM CacheImplementsBroadcast == Spec => ImplementsBroadcast
  <1>1. Init => Topic!Init
    <2> SUFFICES ASSUME Init PROVE Topic!Init
      OBVIOUS
    <2>1. [x \in Subs |-> IF sub[x] = "removed" THEN "open" ELSE sub[x]] = [x \in Subs |-> "none"]
      BY DEF Init
    <2>2. QED BY <2>1 DEF Init, Topic!Init, Subs, Topic!Subs
  <1>2. OInv /\ ReachesSubscribed /\ [Next]_cacheVars => [Topic!Next]_Topic!bvars
    BY BroadcastStep
  <1>3. QED
    BY <1>1, <1>2, OInvAlways, ReachesAlways, PTL DEF Spec, ImplementsBroadcast, Topic!Spec

-----------------------------------------------------------------------------
\* The last envelope Set broadcast, as a function of a source's log.

BroadcastIn(l, n) == n = 1 \/ l[n] # l[n - 1] \/ l[n] = NoValidator
IsLastIn(l, n) == /\ n \in 0..Len(l)
                  /\ n > 0 => BroadcastIn(l, n)
                  /\ \A m \in (n + 1)..Len(l) : ~BroadcastIn(l, m)
LastIn(l) == CHOOSE n \in 0..Len(l) :
                 /\ n > 0 => BroadcastIn(l, n)
                 /\ \A m \in (n + 1)..Len(l) : ~BroadcastIn(l, m)

\* A nonempty set of natural numbers has a least element.
LEMMA LeastElement ==
  ASSUME NEW T, T \subseteq Nat, T # {}
  PROVE  \E x \in T : \A y \in T : x <= y
  <1>1. IsWellFoundedOn(OpToRel(<, Nat), Nat)
    BY NatLessThanWellFounded
  <1>2. PICK x \in T : \A y \in T : <<y, x>> \notin OpToRel(<, Nat)
    BY <1>1, WFMin
  <1>3. \A y \in T : ~(y < x)
    BY <1>2 DEF OpToRel
  <1>4. x \in Nat /\ \A y \in T : y \in Nat
    OBVIOUS
  <1>5. \A y \in T : x <= y
    BY <1>3, <1>4
  <1>6. QED BY <1>5

\* Every log has a last broadcast envelope (0: none).
LEMMA LastInIs ==
  ASSUME NEW l \in Seq(Validators)
  PROVE  IsLastIn(l, LastIn(l))
  <1> DEFINE T == {k \in 0..Len(l) : Len(l) - k = 0 \/ BroadcastIn(l, Len(l) - k)}
  <1>1. Len(l) \in Nat
    OBVIOUS
  <1>2. T \subseteq Nat /\ Len(l) \in T
    BY <1>1
  <1> HIDE DEF T
  <1>3. PICK k \in T : \A j \in T : k <= j
    BY <1>2, LeastElement
  <1>4. k \in 0..Len(l) /\ (Len(l) - k = 0 \/ BroadcastIn(l, Len(l) - k))
    BY DEF T
  <1>5. \A m \in (Len(l) - k + 1)..Len(l) : ~BroadcastIn(l, m)
    <2> SUFFICES ASSUME NEW m \in (Len(l) - k + 1)..Len(l), BroadcastIn(l, m) PROVE FALSE
      OBVIOUS
    <2>1. Len(l) - m \in 0..Len(l) /\ Len(l) - (Len(l) - m) = m
      BY <1>1, <1>4
    <2>2. Len(l) - m \in T
      BY <2>1 DEF T
    <2>3. QED BY <1>1, <1>3, <1>4, <2>2
  <1>6. Len(l) - k \in 0..Len(l)
    BY <1>1, <1>4
  <1>7. \E n \in 0..Len(l) : /\ n > 0 => BroadcastIn(l, n)
                             /\ \A m \in (n + 1)..Len(l) : ~BroadcastIn(l, m)
    <2> WITNESS Len(l) - k \in 0..Len(l)
    <2>1. Len(l) - k > 0 => BroadcastIn(l, Len(l) - k)
      BY <1>1, <1>4
    <2>2. QED BY <1>5, <2>1
  <1>8. QED BY <1>7 DEF LastIn, IsLastIn

\* There is only one.
LEMMA LastInUnique ==
  ASSUME NEW l \in Seq(Validators), NEW n, IsLastIn(l, n)
  PROVE  n = LastIn(l)
  <1>1. IsLastIn(l, LastIn(l))
    BY LastInIs
  <1>2. LastIn(l) \in Nat /\ n \in Nat /\ Len(l) \in Nat
    BY <1>1 DEF IsLastIn
  <1>3. ~(n < LastIn(l))
    <2>1. n < LastIn(l) => LastIn(l) \in (n + 1)..Len(l) /\ LastIn(l) > 0
      BY <1>1, <1>2 DEF IsLastIn
    <2>2. QED BY <1>1, <2>1 DEF IsLastIn
  <1>4. ~(LastIn(l) < n)
    <2>1. LastIn(l) < n => n \in (LastIn(l) + 1)..Len(l) /\ n > 0
      BY <1>2 DEF IsLastIn
    <2>2. QED BY <1>1, <2>1 DEF IsLastIn
  <1>5. QED BY <1>2, <1>3, <1>4

\* What storing one more envelope makes of it.
LEMMA LastInAppend ==
  ASSUME NEW l \in Seq(Validators), NEW v \in Validators
  PROVE  LastIn(Append(l, v)) = IF l = <<>> \/ l[Len(l)] # v \/ v = NoValidator
                                THEN Len(l) + 1 ELSE LastIn(l)
  <1> DEFINE a == Append(l, v)
             n == Len(l)
  <1>1. /\ n \in Nat /\ a \in Seq(Validators) /\ Len(a) = n + 1 /\ a[n + 1] = v
        /\ \A k \in 1..n : a[k] = l[k]
    BY AppendProperties
  <1>2. IsLastIn(l, LastIn(l))
    BY LastInIs
  <1>3. l = <<>> <=> n = 0
    BY EmptySeq
  <1>4. BroadcastIn(a, n + 1) <=> (l = <<>> \/ l[n] # v \/ v = NoValidator)
    <2>1. n = 0 => (BroadcastIn(a, n + 1) /\ l = <<>>)
      BY <1>3 DEF BroadcastIn
    <2>2. n # 0 => (n \in 1..n /\ n + 1 # 1 /\ (n + 1) - 1 = n /\ l # <<>>)
      BY <1>1, <1>3
    <2> HIDE DEF a, n
    <2>3. n # 0 => a[n] = l[n]
      BY <1>1, <2>2
    <2>4. QED BY <1>1, <2>1, <2>2, <2>3 DEF BroadcastIn
  <1> HIDE DEF a, n
  <1>5. CASE l = <<>> \/ l[n] # v \/ v = NoValidator
    <2>1. IsLastIn(a, n + 1)
      BY <1>1, <1>4, <1>5 DEF IsLastIn
    <2>2. QED BY <1>1, <1>5, <2>1, LastInUnique DEF a, n
  <1>6. CASE ~(l = <<>> \/ l[n] # v \/ v = NoValidator)
    <2>1. \A k \in 1..n : BroadcastIn(a, k) <=> BroadcastIn(l, k)
      <3> TAKE k \in 1..n
      <3>1. k # 1 => k - 1 \in 1..n
        BY <1>1
      <3>2. QED BY <1>1, <3>1 DEF BroadcastIn
    <2>2. LastIn(l) \in 0..n /\ (LastIn(l) > 0 => BroadcastIn(l, LastIn(l)))
          /\ \A m \in (LastIn(l) + 1)..n : ~BroadcastIn(l, m)
      BY <1>2 DEF IsLastIn, n
    <2>3. IsLastIn(a, LastIn(l))
      <3>1. LastIn(l) > 0 => BroadcastIn(a, LastIn(l))
        BY <1>1, <2>1, <2>2
      <3>2. \A m \in (LastIn(l) + 1)..(n + 1) : ~BroadcastIn(a, m)
        <4> TAKE m \in (LastIn(l) + 1)..(n + 1)
        <4>1. m = n + 1 \/ (m \in 1..n /\ m \in (LastIn(l) + 1)..n)
          BY <1>1, <2>2
        <4>2. QED BY <1>4, <1>6, <2>1, <2>2, <4>1
      <3>3. LastIn(l) \in 0..(n + 1)
        BY <1>1, <2>2
      <3>4. QED BY <1>1, <3>1, <3>2, <3>3 DEF IsLastIn
    <2>4. QED BY <1>1, <1>6, <2>3, LastInUnique DEF a, n
  <1>7. QED BY <1>5, <1>6 DEF a, n

\* LastBroadcast is that function of the source's log, now and after a step.
LEMMA LastBroadcastIs ==
  \A s \in Sources : /\ LastBroadcast(s) = LastIn(log[s])
                     /\ LastBroadcast(s)' = LastIn(log'[s])
  <1> TAKE s \in Sources
  <1>1. LastBroadcast(s) = LastIn(log[s])
    BY DEF LastBroadcast, LastIn, Latest, BroadcastAt, BroadcastIn
  <1>2. LastBroadcast(s)' = LastIn(log'[s])
    BY DEF LastBroadcast, LastIn, Latest, BroadcastAt, BroadcastIn
  <1>3. QED BY <1>1, <1>2

\* Whether Set broadcasts decides whether its envelope becomes the last
\* broadcast; no other step changes it.
LEMMA LastBroadcastStep ==
  ASSUME IInv, [Next]_cacheVars, NEW s \in Sources
  PROVE  /\ LastBroadcast(s)' = LastBroadcast(s)
            \/ \E w \in Writers, v \in Validators :
                 /\ SetStore(w, v) /\ Feeds[w] = s /\ Broadcasts(s, v)
                 /\ LastBroadcast(s)' = Latest(s) + 1
         /\ \A w \in Writers, v \in Validators :
              SetStore(w, v) /\ Feeds[w] = s /\ Broadcasts(s, v) => LastBroadcast(s)' = Latest(s) + 1
         /\ LastBroadcast(s) \in 0..Latest(s)
  <1>a. log \in [Sources -> Seq(Validators)] /\ \A w \in Writers : Feeds[w] \in Sources
    BY CacheAssumption DEF IInv, TypeOK
  <1>b. LastBroadcast(s) = LastIn(log[s]) /\ LastBroadcast(s)' = LastIn(log'[s])
    BY LastBroadcastIs
  <1>1. ASSUME NEW w \in Writers, NEW v \in Validators, SetStore(w, v)
        PROVE  LastIn(log'[s]) = IF Feeds[w] = s /\ Broadcasts(s, v) THEN Latest(s) + 1 ELSE LastIn(log[s])
    <2>1. log' = [log EXCEPT ![Feeds[w]] = Append(@, v)]
      BY <1>1 DEF SetStore
    <2>2. CASE Feeds[w] = s
      <3>1. log'[s] = Append(log[s], v) /\ log[s] \in Seq(Validators)
        BY <1>a, <2>1, <2>2
      <3>2. LastIn(Append(log[s], v)) = IF log[s] = <<>> \/ log[s][Len(log[s])] # v \/ v = NoValidator
                                        THEN Len(log[s]) + 1 ELSE LastIn(log[s])
        BY <3>1, LastInAppend
      <3>3. QED BY <2>2, <3>1, <3>2 DEF Broadcasts, Latest
    <2>3. CASE Feeds[w] # s
      BY <1>a, <2>1, <2>3
    <2>4. QED BY <2>2, <2>3
  <1>2. log' = log \/ \E w \in Writers, v \in Validators : SetStore(w, v)
    BY DEF Next, Set, SetLoad, SetSend, SetReturn, Cancel, Subscribe, Unlist, Shift, StoreHeader, CloseOnce, Receive, cacheVars
  <1>3. LastIn(log[s]) \in 0..Latest(s)
    BY <1>a, LastInIs DEF IsLastIn, Latest
  <1>4. \A w \in Writers, v \in Validators :
          SetStore(w, v) => LastBroadcast(s)' = IF Feeds[w] = s /\ Broadcasts(s, v)
                                                THEN Latest(s) + 1 ELSE LastBroadcast(s)
    BY <1>1, <1>b
  <1>5. log' = log => LastBroadcast(s)' = LastBroadcast(s)
    BY <1>b
  <1> HIDE DEF LastBroadcast
  <1>6. QED BY <1>2, <1>3, <1>4, <1>5, <1>b

\* A Set in flight carries the last broadcast envelope of its source, if it has
\* one writer.
CarriesBroadcast ==
    \A w \in Writers : env[w] # 0 /\ SingleWriter(Feeds[w]) => env[w] = LastBroadcast(Feeds[w])

\* It stays so at every step.
LEMMA CarriesBroadcastStep ==
  ASSUME IInv, CarriesBroadcast, [Next]_cacheVars
  PROVE  CarriesBroadcast'
  <1>a. env \in [Writers -> 0..MaxSets] /\ \A w \in Writers : Feeds[w] \in Sources
    BY CacheAssumption DEF IInv, TypeOK
  <1> SUFFICES ASSUME NEW u \in Writers, env'[u] # 0, SingleWriter(Feeds[u])
               PROVE  env'[u] = LastBroadcast(Feeds[u])'
    BY DEF CarriesBroadcast, SingleWriter
  <1>b. env[u] # 0 => env[u] = LastBroadcast(Feeds[u])
    BY DEF CarriesBroadcast
  <1>1. CASE \E v \in Validators : SetStore(u, v) /\ Broadcasts(Feeds[u], v)
    <2>1. PICK v \in Validators : SetStore(u, v) /\ Broadcasts(Feeds[u], v)
      BY <1>1
    <2>2. env'[u] = Latest(Feeds[u]) + 1
      BY <1>a, <2>1 DEF SetStore, Latest
    <2>3. QED BY <1>a, <2>1, <2>2, LastBroadcastStep
  <1>2. CASE ~\E v \in Validators : SetStore(u, v) /\ Broadcasts(Feeds[u], v)
    <2>1. env'[u] = env[u]
      <3>1. ASSUME NEW w \in Writers, NEW v \in Validators, SetStore(w, v) PROVE env'[u] = env[u]
        BY <1>2, <1>a, <3>1 DEF SetStore, setVars
      <3>2. ASSUME NEW w \in Writers, SetLoad(w) \/ SetSend(w) \/ SetReturn(w) PROVE env'[u] = env[u]
        BY <1>a, <3>2 DEF SetLoad, SetSend, SetReturn
      <3>3. ASSUME NEW c \in Clients, Cancel(c) PROVE env'[u] = env[u]
        BY <3>3 DEF Cancel, setVars
      <3>4. ASSUME NEW x \in Subs, Subscribe(x) \/ Unlist(x) \/ CloseOnce(x) \/ Receive(x)
            PROVE  env'[u] = env[u]
        BY <3>4 DEF Subscribe, Unlist, CloseOnce, Receive, setVars
      <3>5. CASE UNCHANGED cacheVars
        BY <3>5 DEF cacheVars, setVars
      <3>6. ASSUME Shift \/ StoreHeader PROVE env' = env
        BY <3>6 DEF Shift, StoreHeader, setVars
      <3>7. QED BY <3>1, <3>2, <3>3, <3>4, <3>5, <3>6 DEF Next, Set
    <2>2. LastBroadcast(Feeds[u])' = LastBroadcast(Feeds[u])
      <3>1. ASSUME NEW w \in Writers, NEW v \in Validators,
                   SetStore(w, v), Feeds[w] = Feeds[u], Broadcasts(Feeds[u], v)
            PROVE  FALSE
        <4>1. w = u
          BY <3>1 DEF SingleWriter
        <4>2. QED BY <1>2, <3>1, <4>1
      <3>2. QED BY <1>a, <3>1, LastBroadcastStep
    <2>3. QED BY <1>b, <2>1, <2>2
  <1>3. QED BY <1>1, <1>2

-----------------------------------------------------------------------------
\* A live subscriber of a source with one writer has been given the source's last
\* broadcast envelope, or subscribed after it, or missed exactly it, or a Set in flight owes it.
Paid(x) ==
    \/ Newest(x) = LastBroadcast(x[2])
    \/ LastBroadcast(x[2]) <= joined[x]
    \/ missed[x] = LastBroadcast(x[2])
    \/ \E w \in Writers : env[w] # 0 /\ Feeds[w] = x[2] /\ x \in due[w]
AllPaid == \A x \in Subs : SingleWriter(x[2]) /\ Live(x) => Paid(x)

\* It stays so at every step.
LEMMA PaidStep ==
  ASSUME OInv, ReachesSubscribed, CarriesBroadcast, AllPaid, [Next]_cacheVars
  PROVE  AllPaid'
  <1>a. /\ ch \in [Subs -> Seq(1..MaxSets)] /\ got \in [Subs -> 0..MaxSets]
        /\ env \in [Writers -> 0..MaxSets] /\ at \in [Writers -> Subs \cup {Nil}]
        /\ sub \in [Subs -> {"none", "open", "removed", "closed"}]
        /\ joined \in [Subs -> 0..MaxSets] /\ missed \in [Subs -> 0..MaxSets]
        /\ due \in [Writers -> SUBSET Subs] /\ MaxSets \in Nat
    BY CacheAssumption DEF OInv, IInv, TypeOK
  <1>i. IInv
    BY DEF OInv
  <1>f. \A w \in Writers : Feeds[w] \in Sources
    BY CacheAssumption
  <1> SUFFICES ASSUME NEW x \in Subs, SingleWriter(x[2]), Live(x)' PROVE Paid(x)'
    BY DEF AllPaid, SingleWriter
  <1> DEFINE s == x[2]
  <1>s. s \in Sources
    BY SubParts
  <1>n. Newest(x)' = Newest(x) \/ \E w \in Writers : SetSend(w)
    <2>1. Newest(x) = NewestOf(ch[x], got[x]) /\ Newest(x)' = NewestOf(ch'[x], got'[x])
      BY DEF Newest, NewestOf
    <2>2. ch[x] \in Seq(Nat) /\ got[x] \in Nat /\ InOrder(ch[x], got[x])
      <3>1. Seq(1..MaxSets) \subseteq Seq(Nat)
        BY <1>a, SeqMonotonic
      <3>2. QED BY <1>a, <3>1, OrderRestated DEF OInv
    <2>3. ASSUME NEW y \in Subs, Receive(y) PROVE Newest(x)' = Newest(x)
      <3>1. ch[y] # <<>> /\ got' = [got EXCEPT ![y] = Head(ch[y])] /\ ch' = [ch EXCEPT ![y] = Tail(@)]
        BY <2>3 DEF Receive
      <3>2. CASE y # x
        BY <1>a, <2>1, <3>1, <3>2
      <3>3. CASE y = x
        <4>1. ch'[x] = Tail(ch[x]) /\ got'[x] = Head(ch[x]) /\ ch[x] # <<>>
          BY <1>a, <3>1, <3>3
        <4>2. QED BY <2>1, <2>2, <4>1, OrderTail
      <3>4. QED BY <3>2, <3>3
    <2>4. \/ ch' = ch /\ got' = got
          \/ \E w \in Writers : SetSend(w)
          \/ \E y \in Subs : Receive(y)
      BY DEF Next, Set, SetStore, SetLoad, SetReturn, Cancel, Subscribe, Unlist, Shift, StoreHeader, CloseOnce, cacheVars
    <2>5. QED BY <2>1, <2>3, <2>4
  <1>1. CASE \E w \in Writers, v \in Validators : SetStore(w, v) /\ Feeds[w] = s /\ Broadcasts(s, v)
    <2>1. PICK w \in Writers, v \in Validators : SetStore(w, v) /\ Feeds[w] = s /\ Broadcasts(s, v)
      BY <1>1
    <2>2. env'[w] # 0 /\ due'[w] = Listed(s) /\ sub' = sub
      <3>1. env' = [env EXCEPT ![w] = Len(log[s]) + 1] /\ due' = [due EXCEPT ![w] = Listed(s)]
            /\ sub' = sub /\ Len(log[s]) \in Nat
        <4>1. Len(log[s]) \in Nat
          BY <1>s, <1>i, LogGrows DEF Latest
        <4>2. QED BY <2>1, <4>1 DEF SetStore
      <3>2. QED BY <1>a, <3>1
    <2>3. x \in Listed(s)
      BY <1>i, <1>s, <2>2 DEF Live, IInv, SubscriberListExact
    <2>4. QED BY <2>1, <2>2, <2>3 DEF Paid
  <1>2. CASE ~\E w \in Writers, v \in Validators : SetStore(w, v) /\ Feeds[w] = s /\ Broadcasts(s, v)
    <2>1. LastBroadcast(s)' = LastBroadcast(s) /\ LastBroadcast(s) \in 0..Latest(s) /\ Latest(s) \in Nat
      <3>1. LastBroadcast(s)' = LastBroadcast(s) /\ LastBroadcast(s) \in 0..Latest(s)
        BY <1>i, <1>s, <1>2, LastBroadcastStep
      <3>2. QED BY <1>i, <1>s, <3>1, LogGrows
    <2>2. ASSUME NEW y \in Subs, Subscribe(y) PROVE Paid(x)'
      <3>1. joined' = [joined EXCEPT ![y] = Latest(y[2])] /\ UNCHANGED <<ch, got, env, due, missed, done>>
            /\ sub' = [sub EXCEPT ![y] = "open"]
        BY <2>2 DEF Subscribe
      <3>2. CASE y = x
        <4>1. joined'[x] = Latest(s)
          BY <1>a, <3>1, <3>2
        <4>2. QED BY <2>1, <4>1 DEF Paid
      <3>3. CASE y # x
        <4>1. Live(x) /\ joined'[x] = joined[x]
          BY <1>a, <3>1, <3>3 DEF Live
        <4>2. Newest(x)' = Newest(x)
          BY <3>1 DEF Newest
        <4>3. QED BY <2>1, <3>1, <4>1, <4>2 DEF Paid, AllPaid
      <3>4. QED BY <3>2, <3>3
    <2> SUFFICES ASSUME \A y \in Subs : ~Subscribe(y) PROVE Paid(x)'
      BY <2>2
    <2>3. joined' = joined
      BY DEF Next, Set, SetStore, SetLoad, SetSend, SetReturn, Cancel, Unlist, Shift, StoreHeader, CloseOnce, Receive, cacheVars
    <2>4. Live(x)
      <3>1. \/ sub' = sub
            \/ \E y \in Subs : sub' = [sub EXCEPT ![y] = "removed"] \/ sub' = [sub EXCEPT ![y] = "closed"]
        BY DEF Next, Set, SetStore, SetLoad, SetSend, SetReturn, Cancel, Unlist, Shift, StoreHeader, CloseOnce, Receive, cacheVars
      <3>2. done \subseteq done'
        BY DEF Next, Set, SetStore, SetLoad, SetSend, SetReturn, Cancel, Unlist, Shift, StoreHeader, CloseOnce, Receive, cacheVars
      <3>3. QED BY <1>a, <3>1, <3>2 DEF Live
    <2>5. Paid(x)
      BY <2>4 DEF AllPaid
    <2>6. ASSUME NEW w \in Writers, SetSend(w) PROVE Paid(x)'
      <3>1. /\ env' = env /\ due' = [due EXCEPT ![w] = @ \ {at[w]}] /\ at[w] # Nil
            /\ Offer(at[w], env[w]) /\ sub' = sub /\ done' = done /\ got' = got
        BY <2>6 DEF SetSend
      <3>2. CASE at[w] = x
        <4>1. env[w] = LastBroadcast(s)
          BY <1>i, <3>1, <3>2 DEF CarriesBroadcast, IInv, SetReadsSubscribers, HeldOK
        <4>2. Newest(x)' = env[w] \/ missed'[x] = env[w]
          <5>1. CASE sub[x] # "closed" /\ ch' = [ch EXCEPT ![x] = Append(@, env[w])]
            <6>1. ch'[x] = Append(ch[x], env[w]) /\ env[w] \in 1..MaxSets
              <7>1. env[w] # 0
                BY <1>i, <3>1 DEF IInv, SetReadsSubscribers, HeldOK
              <7>2. QED BY <1>a, <5>1, <7>1
            <6>2. Append(ch[x], env[w]) # <<>>
                  /\ Append(ch[x], env[w])[Len(Append(ch[x], env[w]))] = env[w]
              <7>1. ch[x] \in Seq(1..MaxSets) /\ Len(ch[x]) \in Nat
                BY <1>a
              <7>2. /\ Append(ch[x], env[w]) # <<>>
                    /\ Len(Append(ch[x], env[w])) = Len(ch[x]) + 1
                    /\ Append(ch[x], env[w])[Len(ch[x]) + 1] = env[w]
                BY <6>1, <7>1, AppendProperties
              <7>3. QED BY <7>2
            <6>3. QED BY <6>1, <6>2 DEF Newest
          <5>2. CASE /\ ch' = ch /\ got' = got
                     /\ missed' = [missed EXCEPT ![x] = IF Newest(x) = env[w] THEN @ ELSE env[w]]
            <6>1. missed'[x] = env[w] \/ Newest(x) = env[w]
              BY <1>a, <5>2
            <6>2. Newest(x)' = Newest(x)
              BY <5>2 DEF Newest
            <6>3. QED BY <6>1, <6>2
          <5>3. QED BY <2>4, <3>1, <3>2, <5>1, <5>2 DEF Offer, Live
        <4>3. QED BY <2>1, <4>1, <4>2 DEF Paid
      <3>3. CASE at[w] # x
        <4>1. missed'[x] = missed[x]
          BY <1>a, <3>1, <3>3 DEF Offer
        <4>2. \A u \in Writers : x \in due[u] => x \in due'[u]
          BY <1>a, <3>1, <3>3
        <4>3. Newest(x)' = Newest(x)
          <5>1. ch'[x] = ch[x] /\ got'[x] = got[x]
            BY <1>a, <2>6, <3>1, <3>3 DEF Offer, SetSend
          <5>2. QED BY <5>1 DEF Newest
        <4>4. QED BY <2>1, <2>3, <2>5, <3>1, <4>1, <4>2, <4>3 DEF Paid
      <3>4. QED BY <3>2, <3>3
    <2>7. ASSUME NEW w \in Writers, SetReturn(w) PROVE Paid(x)'
      <3>1. /\ missed' = [y \in Subs |-> IF y \in due[w] THEN env[w] ELSE missed[y]]
            /\ env' = [env EXCEPT ![w] = 0] /\ due' = [due EXCEPT ![w] = {}]
            /\ UNCHANGED <<ch, got>> /\ env[w] # 0
        BY <2>7 DEF SetReturn, LoopDone
      <3>2. CASE x \in due[w]
        <4>1. Feeds[w] = s
          BY <3>1, <3>2 DEF ReachesSubscribed
        <4>2. missed'[x] = LastBroadcast(s)
          BY <3>1, <3>2, <4>1 DEF CarriesBroadcast
        <4>3. QED BY <2>1, <4>2 DEF Paid
      <3>3. CASE x \notin due[w]
        <4>1. missed'[x] = missed[x]
          BY <3>1, <3>3
        <4>2. \A u \in Writers : x \in due[u] => u # w /\ env'[u] = env[u] /\ due'[u] = due[u]
          BY <1>a, <3>1, <3>3
        <4>3. Newest(x)' = Newest(x)
          BY <3>1 DEF Newest
        <4>4. QED BY <2>1, <2>3, <2>5, <4>1, <4>2, <4>3 DEF Paid
      <3>4. QED BY <3>2, <3>3
    <2>8. ASSUME Newest(x)' = Newest(x), missed' = missed,
                 \A u \in Writers : env[u] # 0 => env'[u] = env[u] /\ due'[u] = due[u]
          PROVE  Paid(x)'
      BY <2>1, <2>3, <2>5, <2>8 DEF Paid
    <2>9. CASE \A w \in Writers : ~SetSend(w) /\ ~SetReturn(w)
      <3>1. Newest(x)' = Newest(x)
        BY <1>n, <2>9
      <3>2. missed' = missed
        BY <2>9 DEF Next, Set, SetStore, SetLoad, Cancel, Unlist, Shift, StoreHeader, CloseOnce, Receive, cacheVars
      <3>3. ASSUME NEW u \in Writers, env[u] # 0 PROVE env'[u] = env[u] /\ due'[u] = due[u]
        <4>1. ASSUME NEW w \in Writers, NEW v \in Validators, SetStore(w, v)
              PROVE  env'[u] = env[u] /\ due'[u] = due[u]
          BY <1>a, <3>3, <4>1 DEF SetStore, setVars
        <4>2. (env' = env /\ due' = due) \/ \E w \in Writers, v \in Validators : SetStore(w, v)
          BY <2>9 DEF Next, Set, SetLoad, Cancel, Unlist, Shift, StoreHeader, CloseOnce, Receive, cacheVars, setVars
        <4>3. QED BY <4>1, <4>2
      <3>4. QED BY <2>8, <3>1, <3>2, <3>3
    <2>10. QED BY <2>6, <2>7, <2>9
  <1>3. QED BY <1>1, <1>2

\* The inductive invariant behind it.
LInv == OInv /\ ReachesSubscribed /\ CarriesBroadcast /\ AllPaid

\* It holds in every state.
LEMMA LInvAlways == Spec => []LInv
  <1>1. Init => CarriesBroadcast /\ AllPaid
    BY DEF Init, CarriesBroadcast, AllPaid, Live
  <1>2. OInv /\ ReachesSubscribed /\ CarriesBroadcast /\ AllPaid /\ [Next]_cacheVars
          => CarriesBroadcast' /\ AllPaid'
    BY CarriesBroadcastStep, PaidStep DEF OInv
  <1>3. QED BY <1>1, <1>2, OInvAlways, ReachesAlways, PTL DEF Spec, LInv

\* No broadcast is lost silently: once no Set is in flight, a live subscriber has
\* the last broadcast envelope of a source with one writer, or subscribed after it, or its channel was full
\* or it was skipped for exactly that envelope (cache.go Set, subscriber.send).
THEOREM NoSilentLoss == Spec => []NothingLostSilently
  <1>1. LInv => NothingLostSilently
    BY DEF LInv, AllPaid, Paid, NothingLostSilently, Quiet
  <1>2. QED BY <1>1, LInvAlways, PTL

-----------------------------------------------------------------------------
\* The channel of a subscription to a source with one writer holds nothing before
\* it subscribed and nothing older than what was current when it did.
JoinedFirst ==
    \A x \in Subs :
        SingleWriter(x[2]) =>
            /\ sub[x] = "none" => ch[x] = <<>> /\ got[x] = 0
            /\ joined[x] <= Latest(x[2])
            /\ \A k \in 1..Len(ch[x]) : joined[x] <= ch[x][k]
            /\ got[x] # 0 => joined[x] <= got[x]

\* It stays so at every step.
LEMMA JoinedStep ==
  ASSUME OInv, ReachesSubscribed, JoinedFirst, [Next]_cacheVars
  PROVE  JoinedFirst'
  <1>a. /\ ch \in [Subs -> Seq(1..MaxSets)] /\ got \in [Subs -> 0..MaxSets]
        /\ env \in [Writers -> 0..MaxSets] /\ at \in [Writers -> Subs \cup {Nil}]
        /\ sub \in [Subs -> {"none", "open", "removed", "closed"}]
        /\ joined \in [Subs -> 0..MaxSets] /\ MaxSets \in Nat
    BY CacheAssumption DEF OInv, IInv, TypeOK
  <1>i. IInv /\ CarriesLatest /\ IInv'
    BY TypeStep, FilterStep, ListStep, ReadsStep DEF OInv, IInv
  <1> SUFFICES ASSUME NEW x \in Subs, SingleWriter(x[2])
               PROVE  /\ sub'[x] = "none" => ch'[x] = <<>> /\ got'[x] = 0
                      /\ joined'[x] <= Latest(x[2])'
                      /\ \A k \in 1..Len(ch'[x]) : joined'[x] <= ch'[x][k]
                      /\ got'[x] # 0 => joined'[x] <= got'[x]
    BY DEF JoinedFirst, SingleWriter
  <1>b. /\ sub[x] = "none" => ch[x] = <<>> /\ got[x] = 0
        /\ joined[x] <= Latest(x[2])
        /\ \A k \in 1..Len(ch[x]) : joined[x] <= ch[x][k]
        /\ got[x] # 0 => joined[x] <= got[x]
        /\ joined[x] \in Nat /\ ch[x] \in Seq(1..MaxSets)
    BY <1>a DEF JoinedFirst
  <1>c. Latest(x[2]) \in Nat /\ Latest(x[2])' \in Nat /\ Latest(x[2]) <= Latest(x[2])'
    BY <1>i, SubParts, LogGrows
  <1>d. sub[x] # "none" => sub'[x] # "none"
    BY <1>i, SubscribedForGood
  <1>1. ASSUME NEW y \in Subs, Subscribe(y)
        PROVE  /\ sub'[x] = "none" => ch'[x] = <<>> /\ got'[x] = 0
               /\ joined'[x] <= Latest(x[2])'
               /\ \A k \in 1..Len(ch'[x]) : joined'[x] <= ch'[x][k]
               /\ got'[x] # 0 => joined'[x] <= got'[x]
    <2>1. /\ joined' = [joined EXCEPT ![y] = Latest(y[2])] /\ UNCHANGED <<log, ch, got>>
          /\ sub[y] = "none"
      BY <1>1 DEF Subscribe
    <2>2. CASE y = x
      <3>1. ch'[x] = <<>> /\ got'[x] = 0 /\ joined'[x] = Latest(x[2]) /\ Latest(x[2])' = Latest(x[2])
        BY <1>a, <1>b, <2>1, <2>2 DEF Latest
      <3>2. \A k \in 1..Len(ch'[x]) : FALSE
        BY <3>1, EmptySeq
      <3>3. QED BY <1>c, <3>1, <3>2
    <2>3. CASE y # x
      BY <1>a, <1>b, <1>c, <1>d, <2>1, <2>3
    <2>4. QED BY <2>2, <2>3
  <1> SUFFICES ASSUME \A y \in Subs : ~Subscribe(y)
               PROVE  /\ sub'[x] = "none" => ch'[x] = <<>> /\ got'[x] = 0
                      /\ joined'[x] <= Latest(x[2])'
                      /\ \A k \in 1..Len(ch'[x]) : joined'[x] <= ch'[x][k]
                      /\ got'[x] # 0 => joined'[x] <= got'[x]
    BY <1>1
  <1>2. joined' = joined
    BY DEF Next, Set, SetStore, SetLoad, SetSend, SetReturn, Cancel, Unlist, Shift, StoreHeader, CloseOnce, Receive, cacheVars
  <1>3. ASSUME ch'[x] = ch[x], got'[x] = got[x]
        PROVE  /\ sub'[x] = "none" => ch'[x] = <<>> /\ got'[x] = 0
               /\ joined'[x] <= Latest(x[2])'
               /\ \A k \in 1..Len(ch'[x]) : joined'[x] <= ch'[x][k]
               /\ got'[x] # 0 => joined'[x] <= got'[x]
    BY <1>b, <1>c, <1>d, <1>2, <1>3
  <1>4. ASSUME NEW w \in Writers, SetSend(w)
        PROVE  \/ ch'[x] = ch[x] /\ got'[x] = got[x]
               \/ /\ at[w] = x /\ ch'[x] = Append(ch[x], env[w]) /\ got'[x] = got[x]
                  /\ sub[x] # "none" /\ env[w] = Latest(x[2])
    <2>1. got' = got /\ at[w] # Nil /\ Offer(at[w], env[w])
      BY <1>4 DEF SetSend
    <2>2. ch' = ch \/ ch' = [ch EXCEPT ![at[w]] = Append(@, env[w])]
      BY <2>1 DEF Offer
    <2>3. /\ env[w] # 0 /\ at[w][2] = Feeds[w] /\ sub[at[w]] # "none"
          /\ SingleWriter(Feeds[w]) => env[w] = Latest(Feeds[w])
      BY <1>i, <2>1 DEF IInv, SetReadsSubscribers, HeldOK, ReachesSubscribed, CarriesLatest
    <2>4. QED BY <1>a, <2>1, <2>2, <2>3
  <1>5. ASSUME NEW w \in Writers, SetSend(w)
        PROVE  /\ sub'[x] = "none" => ch'[x] = <<>> /\ got'[x] = 0
               /\ joined'[x] <= Latest(x[2])'
               /\ \A k \in 1..Len(ch'[x]) : joined'[x] <= ch'[x][k]
               /\ got'[x] # 0 => joined'[x] <= got'[x]
    <2>1. CASE ch'[x] = ch[x] /\ got'[x] = got[x]
      BY <1>3, <2>1
    <2>2. CASE /\ at[w] = x /\ ch'[x] = Append(ch[x], env[w]) /\ got'[x] = got[x]
               /\ sub[x] # "none" /\ env[w] = Latest(x[2])
      <3>1. env[w] \in 1..MaxSets
        BY <1>a, <1>i, <1>5, <2>2 DEF IInv, SetReadsSubscribers, HeldOK, SetSend
      <3>2. /\ Len(ch[x]) \in Nat /\ Len(ch'[x]) = Len(ch[x]) + 1
            /\ \A k \in 1..Len(ch[x]) : ch'[x][k] = ch[x][k]
            /\ ch'[x][Len(ch[x]) + 1] = env[w]
        BY <1>b, <2>2, <3>1, AppendProperties
      <3>3. \A k \in 1..(Len(ch[x]) + 1) : k \in 1..Len(ch[x]) \/ k = Len(ch[x]) + 1
        BY <3>2
      <3>4. \A k \in 1..Len(ch'[x]) : joined'[x] <= ch'[x][k]
        BY <1>b, <1>2, <2>2, <3>2, <3>3
      <3>5. QED BY <1>b, <1>c, <1>d, <1>2, <2>2, <3>4
    <2>3. QED BY <1>4, <1>5, <2>1, <2>2
  <1>6. ASSUME NEW y \in Subs, Receive(y)
        PROVE  /\ sub'[x] = "none" => ch'[x] = <<>> /\ got'[x] = 0
               /\ joined'[x] <= Latest(x[2])'
               /\ \A k \in 1..Len(ch'[x]) : joined'[x] <= ch'[x][k]
               /\ got'[x] # 0 => joined'[x] <= got'[x]
    <2>1. ch[y] # <<>> /\ got' = [got EXCEPT ![y] = Head(ch[y])] /\ ch' = [ch EXCEPT ![y] = Tail(@)]
      BY <1>6 DEF Receive
    <2>2. CASE y # x
      BY <1>a, <1>3, <2>1, <2>2
    <2>3. CASE y = x
      <3>1. ch'[x] = Tail(ch[x]) /\ got'[x] = Head(ch[x]) /\ ch[x] # <<>>
        BY <1>a, <2>1, <2>3
      <3>2. /\ Len(ch[x]) \in Nat /\ Len(ch[x]) >= 1
            /\ Len(Tail(ch[x])) = Len(ch[x]) - 1 /\ Head(ch[x]) = ch[x][1]
            /\ \A k \in 1..(Len(ch[x]) - 1) : Tail(ch[x])[k] = ch[x][k + 1]
        BY <1>b, <3>1, EmptySeq, HeadTailProperties
      <3>3. 1 \in 1..Len(ch[x]) /\ \A k \in 1..(Len(ch[x]) - 1) : k + 1 \in 1..Len(ch[x])
        BY <3>2
      <3>4. joined[x] <= Head(ch[x]) /\ \A k \in 1..Len(Tail(ch[x])) : joined[x] <= Tail(ch[x])[k]
        BY <1>b, <3>2, <3>3
      <3>5. sub[x] # "none"
        BY <1>b, <3>1
      <3>6. QED BY <1>b, <1>c, <1>d, <1>2, <3>1, <3>4, <3>5
    <2>4. QED BY <2>2, <2>3
  <1>7. \/ ch' = ch /\ got' = got
        \/ \E w \in Writers : SetSend(w)
        \/ \E y \in Subs : Receive(y)
    BY DEF Next, Set, SetStore, SetLoad, SetReturn, Cancel, Subscribe, Unlist, Shift, StoreHeader, CloseOnce, cacheVars
  <1>8. QED BY <1>3, <1>5, <1>6, <1>7

\* It holds in every state.
LEMMA JoinedAlways == Spec => []JoinedFirst
  <1>1. Init => JoinedFirst
    <2> SUFFICES ASSUME Init PROVE JoinedFirst
      OBVIOUS
    <2>1. \A x \in Subs : ch[x] = <<>> /\ got[x] = 0 /\ joined[x] = 0 /\ Latest(x[2]) = 0
      BY SubParts, EmptySeq DEF Init, Latest
    <2>2. \A x \in Subs : \A k \in 1..Len(ch[x]) : FALSE
      BY <2>1, EmptySeq
    <2>3. QED BY <2>1, <2>2 DEF JoinedFirst
  <1>2. OInv /\ ReachesSubscribed /\ JoinedFirst /\ [Next]_cacheVars => JoinedFirst'
    BY JoinedStep
  <1>3. QED BY <1>1, <1>2, OInvAlways, ReachesAlways, PTL DEF Spec

-----------------------------------------------------------------------------
\* Which subscribers a Set skips.  x is ahead of the loop of w in a slot of the
\* list, or in the array that the loop kept when a new one was allocated.
Ahead(w, x) ==
    \E k \in (pos[w] + 1)..len[w] :
        ArrayOf(w)[k] = x /\ (old[w] = <<>> => k \in Slots(Feeds[w]))
SkipsAccounted ==
    \A w \in Writers :
        env[w] # 0 =>
            \A x \in due[w] : Live(x) => x \in crossed[w] \/ x = at[w] \/ Ahead(w, x)

\* Once a step of a filter crossed a subscriber, it stays crossed for that Set.
LEMMA CrossedGrows ==
  ASSUME IInv, [Next]_cacheVars, NEW v \in Writers, env[v] # 0, env'[v] # 0
  PROVE  crossed[v] \subseteq crossed'[v]
  <1>1. ~\E u \in Validators : SetStore(v, u)
    BY DEF SetStore
  <1>2. CASE Shift \/ \E x \in Subs : Subscribe(x)
    BY <1>2 DEF Shift, Subscribe
  <1>3. CASE ~(Shift \/ \E x \in Subs : Subscribe(x))
    BY <1>1, <1>3, ArrayOtherwise
  <1>4. QED BY <1>2, <1>3

\* The other steps leave the slots of every list alone.
LEMMA SlotsOtherwise ==
  ASSUME IInv, [Next]_cacheVars, ~Shift, \A x \in Subs : ~Subscribe(x) /\ ~Unlist(x)
  PROVE  \A t \in Sources : Slots(t)' = Slots(t)
  <1>1. CASE StoreHeader
    BY <1>1, SlotsStored DEF IInv
  <1>2. CASE UNCHANGED <<mu, gap, count>>
    BY <1>2 DEF Slots
  <1>3. StoreHeader \/ UNCHANGED <<mu, gap, count>>
    BY DEF Next, Set, SetStore, SetLoad, SetSend, SetReturn, Cancel, CloseOnce, Receive, cacheVars
  <1>4. QED BY <1>1, <1>2, <1>3

\* A step of the filter takes a subscriber ahead of the loop out of its way only
\* by crossing it.
LEMMA AheadAfterShift ==
  ASSUME IInv, Shift, NEW v \in Writers, env[v] # 0, NEW x \in Subs, Ahead(v, x)
  PROVE  x \in crossed'[v] \/ Ahead(v, x)'
  <1>0. /\ mu # Nil /\ mu' = mu /\ gap' = gap + 1
        /\ UNCHANGED <<count, len, pos, old>>
    BY DEF Shift
  <1>1. /\ gap \in Nat /\ 1 <= gap /\ gap < count[mu[2]] /\ count[mu[2]] \in Nat
        /\ pos[v] \in Nat /\ len[v] \in Nat
    BY <1>0, AtWork DEF IInv, TypeOK, Shift
  <1>2. PICK k \in (pos[v] + 1)..len[v] :
           ArrayOf(v)[k] = x /\ (old[v] = <<>> => k \in Slots(Feeds[v]))
    BY DEF Ahead
  <1>3. \A j \in 1..len[v] :
           ArrayOf(v)'[j] = IF Feeds[v] = mu[2] /\ old[v] = <<>> /\ j = gap
                            THEN ArrayOf(v)[gap + 1] ELSE ArrayOf(v)[j]
    BY ArrayAfterShift
  <1>4. k \in 1..len[v] /\ k \in Nat
    BY <1>1, <1>2
  <1>5. CASE Feeds[v] = mu[2] /\ old[v] = <<>>
    <2>1. Slots(Feeds[v]) = 1..count[mu[2]] \ {gap} /\ Slots(Feeds[v])' = 1..count[mu[2]] \ {gap + 1}
      BY <1>0, <1>1, <1>5 DEF Slots
    <2>2. k # gap /\ k \in 1..count[mu[2]]
      BY <1>2, <1>5, <2>1
    <2>3. CASE k = gap + 1 /\ pos[v] = gap
      <3>1. crossed'[v] = crossed[v] \cup {array[mu[2]][gap + 1]}
        BY <1>5, <2>3 DEF Shift
      <3>2. x = array[mu[2]][gap + 1]
        BY <1>2, <1>5, <2>3 DEF ArrayOf
      <3>3. QED BY <3>1, <3>2
    <2>4. CASE k = gap + 1 /\ pos[v] # gap
      <3>1. gap \in (pos[v] + 1)..len[v] /\ gap \in 1..len[v]
        BY <1>1, <1>2, <2>4
      <3>2. ArrayOf(v)'[gap] = x
        BY <1>2, <1>3, <1>5, <2>4, <3>1
      <3>3. gap \in Slots(Feeds[v])'
        BY <1>1, <2>1
      <3>4. QED BY <1>0, <3>1, <3>2, <3>3 DEF Ahead
    <2>5. CASE k # gap + 1
      <3>1. ArrayOf(v)'[k] = x /\ k \in Slots(Feeds[v])'
        BY <1>2, <1>3, <1>4, <2>1, <2>2, <2>5
      <3>2. QED BY <1>0, <1>2, <3>1 DEF Ahead
    <2>6. QED BY <2>3, <2>4, <2>5
  <1>6. CASE ~(Feeds[v] = mu[2] /\ old[v] = <<>>)
    <2>1. ArrayOf(v)'[k] = x
      BY <1>2, <1>3, <1>4, <1>6
    <2>2. old'[v] = <<>> => k \in Slots(Feeds[v])'
      <3>1. old[v] = <<>> => Slots(Feeds[v])' = Slots(Feeds[v])
        BY <1>0, <1>6 DEF Slots
      <3>2. QED BY <1>0, <1>2, <3>1
    <2>3. QED BY <1>0, <1>2, <2>1, <2>2 DEF Ahead
  <1>7. QED BY <1>5, <1>6

\* The account of skipped subscribers holds at every step.
LEMMA AccountStep ==
  ASSUME IInv, ReachesSubscribed, SkipsAccounted, [Next]_cacheVars
  PROVE  SkipsAccounted'
  <1> SUFFICES ASSUME NEW v \in Writers, env'[v] # 0, NEW x \in due'[v], Live(x)'
               PROVE  x \in crossed'[v] \/ x = at'[v] \/ Ahead(v, x)'
    BY DEF SkipsAccounted
  <1>a. /\ env \in [Writers -> 0..MaxSets] /\ len \in [Writers -> Nat]
        /\ pos \in [Writers -> Nat] /\ at \in [Writers -> Subs \cup {Nil}]
        /\ due \in [Writers -> SUBSET Subs] /\ count \in [Sources -> Nat]
        /\ old \in [Writers -> Seq(Subs \cup {Nil})]
        /\ sub \in [Subs -> {"none", "open", "removed", "closed"}]
    BY DEF IInv, TypeOK
  <1>f. Feeds[v] \in Sources
    BY CacheAssumption
  <1>1. CASE env[v] = 0
    <2>1. PICK u \in Validators : SetStore(v, u) /\ Broadcasts(Feeds[v], u)
      <3>1. ASSUME Shift \/ \E y \in Subs : Subscribe(y) PROVE FALSE
        BY <1>1, <3>1 DEF Subscribe, Shift
      <3>2. QED BY <1>1, <3>1, ArrayOtherwise
    <2>2. /\ len'[v] = count[Feeds[v]] /\ pos'[v] = 0 /\ old'[v] = <<>> /\ due'[v] = Listed(Feeds[v])
          /\ count' = count /\ array' = array /\ mu = Nil /\ mu' = mu
      BY <1>a, <2>1 DEF SetStore
    <2>3. Slots(Feeds[v]) = 1..count[Feeds[v]] /\ Slots(Feeds[v])' = 1..count[Feeds[v]]
      BY <2>2 DEF Slots
    <2>4. PICK k \in 1..count[Feeds[v]] : x = array[Feeds[v]][k]
      BY <2>2, <2>3 DEF Listed
    <2>5. k \in (pos'[v] + 1)..len'[v]
      BY <1>a, <1>f, <2>2, <2>4
    <2>6. ArrayOf(v)' = array[Feeds[v]]
      BY <2>2 DEF ArrayOf
    <2>7. QED BY <2>3, <2>4, <2>5, <2>6 DEF Ahead
  <1>2. CASE env[v] # 0
    <2>0. x \in due[v] /\ x \in Subs /\ x[2] = Feeds[v] /\ sub[x] # "none"
      BY <1>2, <1>a, DueShrinks DEF ReachesSubscribed
    <2>1. Live(x)
      <3>1. \/ sub' = sub
            \/ \E y \in Subs : \/ Subscribe(y)
                               \/ sub' = [sub EXCEPT ![y] = "removed"]
                               \/ sub' = [sub EXCEPT ![y] = "closed"]
        BY DEF Next, Set, SetStore, SetLoad, SetSend, SetReturn, Cancel, Unlist, Shift, StoreHeader,
               CloseOnce, Receive, cacheVars
      <3>2. done \subseteq done'
        BY DEF Next, Set, SetStore, SetLoad, SetSend, SetReturn, Cancel, Subscribe, Unlist, Shift,
               StoreHeader, CloseOnce, Receive, cacheVars
      <3>3. ASSUME NEW y \in Subs, Subscribe(y) PROVE sub'[x] = sub[x]
        BY <1>a, <2>0, <3>3 DEF Subscribe
      <3>4. QED BY <1>a, <2>0, <3>1, <3>2, <3>3 DEF Live
    <2>2. x \in crossed[v] \/ x = at[v] \/ Ahead(v, x)
      BY <1>2, <2>0, <2>1 DEF SkipsAccounted
    <2>3. crossed[v] \subseteq crossed'[v]
      BY <1>2, CrossedGrows
    <2>4. x # Nil
      BY <2>0, NilNotSub
    <2>5. ASSUME at' = at, Ahead(v, x) => x \in crossed'[v] \/ Ahead(v, x)'
          PROVE  x \in crossed'[v] \/ x = at'[v] \/ Ahead(v, x)'
      BY <2>2, <2>3, <2>5
    <2>6. CASE Shift
      BY <1>2, <2>0, <2>5, <2>6, AheadAfterShift DEF Shift
    <2>7. ASSUME NEW y \in Subs, Subscribe(y)
          PROVE  at' = at /\ (Ahead(v, x) => Ahead(v, x)')
      <3>1. /\ UNCHANGED <<len, pos, at, mu>> /\ mu = Nil
            /\ count' = [count EXCEPT ![y[2]] = @ + 1]
        BY <2>7 DEF Subscribe
      <3>2. /\ old'[v] = <<>> => old[v] = <<>>
            /\ \A k \in 1..len[v] : \/ ArrayOf(v)'[k] = ArrayOf(v)[k]
                                    \/ Feeds[v] = y[2] /\ old[v] = <<>> /\ k > count[y[2]]
        BY <1>2, <2>7, ArrayAfterSubscribe
      <3>3. Slots(Feeds[v]) = 1..count[Feeds[v]] /\ Slots(Feeds[v])' = 1..count'[Feeds[v]]
        BY <3>1 DEF Slots
      <3>4. count[Feeds[v]] \in Nat /\ count'[Feeds[v]] \in Nat /\ count[Feeds[v]] <= count'[Feeds[v]]
        BY <1>a, <1>f, <3>1, SubParts
      <3>5. ASSUME NEW k \in (pos[v] + 1)..len[v], ArrayOf(v)[k] = x,
                   old[v] = <<>> => k \in Slots(Feeds[v])
            PROVE  Ahead(v, x)'
        <4>1. k \in 1..len[v] /\ k \in Nat
          BY <1>a
        <4>2. ~(Feeds[v] = y[2] /\ old[v] = <<>> /\ k > count[y[2]])
          BY <3>3, <3>4, <3>5, <4>1
        <4>3. ArrayOf(v)'[k] = x
          BY <3>2, <3>5, <4>1, <4>2
        <4>4. old'[v] = <<>> => k \in Slots(Feeds[v])'
          BY <3>2, <3>3, <3>4, <3>5, <4>1
        <4>5. QED BY <3>1, <4>3, <4>4 DEF Ahead
      <3>6. QED BY <3>1, <3>5 DEF Ahead
    <2>8. ASSUME NEW y \in Subs, Unlist(y)
          PROVE  at' = at /\ (Ahead(v, x) => Ahead(v, x)')
      <3>1. /\ UNCHANGED <<array, count, len, pos, at, old>> /\ y[1] \in done
            /\ mu = Nil /\ mu' = y
        BY <2>8 DEF Unlist, setVars
      <3>2. PICK p \in 1..count[y[2]] : array[y[2]][p] = y /\ gap' = p
        BY <2>8 DEF Unlist
      <3>3. x # y
        BY <2>1, <3>1 DEF Live
      <3>4. \A t \in Sources : /\ Slots(t) = 1..count[t]
                               /\ Slots(t)' = IF y[2] = t THEN 1..count[t] \ {p} ELSE 1..count[t]
        BY <3>1, <3>2, NilNotSub DEF Slots
      <3>5. ASSUME NEW k \in (pos[v] + 1)..len[v], ArrayOf(v)[k] = x,
                   old[v] = <<>> => k \in Slots(Feeds[v])
            PROVE  Ahead(v, x)'
        <4>1. ArrayOf(v)' = ArrayOf(v)
          BY <3>1 DEF ArrayOf
        <4>2. old[v] = <<>> /\ y[2] = Feeds[v] => k # p
          BY <3>2, <3>3, <3>5 DEF ArrayOf
        <4>3. old'[v] = <<>> => k \in Slots(Feeds[v])'
          BY <1>f, <3>1, <3>4, <3>5, <4>2
        <4>4. QED BY <3>1, <3>5, <4>1, <4>3 DEF Ahead
      <3>6. QED BY <3>1, <3>5 DEF Ahead
    <2>9. CASE ~Shift /\ \A y \in Subs : ~Subscribe(y) /\ ~Unlist(y)
      <3>1. len'[v] = len[v] /\ old'[v] = old[v] /\ ArrayOf(v)' = ArrayOf(v)
        <4>1. ~\E u \in Validators : SetStore(v, u)
          BY <1>2 DEF SetStore
        <4>2. QED BY <2>9, <4>1, ArrayOtherwise
      <3>2. Slots(Feeds[v])' = Slots(Feeds[v])
        BY <1>f, <2>9, SlotsOtherwise
      <3>3. ASSUME NEW k \in (pos'[v] + 1)..len[v], ArrayOf(v)[k] = x,
                   old[v] = <<>> => k \in Slots(Feeds[v])
            PROVE  Ahead(v, x)'
        BY <3>1, <3>2, <3>3 DEF Ahead
      <3>4. CASE SetLoad(v)
        <4>1. at[v] = Nil /\ at'[v] = ArrayOf(v)[pos[v] + 1] /\ pos'[v] = pos[v] + 1
          BY <1>a, <3>4 DEF SetLoad
        <4>2. ASSUME NEW k \in (pos[v] + 1)..len[v], ArrayOf(v)[k] = x,
                     old[v] = <<>> => k \in Slots(Feeds[v])
              PROVE  x = at'[v] \/ Ahead(v, x)'
          <5>1. k = pos[v] + 1 \/ k \in (pos'[v] + 1)..len[v]
            BY <1>a, <4>1
          <5>2. QED BY <3>3, <4>1, <4>2, <5>1
        <4>3. Ahead(v, x) => x = at'[v] \/ Ahead(v, x)'
          BY <4>2 DEF Ahead
        <4>4. QED BY <2>2, <2>3, <2>4, <4>1, <4>3
      <3>5. CASE ~SetLoad(v)
        <4>1. pos'[v] = pos[v] /\ (at'[v] = at[v] \/ at[v] \notin due'[v])
          <5>1. ASSUME NEW w \in Writers, SetLoad(w) PROVE pos'[v] = pos[v] /\ at'[v] = at[v]
            BY <1>a, <3>5, <5>1 DEF SetLoad
          <5>2. ASSUME NEW w \in Writers, SetSend(w)
                PROVE  pos'[v] = pos[v] /\ (at'[v] = at[v] \/ at[v] \notin due'[v])
            BY <1>a, <5>2 DEF SetSend
          <5>3. ASSUME NEW w \in Writers, SetReturn(w) PROVE pos'[v] = pos[v] /\ at'[v] = at[v]
            <6>1. w # v
              BY <1>a, <5>3 DEF SetReturn
            <6>2. QED BY <1>a, <5>3, <6>1 DEF SetReturn
          <5>4. ASSUME NEW w \in Writers, NEW u \in Validators, SetStore(w, u)
                PROVE  pos'[v] = pos[v] /\ at'[v] = at[v]
            <6>1. w # v
              BY <1>2, <5>4 DEF SetStore
            <6>2. QED BY <1>a, <5>4, <6>1 DEF SetStore, setVars
          <5>5. ASSUME NEW c \in Clients, Cancel(c) PROVE pos' = pos /\ at' = at
            BY <5>5 DEF Cancel, setVars
          <5>6. ASSUME NEW y \in Subs, CloseOnce(y) \/ Receive(y) PROVE pos' = pos /\ at' = at
            BY <5>6 DEF CloseOnce, Receive, setVars
          <5>7. CASE UNCHANGED cacheVars \/ StoreHeader
            BY <5>7 DEF cacheVars, setVars, StoreHeader
          <5>8. QED BY <2>9, <5>1, <5>2, <5>3, <5>4, <5>5, <5>6, <5>7 DEF Next, Set
        <4>2. Ahead(v, x) => Ahead(v, x)'
          BY <3>3, <4>1 DEF Ahead
        <4>3. QED BY <2>2, <2>3, <4>1, <4>2
      <3>6. QED BY <3>4, <3>5
    <2>10. QED BY <2>5, <2>6, <2>7, <2>8, <2>9
  <1>3. QED BY <1>1, <1>2

\* A Set skips a live subscriber it should reach only when an in-place filter moved
\* it, between two reads of the loop, from the slot read next into the one read
\* last, however many clients come and go (cache.go Set ranges over the copied
\* header, the unsubscribe goroutine filters the same array element by element).
THEOREM SkipsOnlyWhenCrossed == Spec => []SkippedOnlyWhenCrossed
  <1>1. Init => SkipsAccounted
    BY DEF Init, SkipsAccounted
  <1>2. IInv /\ ReachesSubscribed /\ SkipsAccounted /\ [Next]_cacheVars => SkipsAccounted'
    BY AccountStep
  <1>3. IInv /\ ReachesSubscribed /\ SkipsAccounted => SkippedOnlyWhenCrossed
    <2> SUFFICES ASSUME IInv, ReachesSubscribed, SkipsAccounted, NEW w \in Writers, LoopDone(w),
                        NEW x \in due[w], Live(x)
                 PROVE  x \in crossed[w]
      BY DEF SkippedOnlyWhenCrossed
    <2>1. /\ env[w] # 0 /\ at[w] = Nil /\ pos[w] = len[w] /\ len[w] \in Nat
          /\ due[w] \subseteq Subs
      BY DEF LoopDone, IInv, TypeOK
    <2>2. ~Ahead(w, x)
      BY <2>1 DEF Ahead
    <2>3. QED BY <2>1, <2>2, NilNotSub DEF SkipsAccounted
  <1>4. QED BY <1>1, <1>2, <1>3, ReachesAlways, PTL DEF Spec
=============================================================================
