---------------------------- MODULE CacheProofs ----------------------------
(* Theorems about Cache for every value of its constants. *)
EXTENDS Cache, SequenceTheorems, TLAPS

\* Nil is no subscription.
LEMMA NilNotSub == Nil \notin Subs
  BY DEF Nil, Subs

\* The goroutine that holds c.mu to filter is removing its own subscription, and the
\* slot it writes next is one of the list.
FilterOK == mu # Nil => sub[mu] = "removed" /\ gap \in 1..count[mu[2]]

\* The inductive core of the cache: types, the filter at work, the exact subscriber
\* list, and what a Set in flight can read.
IInv == TypeOK /\ FilterOK /\ SubscriberListExact /\ SetReadsSubscribers

\* With c.mu free, the slots of a list are all the places of the slice.
LEMMA SlotsFree == mu = Nil => \A s \in Sources : Slots(s) = 1..count[s]
  BY DEF Slots

\* The slots of a list are places of the slice.
LEMMA SlotsIn == \A s \in Sources : Slots(s) \subseteq 1..count[s]
  BY DEF Slots

\* It holds initially.
LEMMA IInvInit == Init => IInv
  <1> SUFFICES ASSUME Init PROVE IInv
    OBVIOUS
  <1>1. TypeOK
    BY CacheAssumption DEF Init, TypeOK, Nil, Subs
  <1>2. SubscriberListExact
    BY SlotsFree DEF Init, SubscriberListExact, Listed
  <1>3. SetReadsSubscribers
    BY DEF Init, SetReadsSubscribers, HeldOK, ReadsOK
  <1>4. FilterOK
    BY DEF Init, FilterOK
  <1>5. QED BY <1>1, <1>2, <1>3, <1>4 DEF IInv

\* A subscription is a client and a source.
LEMMA SubParts == \A x \in Subs : x[1] \in Clients /\ x[2] \in Sources
  BY DEF Subs

\* A filter at work stays inside its list, a prefix of the array.
LEMMA AtWork ==
  ASSUME TypeOK, FilterOK, SubscriberListExact, mu # Nil
  PROVE  /\ mu \in Subs /\ mu[2] \in Sources /\ sub[mu] = "removed"
         /\ gap \in Nat /\ 1 <= gap /\ gap <= count[mu[2]]
         /\ count[mu[2]] \in Nat /\ count[mu[2]] <= Len(array[mu[2]])
         /\ array[mu[2]] \in Seq(Subs \cup {Nil}) /\ Len(array[mu[2]]) \in Nat
  <1>1. mu \in Subs /\ mu[2] \in Sources
    BY SubParts DEF TypeOK
  <1>2. /\ count[mu[2]] \in Nat /\ array[mu[2]] \in Seq(Subs \cup {Nil})
        /\ count[mu[2]] <= Len(array[mu[2]])
    BY <1>1 DEF TypeOK, SubscriberListExact
  <1>3. Len(array[mu[2]]) \in Nat
    BY <1>2
  <1>4. sub[mu] = "removed" /\ gap \in 1..count[mu[2]]
    BY DEF FilterOK
  <1>5. QED BY <1>1, <1>2, <1>3, <1>4

\* What is listed for a source are subscriptions.
LEMMA ListedSubs == \A s \in Sources : SubscriberListExact => Listed(s) \subseteq Subs
  BY DEF SubscriberListExact

\* Types are preserved by every step.
LEMMA TypeStep == IInv /\ [Next]_cacheVars => TypeOK'
  <1> SUFFICES ASSUME IInv, [Next]_cacheVars PROVE TypeOK'
    OBVIOUS
  <1>a. TypeOK /\ FilterOK /\ SubscriberListExact /\ \A w \in Writers : HeldOK(w) /\ ReadsOK(w)
    BY DEF IInv, SetReadsSubscribers
  <1>b. ChanCap \in Nat \ {0} /\ MaxSets \in Nat /\ \A w \in Writers : Feeds[w] \in Sources
    BY CacheAssumption
  <1>1. ASSUME NEW w \in Writers, NEW v \in Validators, SetStore(w, v) PROVE TypeOK'
    <2>1. /\ log \in [Sources -> Seq(Validators)]
          /\ env \in [Writers -> 0..MaxSets]
          /\ due \in [Writers -> SUBSET Subs]
      BY <1>a DEF TypeOK
    <2>2. Feeds[w] \in Sources /\ Listed(Feeds[w]) \subseteq Subs
      BY <1>a, <1>b, ListedSubs
    <2>3. log' \in [Sources -> Seq(Validators)]
      <3>1. log' = [log EXCEPT ![Feeds[w]] = Append(@, v)]
        BY <1>1 DEF SetStore
      <3>2. QED BY <2>1, <2>2, <3>1
    <2>b. \A s \in Sources : Len(log'[s]) <= MaxSets
      <3>1. log' = [log EXCEPT ![Feeds[w]] = Append(@, v)] /\ Len(log[Feeds[w]]) < MaxSets
        BY <1>1 DEF SetStore
      <3>2. Len(Append(log[Feeds[w]], v)) = Len(log[Feeds[w]]) + 1
        BY <2>1, <2>2, AppendProperties
      <3>3. \A s \in Sources : Len(log[s]) \in Nat /\ Len(log[s]) <= MaxSets
        BY <1>a DEF TypeOK
      <3>4. QED BY <2>1, <2>2, <3>1, <3>2, <3>3, <1>b
    <2>4. env' \in [Writers -> 0..MaxSets]
      <3>1. env' = env \/ env' = [env EXCEPT ![w] = Len(log[Feeds[w]]) + 1]
        BY <1>1 DEF SetStore, setVars
      <3>2. Len(log[Feeds[w]]) + 1 \in 0..MaxSets
        <4>1. Len(log[Feeds[w]]) < MaxSets
          BY <1>1 DEF SetStore
        <4>2. Len(log[Feeds[w]]) \in Nat
          BY <2>1, <2>2
        <4>3. QED BY <4>1, <4>2, <1>b
      <3>3. QED BY <2>1, <3>1, <3>2
    <2>5. due' \in [Writers -> SUBSET Subs]
      <3>1. due' = due \/ due' = [due EXCEPT ![w] = Listed(Feeds[w])]
        BY <1>1 DEF SetStore, setVars
      <3>2. QED BY <2>1, <2>2, <3>1
    <2>6. /\ len' \in [Writers -> Nat]
          /\ pos' \in [Writers -> Nat]
          /\ crossed' \in [Writers -> SUBSET Subs]
          /\ old' \in [Writers -> Seq(Subs \cup {Nil})]
          /\ at' \in [Writers -> Subs \cup {Nil}]
      <3>1. /\ len' = len \/ len' = [len EXCEPT ![w] = count[Feeds[w]]]
            /\ pos' = pos \/ pos' = [pos EXCEPT ![w] = 0]
            /\ crossed' = crossed \/ crossed' = [crossed EXCEPT ![w] = {}]
            /\ old' = old \/ old' = [old EXCEPT ![w] = <<>>]
            /\ at' = at
        BY <1>1 DEF SetStore, setVars
      <3>a. /\ len \in [Writers -> Nat]
            /\ pos \in [Writers -> Nat]
            /\ count[Feeds[w]] \in Nat
            /\ old \in [Writers -> Seq(Subs \cup {Nil})]
        BY <1>a, <2>2 DEF TypeOK
      <3>2. len' \in [Writers -> Nat] /\ pos' \in [Writers -> Nat]
        BY <3>1, <3>a
      <3>3. crossed' \in [Writers -> SUBSET Subs] /\ at' \in [Writers -> Subs \cup {Nil}]
        BY <3>1, <1>a DEF TypeOK
      <3>4. old' \in [Writers -> Seq(Subs \cup {Nil})]
        <4>1. DEFINE S == Seq(Subs \cup {Nil})
                     e == <<>>
        <4>2. e \in S /\ old \in [Writers -> S] /\ (old' = old \/ old' = [old EXCEPT ![w] = e])
          BY <3>1, <3>a, EmptySeq
        <4> HIDE DEF S, e
        <4>3. old' \in [Writers -> S]
          BY <4>2
        <4>4. QED BY <4>3 DEF S
      <3>5. QED BY <3>2, <3>3, <3>4
    <2>7. QED
      BY <1>1, <1>a, <2>3, <2>b, <2>4, <2>5, <2>6 DEF SetStore, TypeOK
  <1>2. ASSUME NEW w \in Writers, SetLoad(w) PROVE TypeOK'
    <2>1. pos[w] + 1 \in 1..len[w]
      BY <1>2, <1>a DEF SetLoad, TypeOK
    <2>2. ArrayOf(w)[pos[w] + 1] \in Subs
      BY <1>2, <1>a, <2>1 DEF SetLoad, ReadsOK
    <2>3. at' \in [Writers -> Subs \cup {Nil}]
      BY <1>2, <1>a, <2>2 DEF SetLoad, TypeOK
    <2>4. pos' \in [Writers -> Nat]
      BY <1>2, <1>a DEF SetLoad, TypeOK
    <2>5. QED
      BY <1>2, <1>a, <2>3, <2>4 DEF SetLoad, TypeOK
  <1>3. ASSUME NEW w \in Writers, SetSend(w) PROVE TypeOK'
    <2>1. at[w] \in Subs /\ env[w] \in 1..MaxSets
      BY <1>3, <1>a DEF SetSend, HeldOK, TypeOK
    <2>2. ch \in [Subs -> Seq(1..MaxSets)] /\ missed \in [Subs -> 0..MaxSets]
          /\ \A x \in Subs : Len(ch[x]) <= ChanCap
      BY <1>a DEF TypeOK
    <2>3. \/ ch' = ch
          \/ ch' = [ch EXCEPT ![at[w]] = Append(@, env[w])] /\ Len(ch[at[w]]) < ChanCap
      BY <1>3 DEF SetSend, Offer
    <2>a. /\ Append(ch[at[w]], env[w]) \in Seq(1..MaxSets)
          /\ Len(Append(ch[at[w]], env[w])) = Len(ch[at[w]]) + 1
      BY <2>1, <2>2, AppendProperties
    <2>4. ch' \in [Subs -> Seq(1..MaxSets)]
      BY <2>1, <2>2, <2>3, <2>a
    <2>5. missed' \in [Subs -> 0..MaxSets]
      <3>1. \/ missed' = missed
            \/ missed' = [missed EXCEPT ![at[w]] = IF Newest(at[w]) = env[w] THEN @ ELSE env[w]]
        BY <1>3 DEF SetSend, Offer
      <3>2. missed' = missed \/ missed' = [missed EXCEPT ![at[w]] = env[w]]
        BY <2>1, <2>2, <3>1
      <3>3. QED BY <2>1, <2>2, <3>2
    <2>6. \A x \in Subs : Len(ch'[x]) <= ChanCap
      <3>1. \A x \in Subs : Len(ch[x]) \in Nat
        BY <2>2
      <3>2. TAKE x \in Subs
      <3>3. CASE x = at[w]
        BY <2>1, <2>2, <2>3, <2>a, <3>1, <3>3, <1>b
      <3>4. CASE x # at[w]
        BY <2>1, <2>2, <2>3, <3>4
      <3>5. QED BY <3>3, <3>4
    <2>7. at' \in [Writers -> Subs \cup {Nil}] /\ due' \in [Writers -> SUBSET Subs]
      BY <1>3, <1>a DEF SetSend, TypeOK
    <2>8. QED
      BY <1>3, <1>a, <2>4, <2>5, <2>6, <2>7 DEF SetSend, TypeOK
  <1>4. ASSUME NEW w \in Writers, SetReturn(w) PROVE TypeOK'
    <2>1. missed' \in [Subs -> 0..MaxSets]
      BY <1>4, <1>a DEF SetReturn, TypeOK
    <2>2. /\ env' \in [Writers -> 0..MaxSets]
          /\ len' \in [Writers -> Nat]
          /\ pos' \in [Writers -> Nat]
          /\ crossed' \in [Writers -> SUBSET Subs]
          /\ old' \in [Writers -> Seq(Subs \cup {Nil})]
          /\ due' \in [Writers -> SUBSET Subs]
      BY <1>4, <1>a, <1>b DEF SetReturn, TypeOK
    <2>3. QED
      BY <1>4, <1>a, <2>1, <2>2 DEF SetReturn, TypeOK
  <1>5. ASSUME NEW x \in Subs, Subscribe(x) PROVE TypeOK'
    <2>1. x[2] \in Sources /\ array[x[2]] \in Seq(Subs \cup {Nil}) /\ count[x[2]] \in Nat
      BY <1>a, SubParts DEF TypeOK
    <2>2. array' \in [Sources -> Seq(Subs \cup {Nil})]
      <3>0. array \in [Sources -> Seq(Subs \cup {Nil})]
        BY <1>a DEF TypeOK
      <3>1. CASE count[x[2]] < Len(array[x[2]])
        <4>1. array' = [array EXCEPT ![x[2]] = [@ EXCEPT ![count[x[2]] + 1] = x]]
          BY <1>5, <3>1 DEF Subscribe
        <4>2. count[x[2]] + 1 \in 1..Len(array[x[2]])
          BY <2>1, <3>1
        <4>3. [array[x[2]] EXCEPT ![count[x[2]] + 1] = x] \in Seq(Subs \cup {Nil})
          BY <2>1, <4>2, ExceptSeq
        <4>4. QED BY <3>0, <4>1, <4>3, <2>1
      <3>2. CASE ~(count[x[2]] < Len(array[x[2]]))
        <4>1. array' = [array EXCEPT ![x[2]] = Grown(x[2], x)]
          BY <1>5, <3>2 DEF Subscribe
        <4>2. Grown(x[2], x) \in Seq(Subs \cup {Nil})
          BY <2>1 DEF Grown
        <4>3. QED BY <3>0, <2>1, <4>1, <4>2
      <3>3. QED BY <3>1, <3>2
    <2>3. old' \in [Writers -> Seq(Subs \cup {Nil})]
      <3>1. old' = old \/ old' = Detach(x[2])
        BY <1>5 DEF Subscribe
      <3>2. QED BY <3>1, <2>1, <1>a DEF Detach, TypeOK
    <2>4. joined' \in [Subs -> 0..MaxSets]
      <3>1. joined' = [joined EXCEPT ![x] = Len(log[x[2]])]
        BY <1>5 DEF Subscribe, Latest
      <3>2. Len(log[x[2]]) \in 0..MaxSets
        BY <2>1, <1>a, <1>b, SMTT(60) DEF TypeOK
      <3>3. QED
        BY <3>1, <3>2, <1>a DEF TypeOK
    <2>5. /\ count' \in [Sources -> Nat]
          /\ sub' \in [Subs -> {"none", "open", "removed", "closed"}]
      BY <1>5, <1>a, <2>1 DEF Subscribe, TypeOK
    <2>6. QED
      BY <1>5, <1>a, <2>2, <2>3, <2>4, <2>5 DEF Subscribe, TypeOK
  <1>6. ASSUME NEW c \in Clients, Cancel(c) PROVE TypeOK'
    BY <1>6, <1>a DEF Cancel, TypeOK, setVars
  <1>7. ASSUME NEW x \in Subs, Unlist(x) PROVE TypeOK'
    <2>1. x[2] \in Sources
      BY SubParts
    <2>2. PICK p \in 1..count[x[2]] : gap' = p
      BY <1>7 DEF Unlist
    <2>3. gap' \in Nat /\ mu' \in Subs \cup {Nil}
      BY <1>7, <1>a, <2>1, <2>2 DEF Unlist, TypeOK
    <2>4. sub' \in [Subs -> {"none", "open", "removed", "closed"}]
      BY <1>7, <1>a DEF Unlist, TypeOK
    <2>5. QED
      BY <1>7, <1>a, <2>3, <2>4 DEF Unlist, TypeOK, setVars
  <1>12. ASSUME Shift PROVE TypeOK'
    <2>0. mu # Nil
      BY <1>12 DEF Shift
    <2> PICK s \in Sources : s = mu[2]
      BY <2>0, <1>a, AtWork
    <2>1. /\ gap \in Nat /\ gap >= 1
          /\ gap < count[s] /\ count[s] \in Nat /\ count[s] <= Len(array[s])
          /\ array[s] \in Seq(Subs \cup {Nil}) /\ Len(array[s]) \in Nat
      BY <2>0, <1>12, <1>a, AtWork DEF Shift
    <2>2. gap \in 1..Len(array[s]) /\ gap + 1 \in 1..Len(array[s])
      BY <2>1
    <2>3. array[s][gap + 1] \in Subs
      <3>1. gap + 1 \in Slots(s)
        BY <2>0, <2>1 DEF Slots
      <3>2. QED BY <1>a, <2>1, <3>1, ListedSubs DEF Listed
    <2>4. [array[s] EXCEPT ![gap] = array[s][gap + 1]] \in Seq(Subs \cup {Nil})
      <3>1. PICK b \in Subs \cup {Nil} : b = array[s][gap + 1]
        BY <2>3
      <3>2. [array[s] EXCEPT ![gap] = b] \in Seq(Subs \cup {Nil})
        BY <2>1, <2>2, ExceptSeq
      <3>3. QED BY <3>1, <3>2
    <2>5. array' \in [Sources -> Seq(Subs \cup {Nil})]
      <3>1. array' = [array EXCEPT ![s] = [array[s] EXCEPT ![gap] = array[s][gap + 1]]]
        BY <1>12 DEF Shift
      <3>2. array \in [Sources -> Seq(Subs \cup {Nil})]
        BY <1>a DEF TypeOK
      <3>3. QED BY <2>4, <3>1, <3>2
    <2>6. crossed' \in [Writers -> SUBSET Subs] /\ gap' \in Nat
      <3>1. crossed \in [Writers -> SUBSET Subs]
        BY <1>a DEF TypeOK
      <3>2. /\ gap' = gap + 1
            /\ crossed' = [w \in Writers |->
                 IF Feeds[w] = s /\ env[w] # 0 /\ old[w] = <<>> /\ pos[w] = gap
                 THEN crossed[w] \cup {array[s][gap + 1]} ELSE crossed[w]]
        BY <1>12 DEF Shift
      <3>3. \A w \in Writers : crossed'[w] \in SUBSET Subs
        BY <2>3, <3>1, <3>2
      <3>4. QED BY <2>1, <3>2, <3>3
    <2>7. QED
      BY <1>12, <1>a, <2>5, <2>6 DEF Shift, TypeOK
  <1>13. ASSUME StoreHeader PROVE TypeOK'
    <2>1. mu[2] \in Sources /\ gap >= 1 /\ gap = count[mu[2]] /\ gap \in Nat
      BY <1>13, <1>a, AtWork DEF StoreHeader
    <2>2. count' \in [Sources -> Nat]
      BY <1>13, <1>a, <2>1 DEF StoreHeader, TypeOK
    <2>3. QED
      BY <1>13, <1>a, <2>2 DEF StoreHeader, TypeOK, setVars
  <1>8. ASSUME NEW x \in Subs, CloseOnce(x) PROVE TypeOK'
    BY <1>8, <1>a DEF CloseOnce, TypeOK, setVars
  <1>9. ASSUME NEW x \in Subs, Receive(x) PROVE TypeOK'
    <2>1. ch \in [Subs -> Seq(1..MaxSets)] /\ got \in [Subs -> 0..MaxSets]
          /\ \A y \in Subs : Len(ch[y]) <= ChanCap
      BY <1>a DEF TypeOK
    <2>2. /\ ch' = [ch EXCEPT ![x] = Tail(@)]
          /\ got' = [got EXCEPT ![x] = Head(ch[x])]
          /\ ch[x] # <<>>
      BY <1>9 DEF Receive
    <2>3. /\ Head(ch[x]) \in 1..MaxSets
          /\ Tail(ch[x]) \in Seq(1..MaxSets)
          /\ Len(Tail(ch[x])) = Len(ch[x]) - 1
          /\ Len(ch[x]) \in Nat
      <3>1. ch[x] \in Seq(1..MaxSets) /\ ch[x] # <<>>
        BY <2>1, <2>2
      <3>2. DEFINE q == ch[x]
                   S == 1..MaxSets
      <3>3. Head(q) \in S /\ Tail(q) \in Seq(S) /\ Len(Tail(q)) = Len(q) - 1 /\ Len(q) \in Nat
        <4>1. q \in Seq(S) /\ q # <<>>
          BY <3>1
        <4> HIDE DEF q, S
        <4>2. QED BY <4>1, HeadTailProperties
      <3>4. QED BY <3>3
    <2>4. ch' \in [Subs -> Seq(1..MaxSets)] /\ got' \in [Subs -> 0..MaxSets]
      BY <2>1, <2>2, <2>3
    <2>5. \A y \in Subs : Len(ch'[y]) <= ChanCap
      BY <2>1, <2>2, <2>3, <1>b
    <2>6. QED
      BY <1>9, <1>a, <2>4, <2>5 DEF Receive, TypeOK, setVars
  <1>10. CASE UNCHANGED cacheVars
    BY <1>10, <1>a DEF cacheVars, setVars, TypeOK
  <1>11. QED
    BY <1>1, <1>2, <1>3, <1>4, <1>5, <1>6, <1>7, <1>8, <1>9, <1>10, <1>12, <1>13 DEF Next, Set

\* A filter at work stays inside its list.
LEMMA FilterStep == IInv /\ [Next]_cacheVars => FilterOK'
  <1> SUFFICES ASSUME IInv, [Next]_cacheVars PROVE FilterOK'
    OBVIOUS
  <1>a. /\ FilterOK /\ gap \in Nat /\ mu \in Subs \cup {Nil}
        /\ count \in [Sources -> Nat] /\ sub \in [Subs -> {"none", "open", "removed", "closed"}]
    BY DEF IInv, TypeOK
  <1>1. ASSUME UNCHANGED <<mu, gap, count>>, \A y \in Subs : sub[y] = "removed" /\ y = mu => sub'[y] = "removed"
        PROVE  FilterOK'
    BY <1>a, <1>1 DEF FilterOK
  <1>2. ASSUME NEW w \in Writers, Set(w) PROVE FilterOK'
    BY <1>1, <1>2 DEF Set, SetStore, SetLoad, SetSend, SetReturn
  <1>3. ASSUME NEW c \in Clients, Cancel(c) PROVE FilterOK'
    BY <1>1, <1>3 DEF Cancel
  <1>4. ASSUME NEW x \in Subs, Subscribe(x) PROVE FilterOK'
    BY <1>4 DEF Subscribe, FilterOK
  <1>5. ASSUME NEW x \in Subs, Unlist(x) PROVE FilterOK'
    BY <1>5, <1>a DEF Unlist, FilterOK
  <1>6. ASSUME NEW x \in Subs, CloseOnce(x) PROVE FilterOK'
    BY <1>1, <1>6, <1>a DEF CloseOnce
  <1>7. ASSUME NEW x \in Subs, Receive(x) PROVE FilterOK'
    BY <1>1, <1>7 DEF Receive
  <1>8. ASSUME Shift PROVE FilterOK'
    <2>1. mu[2] \in Sources /\ count[mu[2]] \in Nat
      BY <1>8, <1>a, SubParts DEF Shift
    <2>2. QED BY <1>8, <1>a, <2>1 DEF Shift, FilterOK
  <1>9. ASSUME StoreHeader PROVE FilterOK'
    BY <1>9 DEF StoreHeader, FilterOK
  <1>10. ASSUME UNCHANGED cacheVars PROVE FilterOK'
    BY <1>1, <1>10 DEF cacheVars
  <1>11. QED
    BY <1>2, <1>3, <1>4, <1>5, <1>6, <1>7, <1>8, <1>9, <1>10 DEF Next

\* Storing the shorter slice leaves the slots of every list what they were.
LEMMA SlotsStored ==
  ASSUME TypeOK, FilterOK, SubscriberListExact, StoreHeader
  PROVE  \A t \in Sources : Slots(t)' = Slots(t) /\ count'[t] \in Nat /\ count'[t] <= count[t]
  <1>0. mu # Nil
    BY DEF StoreHeader
  <1> PICK s \in Sources : s = mu[2]
    BY <1>0, AtWork
  <1>1. /\ gap = count[s] /\ count[s] \in Nat /\ count[s] >= 1
        /\ count \in [Sources -> Nat]
    BY <1>0, AtWork DEF StoreHeader, TypeOK
  <1>2. count' = [count EXCEPT ![s] = @ - 1] /\ mu' = Nil
    BY DEF StoreHeader
  <1>3. Slots(s) = 1..count[s] \ {count[s]}
    BY <1>0, <1>1 DEF Slots
  <1>4. \A t \in Sources : Slots(t)' = 1..count'[t]
    BY <1>2 DEF Slots
  <1> TAKE t \in Sources
  <1>5. CASE t = s
    <2>1. count'[s] = count[s] - 1
      BY <1>1, <1>2
    <2>2. 1..(count[s] - 1) = 1..count[s] \ {count[s]}
      BY <1>1
    <2>3. count[s] - 1 \in Nat /\ count[s] - 1 <= count[s]
      BY <1>1
    <2>4. Slots(t)' = 1..(count[s] - 1) /\ Slots(t) = 1..count[s] \ {count[s]}
      BY <1>3, <1>4, <1>5, <2>1
    <2>5. QED BY <1>5, <2>1, <2>2, <2>3, <2>4
  <1>6. CASE t # s
    <2>1. Slots(t) = 1..count[t] /\ count'[t] = count[t] /\ count[t] \in Nat
      BY <1>1, <1>2, <1>6 DEF Slots
    <2>2. QED BY <1>4, <2>1
  <1>7. QED BY <1>5, <1>6

\* The subscriber list stays exact.
LEMMA ListStep == IInv /\ [Next]_cacheVars => SubscriberListExact'
  <1> SUFFICES ASSUME IInv, [Next]_cacheVars PROVE SubscriberListExact'
    OBVIOUS
  <1>a. TypeOK /\ FilterOK /\ SubscriberListExact
    BY DEF IInv
  <1>b. ASSUME UNCHANGED <<array, count, mu, gap>>,
               \A x \in Subs : sub[x] = "open" <=> sub'[x] = "open"
        PROVE SubscriberListExact'
    BY <1>a, <1>b DEF SubscriberListExact, Listed, Slots
  <1>c. sub \in [Subs -> {"none", "open", "removed", "closed"}]
    BY <1>a DEF TypeOK
  <1>1. ASSUME NEW w \in Writers, Set(w) PROVE SubscriberListExact'
    BY <1>1, <1>b DEF Set, SetStore, SetLoad, SetSend, SetReturn
  <1>2. ASSUME NEW c \in Clients, Cancel(c) PROVE SubscriberListExact'
    BY <1>2, <1>b DEF Cancel
  <1>3. ASSUME NEW x \in Subs, CloseOnce(x) PROVE SubscriberListExact'
    <2>1. \A y \in Subs : sub[y] = "open" <=> sub'[y] = "open"
      BY <1>3, <1>c DEF CloseOnce
    <2>2. QED BY <1>3, <1>b, <2>1 DEF CloseOnce
  <1>4. ASSUME NEW x \in Subs, Receive(x) PROVE SubscriberListExact'
    BY <1>4, <1>b DEF Receive
  <1>5. ASSUME UNCHANGED cacheVars PROVE SubscriberListExact'
    BY <1>5, <1>b DEF cacheVars
  <1>6. ASSUME NEW x \in Subs, Subscribe(x) PROVE SubscriberListExact'
    <2> DEFINE s == x[2]
    <2>1. /\ s \in Sources
          /\ array[s] \in Seq(Subs \cup {Nil}) /\ Len(array[s]) \in Nat
          /\ count[s] \in Nat /\ count[s] <= Len(array[s])
          /\ array \in [Sources -> Seq(Subs \cup {Nil})] /\ count \in [Sources -> Nat]
      BY <1>a, SubParts, SMTT(60) DEF TypeOK, SubscriberListExact
    <2>0. /\ mu = Nil /\ mu' = mu
          /\ \A t \in Sources : Slots(t) = 1..count[t] /\ Slots(t)' = 1..count'[t]
      BY <1>6 DEF Subscribe, Slots
    <2>2. count' = [count EXCEPT ![s] = @ + 1] /\ sub' = [sub EXCEPT ![x] = "open"] /\ sub[x] = "none"
      BY <1>6 DEF Subscribe
    <2>3. /\ \A t \in Sources : t # s => array'[t] = array[t]
          /\ Len(array'[s]) >= count[s] + 1
          /\ array'[s][count[s] + 1] = x
          /\ \A k \in 1..count[s] : array'[s][k] = array[s][k]
      <3>1. CASE count[s] < Len(array[s])
        <4>1. array' = [array EXCEPT ![s] = [@ EXCEPT ![count[s] + 1] = x]]
          BY <1>6, <3>1 DEF Subscribe
        <4>2. count[s] + 1 \in 1..Len(array[s])
          BY <2>1, <3>1
        <4>3. /\ Len([array[s] EXCEPT ![count[s] + 1] = x]) = Len(array[s])
              /\ \A k \in 1..Len(array[s]) : [array[s] EXCEPT ![count[s] + 1] = x][k]
                                              = IF k = count[s] + 1 THEN x ELSE array[s][k]
          BY <2>1, <4>2, ExceptSeq
        <4>4. array'[s] = [array[s] EXCEPT ![count[s] + 1] = x]
          BY <2>1, <4>1
        <4>5. \A t \in Sources : t # s => array'[t] = array[t]
          BY <2>1, <4>1
        <4> HIDE DEF s
        <4>6. QED BY <2>1, <4>2, <4>3, <4>4, <4>5
      <3>2. CASE ~(count[s] < Len(array[s]))
        <4>1. array' = [array EXCEPT ![s] = Grown(s, x)]
          BY <1>6, <3>2 DEF Subscribe
        <4>2. count[s] = Len(array[s])
          BY <2>1, <3>2
        <4>3. /\ Len(Grown(s, x)) >= count[s] + 1
              /\ Grown(s, x)[count[s] + 1] = x
              /\ \A k \in 1..count[s] : Grown(s, x)[k] = array[s][k]
          BY <2>1, <4>2 DEF Grown
        <4>4. QED BY <2>1, <4>1, <4>3
      <3>3. QED BY <3>1, <3>2
    <2>4. \A t \in Sources : t # s => count'[t] = count[t]
      BY <2>1, <2>2
    <2>5. count'[s] = count[s] + 1
      BY <2>1, <2>2
    <2>6. \A y \in Subs : y # x => sub'[y] = sub[y]
      BY <2>2, <1>c
    <2>7. sub'[x] = "open"
      BY <2>2, <1>c
    <2>8. \A t \in Sources : Listed(t) = {y \in Subs : y[2] = t /\ sub[y] = "open"}
      BY <1>a DEF SubscriberListExact
    <2> SUFFICES ASSUME NEW t \in Sources
                 PROVE  /\ count'[t] <= Len(array'[t])
                        /\ Listed(t)' = {y \in Subs : y[2] = t /\ sub'[y] = "open"}
                        /\ \A j, k \in 1..count'[t] : array'[t][j] = array'[t][k] => j = k
      BY <2>0 DEF SubscriberListExact
    <2>9. CASE t # s
      <3>1. /\ count[t] <= Len(array[t])
            /\ \A j, k \in 1..count[t] : array[t][j] = array[t][k] => j = k
        BY <1>a, <2>0 DEF SubscriberListExact
      <3>2. Listed(t)' = Listed(t)
        BY <2>0, <2>3, <2>4, <2>9 DEF Listed
      <3>3. QED BY <2>3, <2>4, <2>6, <2>8, <2>9, <3>1, <3>2
    <2>10. CASE t = s
      <3>1. x \notin Listed(s)
        BY <2>2, <2>8, <2>1
      <3>2. Listed(s)' = Listed(s) \cup {x}
        <4> DEFINE n == count[s]
        <4>1. n \in Nat /\ count'[s] = n + 1 /\ array'[s][n + 1] = x
          BY <2>1, <2>3, <2>5
        <4>2. \A k \in 1..n : array'[s][k] = array[s][k]
          BY <2>3
        <4>3. Listed(s)' = {array'[s][k] : k \in 1..(n + 1)}
          BY <2>0, <2>1, <4>1 DEF Listed
        <4>4. Listed(s) = {array[s][k] : k \in 1..n}
          BY <2>0, <2>1 DEF Listed
        <4> HIDE DEF n
        <4>5. \A k \in 1..(n + 1) : array'[s][k] \in {array[s][i] : i \in 1..n} \cup {x}
          BY <4>1, <4>2
        <4>6. \A k \in 1..n : k \in 1..(n + 1) /\ array'[s][k] = array[s][k]
          BY <4>1, <4>2
        <4>7. x \in {array'[s][k] : k \in 1..(n + 1)}
          BY <4>1
        <4>8. QED BY <4>3, <4>4, <4>5, <4>6, <4>7
      <3>3. \A j, k \in 1..count[s] : array[s][j] = array[s][k] => j = k
        BY <1>a, <2>0, <2>1, ZenonT(60) DEF SubscriberListExact
      <3>4. \A k \in 1..count[s] : array[s][k] # x
        BY <2>0, <2>1, <3>1 DEF Listed
      <3>5. \A j, k \in 1..(count[s] + 1) : array'[s][j] = array'[s][k] => j = k
        <4> TAKE j, k \in 1..(count[s] + 1)
        <4>1. j \in 1..count[s] \/ j = count[s] + 1
          BY <2>1
        <4>2. k \in 1..count[s] \/ k = count[s] + 1
          BY <2>1
        <4>3. QED BY <2>3, <3>3, <3>4, <4>1, <4>2
      <3>6. Listed(s)' = {y \in Subs : y[2] = s /\ sub'[y] = "open"}
        BY <2>6, <2>7, <2>8, <2>1, <3>2
      <3>7. QED BY <2>1, <2>3, <2>5, <2>10, <3>5, <3>6
    <2>11. QED BY <2>9, <2>10
  <1>7. ASSUME NEW x \in Subs, Unlist(x) PROVE SubscriberListExact'
    <2>1. PICK p \in 1..count[x[2]] : array[x[2]][p] = x /\ gap' = p
      BY <1>7 DEF Unlist
    <2>2. /\ mu = Nil /\ mu' = x /\ array' = array /\ count' = count
          /\ sub' = [sub EXCEPT ![x] = "removed"]
      BY <1>7 DEF Unlist
    <2>3. x[2] \in Sources /\ x # Nil
      BY SubParts, NilNotSub
    <2>4. \A y \in Subs : sub'[y] = "open" <=> y # x /\ sub[y] = "open"
      BY <1>c, <2>2
    <2> SUFFICES ASSUME NEW t \in Sources
                 PROVE  /\ count'[t] <= Len(array'[t])
                        /\ Listed(t)' = {y \in Subs : y[2] = t /\ sub'[y] = "open"}
                        /\ \A j, k \in Slots(t)' : array'[t][j] = array'[t][k] => j = k
      BY DEF SubscriberListExact
    <2>5. /\ count[t] <= Len(array[t])
          /\ {array[t][k] : k \in 1..count[t]} = {y \in Subs : y[2] = t /\ sub[y] = "open"}
          /\ \A j, k \in 1..count[t] : array[t][j] = array[t][k] => j = k
      BY <1>a, <2>2, SlotsFree DEF SubscriberListExact, Listed
    <2>6. Slots(t)' = IF x[2] = t THEN 1..count[t] \ {p} ELSE 1..count[t]
      BY <2>1, <2>2, <2>3 DEF Slots
    <2>7. Listed(t)' = {array[t][k] : k \in Slots(t)'}
      BY <2>2 DEF Listed
    <2>8. CASE x[2] = t
      <3>1. {array[t][k] : k \in 1..count[t] \ {p}} = {array[t][k] : k \in 1..count[t]} \ {x}
        BY <2>1, <2>5, <2>8
      <3>2. Listed(t)' = {y \in Subs : y[2] = t /\ sub'[y] = "open"}
        BY <2>4, <2>5, <2>6, <2>7, <2>8, <3>1
      <3>3. QED BY <2>2, <2>5, <2>6, <2>8, <3>2
    <2>9. CASE x[2] # t
      BY <2>2, <2>4, <2>5, <2>6, <2>7, <2>9
    <2>10. QED BY <2>8, <2>9
  <1>8. ASSUME Shift PROVE SubscriberListExact'
    <2>0. mu # Nil
      BY <1>8 DEF Shift
    <2> PICK s \in Sources, n \in Nat, a \in Seq(Subs \cup {Nil}) :
               s = mu[2] /\ n = count[s] /\ a = array[s]
      BY <2>0, <1>a, AtWork
    <2>1. /\ gap \in Nat /\ gap >= 1 /\ gap < n /\ n <= Len(a)
          /\ array \in [Sources -> Seq(Subs \cup {Nil})]
      BY <2>0, <1>8, <1>a, AtWork DEF Shift, TypeOK
    <2>2. /\ array' = [array EXCEPT ![s] = [a EXCEPT ![gap] = a[gap + 1]]]
          /\ gap' = gap + 1 /\ mu' = mu /\ count' = count /\ sub' = sub
      BY <1>8 DEF Shift
    <2>3. /\ array'[s] = [a EXCEPT ![gap] = a[gap + 1]]
          /\ \A t \in Sources : t # s => array'[t] = array[t]
      BY <2>1, <2>2
    <2>4. /\ Slots(s) = 1..n \ {gap} /\ Slots(s)' = 1..n \ {gap + 1}
          /\ \A t \in Sources : t # s => Slots(t)' = Slots(t)
      BY <2>0, <2>1, <2>2 DEF Slots
    <2>5. Listed(s) = {a[k] : k \in Slots(s)} /\ Listed(s)' = {array'[s][k] : k \in Slots(s)'}
      BY DEF Listed
    <2>6. \A j, k \in Slots(s) : a[j] = a[k] => j = k
      BY <1>a, <2>1 DEF SubscriberListExact
    <2>7. \A t \in Sources : t # s => Listed(t)' = Listed(t)
      BY <2>3, <2>4 DEF Listed
    <2>8. \A t \in Sources : Listed(t) = {y \in Subs : y[2] = t /\ sub'[y] = "open"}
      BY <1>a, <2>2 DEF SubscriberListExact
    <2> SUFFICES ASSUME NEW t \in Sources
                 PROVE  /\ count'[t] <= Len(array'[t])
                        /\ Listed(t)' = {y \in Subs : y[2] = t /\ sub'[y] = "open"}
                        /\ \A j, k \in Slots(t)' : array'[t][j] = array'[t][k] => j = k
      BY DEF SubscriberListExact
    <2>9. CASE t # s
      BY <1>a, <2>2, <2>3, <2>4, <2>7, <2>8, <2>9 DEF SubscriberListExact
    <2>10. CASE t = s
      <3>1. Len(array'[s]) = Len(a) /\ \A k \in 1..n : array'[s][k] = IF k = gap THEN a[gap + 1] ELSE a[k]
        BY <2>1, <2>3, ExceptSeq
      <3>2. \A k \in 1..n \ {gap + 1} : array'[s][k] \in {a[i] : i \in 1..n \ {gap}}
        <4> TAKE k \in 1..n \ {gap + 1}
        <4>1. CASE k = gap
          <5>1. gap + 1 \in 1..n \ {gap} /\ array'[s][k] = a[gap + 1]
            BY <2>1, <3>1, <4>1
          <5>2. QED BY <5>1
        <4>2. CASE k # gap
          BY <3>1, <4>2
        <4>3. QED BY <4>1, <4>2
      <3>3. \A i \in 1..n \ {gap} : a[i] \in {array'[s][k] : k \in 1..n \ {gap + 1}}
        <4> TAKE i \in 1..n \ {gap}
        <4>1. CASE i = gap + 1
          <5>1. gap \in 1..n \ {gap + 1} /\ array'[s][gap] = a[i]
            BY <2>1, <3>1, <4>1
          <5>2. QED BY <5>1
        <4>2. CASE i # gap + 1
          BY <3>1, <4>2
        <4>3. QED BY <4>1, <4>2
      <3>4. Listed(s)' = Listed(s)
        <4> DEFINE D == 1..n \ {gap}
                   E == 1..n \ {gap + 1}
                   b == array'[s]
        <4>1. (\A k \in E : b[k] \in {a[i] : i \in D}) /\ (\A i \in D : a[i] \in {b[k] : k \in E})
          BY <3>2, <3>3
        <4>2. Listed(s) = {a[i] : i \in D} /\ Listed(s)' = {b[k] : k \in E}
          BY <2>4, <2>5
        <4> HIDE DEF D, E, b
        <4>3. {b[k] : k \in E} = {a[i] : i \in D}
          BY <4>1
        <4>4. QED BY <4>2, <4>3
      <3>5. \A j, k \in 1..n \ {gap + 1} : array'[s][j] = array'[s][k] => j = k
        <4> TAKE j, k \in 1..n \ {gap + 1}
        <4>1. gap + 1 \in Slots(s) /\ \A i \in 1..n : i # gap => i \in Slots(s)
          BY <2>1, <2>4
        <4>2. CASE j = gap
          <5>1. k # gap => a[gap + 1] # a[k]
            BY <2>6, <4>1
          <5>2. QED BY <2>1, <3>1, <4>2, <5>1
        <4>3. CASE k = gap
          <5>1. j # gap => a[gap + 1] # a[j]
            BY <2>6, <4>1
          <5>2. QED BY <2>1, <3>1, <4>3, <5>1
        <4>4. CASE j # gap /\ k # gap
          BY <2>6, <3>1, <4>1, <4>4
        <4>5. QED BY <4>2, <4>3, <4>4
      <3>6. count'[s] <= Len(array'[s])
        BY <2>1, <2>2, <3>1
      <3>7. QED BY <2>4, <2>8, <2>10, <3>4, <3>5, <3>6
    <2>11. QED BY <2>9, <2>10
  <1>9. ASSUME StoreHeader PROVE SubscriberListExact'
    <2>1. array' = array /\ sub' = sub
      BY <1>9 DEF StoreHeader
    <2>2. \A t \in Sources : Slots(t)' = Slots(t) /\ count'[t] \in Nat /\ count'[t] <= count[t]
      BY <1>9, <1>a, SlotsStored
    <2>3. \A t \in Sources : Listed(t)' = Listed(t)
      BY <2>1, <2>2 DEF Listed
    <2>4. \A t \in Sources : count[t] \in Nat /\ Len(array[t]) \in Nat
      BY <1>a DEF TypeOK
    <2>5. QED
      BY <1>a, <2>1, <2>2, <2>3, <2>4 DEF SubscriberListExact
  <1>10. QED
    BY <1>1, <1>2, <1>3, <1>4, <1>5, <1>6, <1>7, <1>8, <1>9 DEF Next

\* A step that leaves what writer w reads alone preserves its part.
LEMMA ReadsFrame ==
  ASSUME NEW w \in Writers, HeldOK(w), ReadsOK(w),
         env'[w] = env[w], len'[w] = len[w], pos'[w] = pos[w], at'[w] = at[w],
         ArrayOf(w)' = ArrayOf(w)
  PROVE  HeldOK(w)' /\ ReadsOK(w)'
  BY DEF HeldOK, ReadsOK

\* What a Set in flight reads stays subscribers of its source.
LEMMA ReadsStep == IInv /\ [Next]_cacheVars => SetReadsSubscribers'
  <1> SUFFICES ASSUME IInv, [Next]_cacheVars PROVE SetReadsSubscribers'
    OBVIOUS
  <1> SUFFICES ASSUME NEW v \in Writers PROVE HeldOK(v)' /\ ReadsOK(v)'
    BY DEF SetReadsSubscribers
  <1>a. HeldOK(v) /\ ReadsOK(v) /\ TypeOK /\ FilterOK /\ SubscriberListExact
    BY DEF IInv, SetReadsSubscribers
  <1>b. /\ env \in [Writers -> 0..MaxSets] /\ len \in [Writers -> Nat]
        /\ pos \in [Writers -> Nat] /\ at \in [Writers -> Subs \cup {Nil}]
        /\ array \in [Sources -> Seq(Subs \cup {Nil})] /\ count \in [Sources -> Nat]
        /\ old \in [Writers -> Seq(Subs \cup {Nil})]
    BY <1>a DEF TypeOK
  <1>c. Feeds[v] \in Sources /\ \A s \in Sources : count[s] <= Len(array[s])
    BY <1>a, CacheAssumption DEF SubscriberListExact
  <1>d. \A s \in Sources : \A k \in Slots(s) : array[s][k] \in Subs /\ array[s][k][2] = s
    BY <1>a DEF SubscriberListExact, Listed
  <1>1. ASSUME NEW w \in Writers, NEW u \in Validators, SetStore(w, u) PROVE HeldOK(v)' /\ ReadsOK(v)'
    <2>1. at' = at /\ array' = array /\ env[w] = 0
      BY <1>1 DEF SetStore, setVars
    <2>2. CASE env' = env /\ len' = len /\ pos' = pos /\ old' = old
      BY <1>a, <2>1, <2>2, ReadsFrame DEF ArrayOf
    <2>3. CASE /\ env' = [env EXCEPT ![w] = Len(log[Feeds[w]]) + 1]
               /\ len' = [len EXCEPT ![w] = count[Feeds[w]]]
               /\ pos' = [pos EXCEPT ![w] = 0]
               /\ old' = [old EXCEPT ![w] = <<>>]
      <3>1. CASE w # v
        BY <1>a, <1>b, <2>1, <2>3, <3>1, ReadsFrame DEF ArrayOf
      <3>2. CASE w = v
        <4>1. at[v] = Nil
          BY <1>a, <2>1, <3>2 DEF HeldOK
        <4>2. pos'[v] = 0 /\ len'[v] = count[Feeds[v]] /\ ArrayOf(v)' = array[Feeds[v]]
          BY <1>b, <2>1, <2>3, <3>2 DEF ArrayOf
        <4>3. Slots(Feeds[v]) = 1..count[Feeds[v]]
          BY <1>1, <1>c, SlotsFree DEF SetStore
        <4>4. QED BY <1>b, <1>c, <1>d, <2>1, <4>1, <4>2, <4>3, SMTT(60) DEF HeldOK, ReadsOK
      <3>3. QED BY <3>1, <3>2
    <2>4. QED BY <1>1, <2>2, <2>3 DEF SetStore, setVars
  <1>2. ASSUME NEW w \in Writers, SetLoad(w) PROVE HeldOK(v)' /\ ReadsOK(v)'
    <2>1. CASE w # v
      BY <1>a, <1>b, <1>2, <2>1, ReadsFrame DEF SetLoad, ArrayOf
    <2>2. CASE w = v
      <3>1. pos[v] + 1 \in 1..len[v] /\ pos'[v] = pos[v] + 1 /\ env[v] # 0
        BY <1>b, <1>2, <2>2 DEF SetLoad
      <3>2. at'[v] = ArrayOf(v)[pos[v] + 1] /\ ArrayOf(v)' = ArrayOf(v)
        BY <1>b, <1>2, <2>2 DEF SetLoad, ArrayOf
      <3>3. ArrayOf(v)[pos[v] + 1][2] = Feeds[v]
        BY <1>a, <3>1 DEF ReadsOK
      <3>4. env'[v] = env[v] /\ len'[v] = len[v]
        BY <1>2 DEF SetLoad
      <3>5. HeldOK(v)'
        BY <3>1, <3>2, <3>3, <3>4 DEF HeldOK
      <3>6. ReadsOK(v)'
        BY <1>a, <3>1, <3>2, <3>4 DEF ReadsOK
      <3>7. QED BY <3>5, <3>6
    <2>3. QED BY <2>1, <2>2
  <1>3. ASSUME NEW w \in Writers, SetSend(w) PROVE HeldOK(v)' /\ ReadsOK(v)'
    <2>1. at'[v] = at[v] \/ at'[v] = Nil
      BY <1>b, <1>3 DEF SetSend
    <2>2. env' = env /\ len' = len /\ pos' = pos /\ ArrayOf(v)' = ArrayOf(v)
      BY <1>3 DEF SetSend, ArrayOf
    <2>3. QED BY <1>a, <2>1, <2>2 DEF HeldOK, ReadsOK
  <1>4. ASSUME NEW w \in Writers, SetReturn(w) PROVE HeldOK(v)' /\ ReadsOK(v)'
    <2>1. CASE w # v
      BY <1>a, <1>b, <1>4, <2>1, ReadsFrame DEF SetReturn, ArrayOf
    <2>2. CASE w = v
      BY <1>b, <1>4, <2>2 DEF SetReturn, LoopDone, HeldOK, ReadsOK
    <2>3. QED BY <2>1, <2>2
  <1>5. ASSUME NEW x \in Subs, Subscribe(x) PROVE HeldOK(v)' /\ ReadsOK(v)'
    <2> DEFINE s == x[2]
    <2>1. /\ s \in Sources /\ array[s] \in Seq(Subs \cup {Nil}) /\ Len(array[s]) \in Nat
          /\ count[s] \in Nat
      BY <1>b, SubParts
    <2>2. env' = env /\ len' = len /\ pos' = pos /\ at' = at
      BY <1>5 DEF Subscribe
    <2>3. CASE count[s] < Len(array[s])
      <3>1. array' = [array EXCEPT ![s] = [@ EXCEPT ![count[s] + 1] = x]] /\ old' = old
        BY <1>5, <2>3 DEF Subscribe
      <3>2. CASE Feeds[v] = s /\ old[v] = <<>>
        <4>1. ArrayOf(v)' = [array[s] EXCEPT ![count[s] + 1] = x] /\ ArrayOf(v) = array[s]
          BY <1>b, <2>1, <3>1, <3>2 DEF ArrayOf
        <4>2. Len(ArrayOf(v)') = Len(ArrayOf(v))
          BY <2>1, <2>3, <4>1, ExceptSeq
        <4>3. \A k \in 1..Len(array[s]) : ArrayOf(v)'[k] = IF k = count[s] + 1 THEN x ELSE array[s][k]
          BY <2>1, <4>1
        <4>4. HeldOK(v)'
          BY <1>a, <2>2 DEF HeldOK
        <4>5. ReadsOK(v)'
          <5>1. SUFFICES ASSUME env[v] # 0
                         PROVE  /\ pos[v] <= len[v]
                                /\ len[v] <= Len(ArrayOf(v)')
                                /\ \A k \in 1..len[v] : ArrayOf(v)'[k] \in Subs /\ ArrayOf(v)'[k][2] = Feeds[v]
            BY <2>2 DEF ReadsOK
          <5>2. /\ pos[v] <= len[v] /\ len[v] <= Len(array[s])
                /\ \A k \in 1..len[v] : array[s][k] \in Subs /\ array[s][k][2] = s
            BY <1>a, <3>2, <4>1, <5>1 DEF ReadsOK
          <5>3. \A k \in 1..len[v] : k \in 1..Len(array[s])
            BY <1>b, <2>1, <5>2
          <5>4. QED BY <3>2, <4>1, <4>2, <4>3, <5>2, <5>3
        <4>6. QED BY <4>4, <4>5
      <3>3. CASE ~(Feeds[v] = s /\ old[v] = <<>>)
        <4>1. ArrayOf(v)' = ArrayOf(v)
          BY <1>b, <1>c, <2>1, <3>1, <3>3 DEF ArrayOf
        <4>2. QED BY <1>a, <2>2, <4>1, ReadsFrame
      <3>4. QED BY <3>2, <3>3
    <2>4. CASE ~(count[s] < Len(array[s]))
      <3>1. array' = [array EXCEPT ![s] = Grown(s, x)] /\ old' = Detach(s)
        BY <1>5, <2>4 DEF Subscribe
      <3>2. CASE Feeds[v] = s /\ env[v] # 0 /\ old[v] = <<>>
        <4>1. old'[v] = array[s] /\ ArrayOf(v) = array[s]
          BY <3>1, <3>2 DEF Detach, ArrayOf
        <4>2. CASE array[s] = <<>>
          <5>1. len[v] = 0 /\ pos[v] = 0
            BY <1>a, <1>b, <3>2, <4>1, <4>2 DEF ReadsOK
          <5>2. Len(ArrayOf(v)') \in Nat
            <6>1. ArrayOf(v)' = Grown(s, x)
              BY <1>b, <2>1, <3>1, <3>2, <4>1, <4>2 DEF ArrayOf
            <6>2. QED BY <2>1, <6>1 DEF Grown
          <5>3. QED BY <1>a, <2>2, <5>1, <5>2 DEF HeldOK, ReadsOK
        <4>3. CASE array[s] # <<>>
          <5>1. ArrayOf(v)' = ArrayOf(v)
            BY <4>1, <4>3 DEF ArrayOf
          <5>2. QED BY <1>a, <2>2, <5>1, ReadsFrame
        <4>4. QED BY <4>2, <4>3
      <3>3. CASE Feeds[v] # s \/ (env[v] # 0 /\ old[v] # <<>>)
        <4>1. ArrayOf(v)' = ArrayOf(v)
          BY <1>b, <1>c, <2>1, <3>1, <3>3 DEF ArrayOf, Detach
        <4>2. QED BY <1>a, <2>2, <4>1, ReadsFrame
      <3>4. CASE env[v] = 0
        BY <1>a, <2>2, <3>4 DEF HeldOK, ReadsOK
      <3>5. QED BY <3>2, <3>3, <3>4
    <2>5. QED BY <2>3, <2>4
  <1>6. ASSUME Shift PROVE HeldOK(v)' /\ ReadsOK(v)'
    <2>0. mu # Nil
      BY <1>6 DEF Shift
    <2> PICK s \in Sources, a \in Seq(Subs \cup {Nil}) : s = mu[2] /\ a = array[s]
      BY <2>0, <1>a, AtWork
    <2> DEFINE f == [a EXCEPT ![gap] = a[gap + 1]]
    <2>1. /\ gap \in Nat /\ gap >= 1 /\ gap < count[s] /\ count[s] \in Nat
          /\ count[s] <= Len(a) /\ Len(a) \in Nat
      BY <2>0, <1>6, <1>a, AtWork DEF Shift
    <2>2. array' = [array EXCEPT ![s] = f]
      BY <1>6 DEF Shift
    <2>3. env' = env /\ len' = len /\ pos' = pos /\ at' = at /\ old' = old
      BY <1>6 DEF Shift
    <2>4. Len(f) = Len(a) /\ \A k \in 1..Len(a) : f[k] = IF k = gap THEN a[gap + 1] ELSE a[k]
      BY <2>1, ExceptSeq
    <2>5. a[gap + 1] \in Subs /\ a[gap + 1][2] = s
      <3>1. gap + 1 \in Slots(s)
        BY <2>0, <2>1 DEF Slots
      <3>2. QED BY <1>d, <2>1, <3>1
    <2>6. CASE Feeds[v] = s /\ old[v] = <<>>
      <3>1. ArrayOf(v)' = f /\ ArrayOf(v) = a
        BY <1>b, <2>1, <2>2, <2>3, <2>6 DEF ArrayOf
      <3>2. ReadsOK(v)'
        <4> HIDE DEF f
        <4>1. SUFFICES ASSUME env[v] # 0
                       PROVE  /\ pos[v] <= len[v]
                              /\ len[v] <= Len(f)
                              /\ \A k \in 1..len[v] : f[k] \in Subs /\ f[k][2] = Feeds[v]
          BY <2>3, <3>1 DEF ReadsOK
        <4>2. /\ pos[v] <= len[v] /\ len[v] <= Len(a)
              /\ \A k \in 1..len[v] : a[k] \in Subs /\ a[k][2] = s
          BY <1>a, <2>6, <3>1, <4>1 DEF ReadsOK
        <4>3. \A k \in 1..len[v] : k \in 1..Len(a)
          BY <1>b, <2>1, <4>2
        <4>4. \A k \in 1..len[v] : f[k] \in Subs /\ f[k][2] = s
          BY <2>4, <2>5, <4>2, <4>3
        <4>5. QED BY <2>4, <2>6, <4>2, <4>4
      <3>3. QED BY <1>a, <2>3, <3>2 DEF HeldOK
    <2>7. CASE ~(Feeds[v] = s /\ old[v] = <<>>)
      <3>1. ArrayOf(v)' = ArrayOf(v)
        BY <1>b, <1>c, <2>1, <2>2, <2>3, <2>7 DEF ArrayOf
      <3>2. QED BY <1>a, <2>3, <3>1, ReadsFrame
    <2>8. QED BY <2>6, <2>7
  <1>7. ASSUME UNCHANGED <<array, setVars>> PROVE HeldOK(v)' /\ ReadsOK(v)'
    BY <1>a, <1>7, ReadsFrame DEF setVars, ArrayOf
  <1>8. QED
    BY <1>1, <1>2, <1>3, <1>4, <1>5, <1>6, <1>7
       DEF Next, Set, Cancel, Unlist, StoreHeader, CloseOnce, Receive, cacheVars

\* The inductive invariant of the cache.
LEMMA IInvAlways == Spec => []IInv
  <1>1. IInv /\ [Next]_cacheVars => IInv'
    BY TypeStep, FilterStep, ListStep, ReadsStep DEF IInv
  <1>2. QED
    BY IInvInit, <1>1, PTL DEF Spec

\* The cache's state keeps its types: no channel overflows its capacity, whatever
\* the numbers of clients, sources and Sets.
THEOREM TypeCorrect == Spec => []TypeOK
  BY IInvAlways, PTL DEF IInv

\* c.subscribers[s] always lists exactly the live subscriptions, each once,
\* though Subscribe appends and the unsubscribe goroutines filter in place.
THEOREM SubscriberListIsExact == Spec => []SubscriberListExact
  BY IInvAlways, PTL DEF IInv

\* The loop of Set never meets an empty slot or another source's subscriber,
\* though it ranges over the shared backing array with no lock held.
THEOREM SetReadsOnlySubscribers == Spec => []SetReadsSubscribers
  BY IInvAlways, PTL DEF IInv

\* A step never lengthens a closed channel.
LEMMA ClosedStep ==
  IInv /\ [Next]_cacheVars => \A x \in Subs : sub[x] = "closed" => Len(ch'[x]) <= Len(ch[x])
  <1> SUFFICES ASSUME IInv, [Next]_cacheVars, NEW x \in Subs, sub[x] = "closed"
               PROVE  Len(ch'[x]) <= Len(ch[x])
    OBVIOUS
  <1>1. ch \in [Subs -> Seq(1..MaxSets)] /\ Len(ch[x]) \in Nat
    BY DEF IInv, TypeOK
  <1>2. ASSUME NEW w \in Writers, SetSend(w) PROVE ch'[x] = ch[x]
    BY <1>1, <1>2 DEF SetSend, Offer
  <1>3. ASSUME NEW y \in Subs, Receive(y) PROVE Len(ch'[x]) <= Len(ch[x])
    <2>1. ch' = [ch EXCEPT ![y] = Tail(@)] /\ ch[y] # <<>>
      BY <1>3 DEF Receive
    <2>2. CASE y # x
      BY <1>1, <2>1, <2>2
    <2>3. CASE y = x
      <3>1. ch[x] \in Seq(1..MaxSets) /\ ch[x] # <<>> /\ ch'[x] = Tail(ch[x])
        BY <1>1, <2>1, <2>3
      <3>2. Len(Tail(ch[x])) = Len(ch[x]) - 1
        BY <3>1, HeadTailProperties
      <3>3. QED BY <1>1, <3>1, <3>2
    <2>4. QED BY <2>2, <2>3
  <1>4. ASSUME ch' = ch PROVE Len(ch'[x]) <= Len(ch[x])
    BY <1>1, <1>4
  <1>5. ASSUME NEW w \in Writers, Set(w) PROVE Len(ch'[x]) <= Len(ch[x])
    <2>1. ch' = ch \/ SetSend(w)
      BY <1>5 DEF Set, SetStore, SetLoad, SetReturn
    <2>2. QED BY <1>1, <1>2, <1>4, <2>1
  <1>6. ASSUME NEW c \in Clients, Cancel(c) PROVE ch' = ch
    BY <1>6 DEF Cancel
  <1>7. ASSUME NEW y \in Subs, Subscribe(y) \/ Unlist(y) \/ CloseOnce(y) PROVE ch' = ch
    BY <1>7 DEF Subscribe, Unlist, CloseOnce
  <1>8. CASE UNCHANGED cacheVars
    BY <1>4, <1>8 DEF cacheVars
  <1>9. ASSUME Shift \/ StoreHeader PROVE ch' = ch
    BY <1>9 DEF Shift, StoreHeader
  <1>10. QED
    BY <1>3, <1>4, <1>5, <1>6, <1>7, <1>8, <1>9 DEF Next

\* No Set ever sends on a closed channel, which would panic, even when the
\* header it copied still lists the subscriber (subscriber.send, closeOnce).
THEOREM NoSendOnClosedChannel == Spec => ClosedChannelGetsNothing
  <1>1. IInv /\ [Next]_cacheVars
          => [\A x \in Subs : sub[x] = "closed" => Len(ch'[x]) <= Len(ch[x])]_cacheVars
    BY ClosedStep
  <1>2. QED
    BY IInvAlways, <1>1, PTL DEF Spec, ClosedChannelGetsNothing

=============================================================================
