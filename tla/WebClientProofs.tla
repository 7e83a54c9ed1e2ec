--------------------------- MODULE WebClientProofs ---------------------------
(***************************************************************************)
(* Proofs about WebClient, for every set of windows and images, any number *)
(* of versions and invalidations, and any order of the steps of the server, *)
(* the browser and the user.                                               *)
(*                                                                         *)
(* Three inductive invariants, over the types.  ImagesInv: what is on the   *)
(* wire of an image lies, in order, between what the tab knows and what was *)
(* announced, and the last announcement is known, on its way or in unseen.  *)
(* StreamInv: a tab that is gone never connects.  ChartInv: a request is    *)
(* for what the chart was last asked to show, and its answer holds every    *)
(* stored row up to that version, because rows are stored in the order of   *)
(* their versions.                                                         *)
(***************************************************************************)
EXTENDS WebClient, SequenceTheorems, WellFoundedInduction, TLAPS

---------------------------------------------------------------------------
(* The types, and what bounds a version.                                   *)

Frames(n) == [event : {"snapshot"}, version : 0..n, inv : Seq(Images \X Nat)]
             \cup [event : {"update"}, version : 0..n]
             \cup [event : {"invalidate"}, image : Images, version : Nat]

ServerOK ==
    /\ last \in Nat /\ stored \subseteq 1..last /\ stored # {} /\ cached \in 0..last
    /\ announced \in [Images -> Nat] /\ slot \in Seq(Images)
StreamOK ==
    /\ wire \in Seq(Frames(last))
    /\ snapshot \in 0..last /\ refresh \in [Images -> Nat]
    /\ conn = "fetching" => wire = <<>>
TypeInv == ServerOK /\ StreamOK

\* The newest of a source's stored versions is one of them.
LEMMA MaxIsMember ==
    ASSUME NEW S, S \subseteq Nat, NEW n \in Nat, \A y \in S : y <= n, S # {}
    PROVE  Max(S) \in S
<1> DEFINE T == {b \in Nat : \A y \in S : y <= b}
<1>1. IsWellFoundedOn(OpToRel(<, Nat), Nat)
  BY NatLessThanWellFounded
<1>2. T \subseteq Nat /\ n \in T
  OBVIOUS
<1>3. PICK b \in T : \A c \in T : <<c, b>> \notin OpToRel(<, Nat)
  <2> HIDE DEF T
  <2> QED  BY <1>1, <1>2, WFMin
<1>4. b \in S
  <2>1. SUFFICES ASSUME b \notin S PROVE FALSE
    OBVIOUS
  <2>2. b \in Nat /\ \A y \in S : y < b /\ y \in Nat
    BY <2>1
  <2>5. PICK z \in S : z \in Nat /\ z < b
    BY <2>2
  <2>3. b # 0 /\ b - 1 \in Nat /\ \A y \in S : y <= b - 1
    BY <2>2, <2>5
  <2>4. b - 1 \in T /\ b - 1 < b
    BY <2>2, <2>3
  <2> QED  BY <1>3, <2>2, <2>3, <2>4 DEF OpToRel
<1>5. \E x \in S : \A y \in S : x >= y
  <2>1. b \in Nat /\ \A y \in S : y \in Nat /\ y <= b
    BY <1>3
  <2> QED  BY <1>4, <2>1
<1>6. Max(S) \in S
  BY <1>5, Zenon DEF Max
<1> QED  BY <1>6

\* A sequence over a set is one over a larger set.
LEMMA SeqOver ==
    ASSUME NEW S, NEW T, S \subseteq T, NEW s \in Seq(S)
    PROVE  s \in Seq(T)
<1>1. Len(s) \in Nat /\ s \in [1..Len(s) -> S]
  BY LenProperties
<1>2. s \in [1..Len(s) -> T]
  BY <1>1
<1> QED  BY <1>1, <1>2, SeqDef

\* A version that a frame brings replaces the entry of its image, and no other.
LEMMA RefreshedIs ==
    ASSUME refresh \in [Images -> Nat], NEW pairs, pairs \subseteq Images \X Nat
    PROVE  /\ Refreshed(pairs) \in [Images -> Nat]
           /\ \A k \in Images : \/ <<k, Refreshed(pairs)[k]>> \in pairs
                                \/ /\ Refreshed(pairs)[k] = refresh[k]
                                   /\ \A v \in Nat : <<k, v>> \notin pairs
<1> DEFINE new(k) == IF \E p \in pairs : p[1] = k THEN (CHOOSE p \in pairs : p[1] = k)[2] ELSE refresh[k]
<1>1. ASSUME NEW k \in Images
      PROVE  /\ new(k) \in Nat
             /\ <<k, new(k)>> \in pairs \/ (new(k) = refresh[k] /\ \A v \in Nat : <<k, v>> \notin pairs)
  <2>1. CASE \E p \in pairs : p[1] = k
    <3> DEFINE q == CHOOSE p \in pairs : p[1] = k
    <3>1. q \in pairs /\ q[1] = k
      BY <2>1, Zenon
    <3>2. new(k) = q[2]
      BY <2>1
    <3> HIDE DEF q
    <3>3. PICK a \in Images, v \in Nat : q = <<a, v>>
      BY <3>1
    <3> HIDE DEF new
    <3> QED  BY <3>1, <3>2, <3>3
  <2>2. CASE ~\E p \in pairs : p[1] = k
    <3>1. new(k) = refresh[k]
      BY <2>2
    <3> HIDE DEF new
    <3>2. \A v \in Nat : <<k, v>>[1] = k
      OBVIOUS
    <3> QED  BY <2>2, <3>1, <3>2
  <2> QED  BY <2>1, <2>2
<1>2. Refreshed(pairs) = [k \in Images |-> new(k)]
  BY DEF Refreshed
<1> HIDE DEF new
<1> QED  BY <1>1, <1>2

\* What a snapshot frame says of images is what was announced of them.
LEMMA SnapshotFrameIs ==
    ASSUME ServerOK
    PROVE  /\ SnapshotFrame \in Frames(last) /\ SnapshotFrame.event = "snapshot"
           /\ \A k \in Images, v \in Nat : <<k, v>> \in ToSet(SnapshotFrame.inv) => v = announced[k]
<1> DEFINE inv == [i \in DOMAIN slot |-> <<slot[i], announced[slot[i]]>>]
<1>1. Len(slot) \in Nat /\ DOMAIN slot = 1..Len(slot) /\ \A i \in 1..Len(slot) : slot[i] \in Images
  BY ElementOfSeq, LenProperties DEF ServerOK
<1>2. \A i \in 1..Len(slot) : inv[i] = <<slot[i], announced[slot[i]]>> /\ inv[i] \in Images \X Nat
  BY <1>1 DEF ServerOK
<1>3. inv \in [1..Len(slot) -> Images \X Nat]
  BY <1>1, <1>2
<1>4. inv \in Seq(Images \X Nat)
  BY <1>1, <1>3, SeqDef
<1>5. SnapshotFrame = [event |-> "snapshot", version |-> cached, inv |-> inv]
  BY DEF SnapshotFrame
<1>6. DOMAIN inv = 1..Len(slot)
  BY <1>1
<1> HIDE DEF inv
<1>7. SnapshotFrame.inv = inv /\ SnapshotFrame.event = "snapshot" /\ SnapshotFrame \in Frames(last)
  BY <1>4, <1>5 DEF Frames, ServerOK
<1>8. ASSUME NEW k \in Images, NEW v \in Nat, <<k, v>> \in ToSet(inv) PROVE v = announced[k]
  <2>1. PICK i \in 1..Len(slot) : <<k, v>> = inv[i]
    BY <1>6, <1>8 DEF ToSet
  <2> QED  BY <1>2, <2>1
<1> QED  BY <1>7, <1>8

\* A frame is received from the front of the wire; the rest stays.
LEMMA TailIs ==
    ASSUME NEW S, NEW s \in Seq(S), s # <<>>
    PROVE  /\ Head(s) = s[1] /\ Head(s) \in S /\ 1 \in DOMAIN s
           /\ Tail(s) \in Seq(S)
           /\ \A i \in DOMAIN Tail(s) : i \in Nat \ {0} /\ i + 1 \in DOMAIN s /\ Tail(s)[i] = s[i + 1]
           /\ \A i \in DOMAIN s : i # 1 => i - 1 \in DOMAIN Tail(s)
<1>1. Len(s) \in Nat /\ Len(s) # 0 /\ DOMAIN s = 1..Len(s)
  BY EmptySeq, LenProperties
<1>2. /\ Tail(s) \in Seq(S) /\ Len(Tail(s)) = Len(s) - 1
      /\ \A i \in 1..Len(Tail(s)) : Tail(s)[i] = s[i + 1]
      /\ Head(s) = s[1]
  BY HeadTailProperties
<1>3. DOMAIN Tail(s) = 1..(Len(s) - 1)
  BY <1>2, LenProperties
<1>4. 1 \in 1..Len(s)
  BY <1>1
<1>5. s[1] \in S
  BY <1>4, ElementOfSeq
<1> QED  BY <1>1, <1>2, <1>3, <1>4, <1>5

\* What is received updates the snapshot, the invalidations or both.
LEMMA ReceiveIs ==
    ASSUME TypeInv, Receive
    PROVE  /\ wire # <<>> /\ wire' = Tail(wire) /\ Head(wire) \in Frames(last)
           /\ UNCHANGED <<server, conn, view>>
           /\ unseen' = unseen \ {k \in Images : refresh'[k] = announced[k]}
           /\ \/ Head(wire).event = "snapshot" /\ SetSnapshot(Head(wire))
              \/ Head(wire).event = "update" /\ ApplyUpdate(Head(wire))
              \/ Head(wire).event = "invalidate" /\ ApplyImageInvalidate(Head(wire))
           /\ snapshot' \in 0..last /\ refresh' \in [Images -> Nat]
<1>1. /\ wire # <<>> /\ wire' = Tail(wire)
      /\ UNCHANGED <<server, conn, view>>
      /\ unseen' = unseen \ {k \in Images : refresh'[k] = announced[k]}
      /\ \/ Head(wire).event = "snapshot" /\ SetSnapshot(Head(wire))
         \/ Head(wire).event = "update" /\ ApplyUpdate(Head(wire))
         \/ Head(wire).event = "invalidate" /\ ApplyImageInvalidate(Head(wire))
  BY DEF Receive
<1>2. Head(wire) \in Frames(last) /\ refresh \in [Images -> Nat] /\ snapshot \in 0..last
  BY <1>1, TailIs DEF TypeInv, StreamOK
<1> DEFINE frame == Head(wire)
<1> HIDE DEF frame
<1>3. frame \in Frames(last)
  BY <1>2 DEF frame
<1>4. CASE frame.event = "snapshot" /\ SetSnapshot(frame)
  <2>1. frame.version \in 0..last /\ frame.inv \in Seq(Images \X Nat)
    BY <1>3, <1>4 DEF Frames
  <2>2. ToSet(frame.inv) \subseteq Images \X Nat
    BY <2>1, ElementOfSeq, LenProperties DEF ToSet
  <2>3. Refreshed(ToSet(frame.inv)) \in [Images -> Nat]
    BY <1>2, <2>2, RefreshedIs
  <2> QED  BY <1>1, <1>2, <1>4, <2>1, <2>3 DEF SetSnapshot, frame
<1>5. CASE frame.event = "update" /\ ApplyUpdate(frame)
  <2>1. frame.version \in 0..last
    BY <1>3, <1>5 DEF Frames
  <2> QED  BY <1>1, <1>2, <1>5, <2>1 DEF ApplyUpdate, frame
<1>6. CASE frame.event = "invalidate" /\ ApplyImageInvalidate(frame)
  <2>1. <<frame.image, frame.version>> \in Images \X Nat
    BY <1>3, <1>6 DEF Frames
  <2>2. Refreshed({<<frame.image, frame.version>>}) \in [Images -> Nat]
    BY <1>2, <2>1, RefreshedIs
  <2> QED  BY <1>1, <1>2, <1>6, <2>2 DEF ApplyImageInvalidate, frame
<1> QED  BY <1>1, <1>4, <1>5, <1>6 DEF frame

\* The actions that touch neither the server nor the stream.
Aside ==
    \/ Chart
    \/ \E k \in Images : ImageFromCache(k) \/ ImageFromServer(k)
    \/ \E url \in Windows \cup Images : Expire(url)
    \/ \E w \in Windows : SetWindow(w)
    \/ \E to \in tab.pages : Navigate(to)
    \/ UNCHANGED vars

\* What the chart, the tab and an image load leave alone.
LEMMA AsideIs ==
    ASSUME Aside
    PROVE  UNCHANGED <<stored, cached, last, pending, announced, slot, conn, wire, snapshot, refresh, unseen>>
<1>1. CASE Chart
  BY <1>1 DEF Chart, Effect, DebounceOver, FetchFromCache, FetchFromServer, Settle, chartFrame, server
<1>2. CASE \E k \in Images : ImageFromCache(k) \/ ImageFromServer(k)
  BY <1>2 DEF ImageFromCache, ImageFromServer, server
<1>3. CASE \E url \in Windows \cup Images : Expire(url)
  BY <1>3 DEF Expire, server
<1>4. CASE (\E w \in Windows : SetWindow(w)) \/ (\E to \in tab.pages : Navigate(to))
  BY <1>4 DEF SetWindow, Navigate, server
<1>5. CASE UNCHANGED vars
  BY <1>5 DEF vars, server
<1> QED  BY <1>1, <1>2, <1>3, <1>4, <1>5 DEF Aside

\* The others.
LEMMA Steps ==
    ASSUME [Next]_vars
    PROVE  \/ Aside \/ StoreRow \/ Broadcast \/ ServerRestarts \/ StreamBreaks \/ Unmount
           \/ ApiSnapshot \/ OpenStream \/ StreamConnects \/ StreamSubscribes \/ Receive
           \/ \E k \in Images : Announce(k)
BY Zenon DEF Next, Aside, Connection

\* Announce, in full.
LEMMA AnnounceIs ==
    ASSUME NEW k \in Images, Announce(k), TypeInv
    PROVE  /\ announced' \in [Images -> Nat] /\ announced'[k] = announced[k] + 1
           /\ \A a \in Images \ {k} : announced'[a] = announced[a]
           /\ slot' = <<k>>
           /\ Push([event |-> "invalidate", image |-> k, version |-> announced'[k]])
           /\ unseen' = IF conn = "open" THEN unseen ELSE unseen \cup {k}
           /\ UNCHANGED <<stored, cached, last, pending, conn, snapshot, refresh, view>>
<1>1. announced \in [Images -> Nat]
  BY DEF TypeInv, ServerOK
<1> QED  BY <1>1 DEF Announce

\* The frame that is pushed comes last.
LEMMA PushIs ==
    ASSUME NEW S, wire \in Seq(S), NEW frame \in S, Push(frame)
    PROVE  /\ wire' \in Seq(S)
           /\ conn # "open" => wire' = wire
           /\ conn = "open" => wire' = Append(wire, frame)
BY AppendProperties DEF Push

\* Every step keeps the types.
LEMMA TypeStep ==
    ASSUME TypeInv, [Next]_vars
    PROVE  TypeInv'
<1>1. /\ last \in Nat /\ stored \subseteq 1..last /\ stored # {} /\ cached \in 0..last
      /\ announced \in [Images -> Nat] /\ slot \in Seq(Images) /\ wire \in Seq(Frames(last))
      /\ snapshot \in 0..last /\ refresh \in [Images -> Nat]
      /\ conn = "fetching" => wire = <<>>
  BY DEF TypeInv, ServerOK, StreamOK
<1>2. CASE Aside
  <2>1. UNCHANGED <<stored, cached, last, pending, announced, slot, conn, wire, snapshot, refresh>>
    BY <1>2, AsideIs
  <2> QED  BY <1>1, <2>1 DEF TypeInv, ServerOK, StreamOK
<1>3. CASE StoreRow
  <2>1. /\ last' = last + 1 /\ stored' \in {stored, stored \cup {last'}}
        /\ UNCHANGED <<cached, announced, slot, conn, wire, snapshot, refresh>>
    BY <1>3 DEF StoreRow
  <2>2. Frames(last) \subseteq Frames(last + 1)
    BY <1>1 DEF Frames
  <2>3. wire \in Seq(Frames(last + 1))
    BY <1>1, <2>2, SeqOver
  <2> QED  BY <1>1, <2>1, <2>3 DEF TypeInv, ServerOK, StreamOK
<1>4. CASE Broadcast
  <2> DEFINE frame == [event |-> "update", version |-> last]
  <2>1. cached' = last /\ Push(frame) /\ UNCHANGED <<stored, last, announced, slot, conn, snapshot, refresh>>
    BY <1>4 DEF Broadcast
  <2>2. frame \in Frames(last)
    BY <1>1 DEF Frames
  <2> HIDE DEF frame
  <2>3. wire' \in Seq(Frames(last)) /\ (conn # "open" => wire' = wire)
    BY <1>1, <2>1, <2>2, PushIs
  <2> QED  BY <1>1, <2>1, <2>3 DEF TypeInv, ServerOK, StreamOK
<1>5. CASE ServerRestarts
  <2>1. /\ cached' = Max(stored) /\ slot' = <<>>
        /\ wire' = wire \/ wire' = <<>>
        /\ conn' = conn \/ conn' = "connecting"
        /\ UNCHANGED <<stored, last, announced, snapshot, refresh>>
    BY <1>5 DEF ServerRestarts
  <2>2. cached' \in stored
    <3>1. stored \subseteq Nat /\ \A y \in stored : y <= last
      BY <1>1
    <3>2. Max(stored) \in stored
      BY <1>1, <3>1, MaxIsMember
    <3> QED  BY <2>1, <3>2
  <2>3. slot' \in Seq(Images) /\ wire' \in Seq(Frames(last))
    BY <1>1, <2>1, EmptySeq
  <2> QED  BY <1>1, <2>1, <2>2, <2>3 DEF TypeInv, ServerOK, StreamOK
<1>6. CASE StreamBreaks
  <2>1. PICK n \in 0..Len(wire) : wire' = SubSeq(wire, 1, n)
    BY <1>6 DEF StreamBreaks
  <2>2. conn' = "connecting" /\ UNCHANGED <<stored, cached, last, announced, slot, snapshot, refresh>>
    BY <1>6 DEF StreamBreaks, server
  <2>3. wire' \in Seq(Frames(last))
    BY <1>1, <2>1, SubSeqProperties, LenProperties
  <2> QED  BY <1>1, <2>2, <2>3 DEF TypeInv, ServerOK, StreamOK
<1>7. CASE Unmount
  <2>1. /\ wire' = wire \/ wire' = <<>>
        /\ conn' = conn \/ conn' = "closed"
        /\ UNCHANGED <<stored, cached, last, announced, slot, snapshot, refresh>>
    BY <1>7 DEF Unmount, server
  <2>2. wire' \in Seq(Frames(last))
    BY <1>1, <2>1, EmptySeq
  <2> QED  BY <1>1, <2>1, <2>2 DEF TypeInv, ServerOK, StreamOK
<1>8. CASE ApiSnapshot \/ StreamConnects
  <2>1. /\ wire' = wire \/ wire' = <<SnapshotFrame>>
        /\ conn' # "fetching"
        /\ UNCHANGED <<stored, cached, last, announced, slot, snapshot, refresh>>
    BY <1>8 DEF ApiSnapshot, StreamConnects, server
  <2>2. SnapshotFrame \in Frames(last)
    BY SnapshotFrameIs DEF TypeInv
  <2> DEFINE frame == SnapshotFrame
  <2> HIDE DEF frame
  <2>4. <<frame>> \in Seq(Frames(last))
    <3>1. frame \in Frames(last)
      BY <2>2 DEF frame
    <3> QED  BY <3>1
  <2>3. wire' \in Seq(Frames(last))
    BY <1>1, <2>1, <2>4 DEF frame
  <2> QED  BY <1>1, <2>1, <2>3 DEF TypeInv, ServerOK, StreamOK
<1>9. CASE OpenStream \/ StreamSubscribes
  <2>1. /\ conn' # "fetching"
        /\ UNCHANGED <<stored, cached, last, announced, slot, wire, snapshot, refresh>>
    BY <1>9 DEF OpenStream, StreamSubscribes, server
  <2> QED  BY <1>1, <2>1 DEF TypeInv, ServerOK, StreamOK
<1>10. CASE Receive
  <2>1. /\ wire # <<>> /\ wire' = Tail(wire) /\ snapshot' \in 0..last /\ refresh' \in [Images -> Nat]
        /\ UNCHANGED <<stored, cached, last, announced, slot, conn>>
    BY <1>10, ReceiveIs DEF server
  <2>2. wire' \in Seq(Frames(last))
    BY <1>1, <2>1, TailIs
  <2> QED  BY <1>1, <2>1, <2>2 DEF TypeInv, ServerOK, StreamOK
<1>11. ASSUME NEW k \in Images, Announce(k) PROVE TypeInv'
  <2> DEFINE frame == [event |-> "invalidate", image |-> k, version |-> announced'[k]]
  <2>1. /\ announced' \in [Images -> Nat] /\ slot' = <<k>> /\ Push(frame)
        /\ UNCHANGED <<stored, cached, last, conn, snapshot, refresh>>
    BY <1>11, AnnounceIs
  <2>2. frame \in Frames(last)
    BY <2>1 DEF Frames
  <2> HIDE DEF frame
  <2>3. wire' \in Seq(Frames(last)) /\ (conn # "open" => wire' = wire) /\ slot' \in Seq(Images)
    BY <1>1, <2>1, <2>2, PushIs
  <2> QED  BY <1>1, <2>1, <2>3 DEF TypeInv, ServerOK, StreamOK
<1> QED  BY <1>2, <1>3, <1>4, <1>5, <1>6, <1>7, <1>8, <1>9, <1>10, <1>11, Steps

\* The types hold in every state.
LEMMA TypesAlways == Spec => []TypeInv
<1>1. Init => TypeInv
  <2> SUFFICES ASSUME Init PROVE TypeInv
    OBVIOUS
  <2>1. /\ stored = {1} /\ cached = 1 /\ last = 1 /\ announced = [k \in Images |-> 0] /\ slot = <<>>
        /\ wire = <<>> /\ snapshot = 0 /\ refresh = [k \in Images |-> 0]
    BY DEF Init
  <2>2. slot \in Seq(Images) /\ wire \in Seq(Frames(last))
    BY <2>1
  <2> QED  BY <2>1, <2>2 DEF TypeInv, ServerOK, StreamOK
<1>2. TypeInv /\ [Next]_vars => TypeInv'
  BY TypeStep
<1> QED  BY <1>1, <1>2, PTL DEF Spec

---------------------------------------------------------------------------
(* The images.                                                             *)

\* The frame says that image k is at version v.
Invalidates(f, k, v) == f.event = "invalidate" /\ f.image = k /\ f.version = v
Carries(f, k, v) == Invalidates(f, k, v) \/ (f.event = "snapshot" /\ <<k, v>> \in ToSet(f.inv))

(* What is on the wire of an image is between what the tab knows and what   *)
(* was announced, oldest first; the last announcement is known, or on its   *)
(* way, or the history variable says that it was lost; and what the server  *)
(* gave an <img> is no older than its key.                                 *)
Between(k) == \A i \in DOMAIN wire, v \in Nat : Carries(wire[i], k, v) => refresh[k] <= v /\ v <= announced[k]
Sorted(k) == \A i, j \in DOMAIN wire, u, v \in Nat :
                 i < j /\ Carries(wire[i], k, u) /\ Carries(wire[j], k, v) => u <= v
Coming(k) == \/ k \in unseen \/ refresh[k] = announced[k]
             \/ \E i \in DOMAIN wire : Invalidates(wire[i], k, announced[k])
OnTheWire(k) == refresh[k] <= announced[k] /\ Between(k) /\ Sorted(k) /\ (page # "gone" => Coming(k))
Shows(k) ==
    img[k].from = "server" =>
        img[k].key \in Nat /\ img[k].shown \in Nat /\ img[k].key <= img[k].shown /\ img[k].shown <= announced[k]

ImagesInv == DOMAIN img = Images /\ \A k \in Images : OnTheWire(k) /\ Shows(k)

\* Only the user changes the page.
LEMMA PageSteps ==
    ASSUME [Next]_vars
    PROVE  UNCHANGED tab /\ (UNCHANGED page \/ Unmount \/ \E to \in tab.pages : Navigate(to))
<1>1. CASE Chart
  BY <1>1 DEF Chart, Effect, DebounceOver, FetchFromCache, FetchFromServer, Settle, chartFrame
<1>2. ASSUME NEW k \in Images, Announce(k) PROVE UNCHANGED <<tab, page>>
  <2>1. UNCHANGED view
    BY <1>2, Zenon DEF Announce
  <2> QED  BY <2>1 DEF view
<1>3. CASE StoreRow \/ Broadcast \/ ServerRestarts \/ StreamBreaks
           \/ ApiSnapshot \/ OpenStream \/ StreamConnects \/ StreamSubscribes \/ Receive
  BY <1>3 DEF StoreRow, Broadcast, ServerRestarts, StreamBreaks, ApiSnapshot, OpenStream, StreamConnects,
              StreamSubscribes, Receive, view
<1>4. CASE (\E url \in Windows \cup Images : Expire(url)) \/ (\E w \in Windows : SetWindow(w)) \/ UNCHANGED vars
  BY <1>4 DEF Expire, SetWindow, vars, view
<1>5. CASE \E k \in Images : ImageFromCache(k) \/ ImageFromServer(k)
  BY <1>5 DEF ImageFromCache, ImageFromServer
<1>6. CASE Unmount \/ \E to \in tab.pages : Navigate(to)
  BY <1>6 DEF Unmount, Navigate
<1> QED  BY <1>1, <1>2, <1>3, <1>4, <1>5, <1>6, Steps DEF Aside

\* The tab that is gone does not come back.
LEMMA GoneForGood ==
    ASSUME [Next]_vars, page = "gone"
    PROVE  page' = "gone"
BY PageSteps DEF Unmount, Navigate

\* What follows the first n elements of a sequence.
LEMMA Suffix ==
    ASSUME NEW S, NEW q \in Seq(S), NEW n \in 0..Len(q)
    PROVE  /\ SubSeq(q, n + 1, Len(q)) \in Seq(S)
           /\ Len(SubSeq(q, n + 1, Len(q))) = Len(q) - n
           /\ \A j \in 1..(Len(q) - n) : SubSeq(q, n + 1, Len(q))[j] = q[n + j]
<1> DEFINE s == SubSeq(q, n + 1, Len(q))
<1>1. Len(q) \in Nat /\ n \in Nat /\ n <= Len(q)
  BY LenProperties
<1>2. /\ s \in Seq(S)
      /\ Len(s) = IF n + 1 <= Len(q) THEN Len(q) - (n + 1) + 1 ELSE 0
      /\ \A j \in 1..(Len(q) - (n + 1) + 1) : s[j] = q[(n + 1) + j - 1]
  BY <1>1, SubSeqProperties
<1> HIDE DEF s
<1>3. Len(s) = Len(q) - n
  BY <1>1, <1>2
<1>4. \A j \in 1..(Len(q) - n) : s[j] = q[n + j]
  BY <1>1, <1>2
<1> QED  BY <1>2, <1>3, <1>4 DEF s

\* Frames are lost from the back: those that announced something are counted
\* as unseen.
LEMMA FramesLost ==
    ASSUME TypeInv, NEW k \in Images, OnTheWire(k), page' # "gone" => page # "gone",
           UNCHANGED <<announced, refresh>>, NEW n \in 0..Len(wire), wire' = SubSeq(wire, 1, n),
           page' # "gone" => unseen' = unseen \cup InvalidatesIn(SubSeq(wire, n + 1, Len(wire)))
    PROVE  OnTheWire(k)'
<1>1. wire \in Seq(Frames(last)) /\ Len(wire) \in Nat /\ DOMAIN wire = 1..Len(wire)
  BY LenProperties DEF TypeInv, StreamOK
<1>2. DOMAIN wire' = 1..n /\ \A i \in 1..n : wire'[i] = wire[i]
  BY <1>1, SubSeqProperties, LenProperties
<1>3. \A i \in DOMAIN wire' : i \in DOMAIN wire /\ wire'[i] = wire[i]
  BY <1>1, <1>2
<1>4. Between(k)' /\ Sorted(k)'
  BY <1>3 DEF OnTheWire, Between, Sorted
<1>5. ASSUME page' # "gone" PROVE Coming(k)'
  <2> DEFINE rest == SubSeq(wire, n + 1, Len(wire))
  <2>1. ASSUME NEW i \in DOMAIN wire, i > n, Invalidates(wire[i], k, announced[k]) PROVE k \in InvalidatesIn(rest)
    <3>1. rest \in Seq(Frames(last)) /\ Len(rest) = Len(wire) - n /\ \A j \in 1..(Len(wire) - n) : rest[j] = wire[n + j]
      BY <1>1, Suffix
    <3>2. DOMAIN rest = 1..(Len(wire) - n)
      BY <3>1, LenProperties
    <3> HIDE DEF rest
    <3>3. i - n \in DOMAIN rest /\ rest[i - n] = wire[i]
      BY <1>1, <2>1, <3>1, <3>2
    <3> QED  BY <2>1, <3>3 DEF InvalidatesIn, Invalidates
  <2>2. Coming(k) /\ unseen' = unseen \cup InvalidatesIn(rest)
    BY <1>5 DEF OnTheWire
  <2> HIDE DEF rest
  <2>3. CASE k \in unseen \/ refresh[k] = announced[k]
    BY <2>2, <2>3 DEF Coming
  <2>4. CASE \E i \in DOMAIN wire : Invalidates(wire[i], k, announced[k])
    <3>1. PICK i \in DOMAIN wire : Invalidates(wire[i], k, announced[k])
      BY <2>4
    <3>2. CASE i > n
      BY <2>1, <2>2, <3>1, <3>2 DEF Coming
    <3>3. CASE ~(i > n)
      <4>1. i \in DOMAIN wire' /\ wire'[i] = wire[i]
        BY <1>1, <1>2, <3>1, <3>3
      <4>2. Invalidates(wire'[i], k, announced'[k])
        BY <3>1, <4>1
      <4> QED  BY <4>1, <4>2 DEF Coming, Invalidates
    <3> QED  BY <3>2, <3>3
  <2> QED  BY <2>2, <2>3, <2>4 DEF Coming
<1> QED  BY <1>4, <1>5 DEF OnTheWire

\* What the frame at the front says of k, if anything, is what the tab knows of it then.
LEMMA ReceiveSays ==
    ASSUME TypeInv, Receive, NEW k \in Images
    PROVE  \/ Carries(wire[1], k, refresh'[k])
           \/ refresh'[k] = refresh[k] /\ \A v \in Nat : ~Carries(wire[1], k, v)
<1> DEFINE frame == Head(wire)
<1>1. frame = wire[1]
  BY ReceiveIs, TailIs DEF TypeInv, StreamOK
<1>2. /\ frame \in Frames(last) /\ refresh \in [Images -> Nat]
      /\ \/ frame.event = "snapshot" /\ SetSnapshot(frame)
         \/ frame.event = "update" /\ ApplyUpdate(frame)
         \/ frame.event = "invalidate" /\ ApplyImageInvalidate(frame)
  BY ReceiveIs DEF TypeInv, StreamOK
<1> HIDE DEF frame
<1>3. CASE frame.event = "snapshot" /\ SetSnapshot(frame)
  <2>1. ToSet(frame.inv) \subseteq Images \X Nat
    <3>1. frame.inv \in Seq(Images \X Nat)
      BY <1>2, <1>3 DEF Frames
    <3> QED  BY <3>1, ElementOfSeq, LenProperties DEF ToSet
  <2>2. refresh' = Refreshed(ToSet(frame.inv))
    BY <1>3 DEF SetSnapshot
  <2>3. \/ <<k, refresh'[k]>> \in ToSet(frame.inv)
        \/ refresh'[k] = refresh[k] /\ \A v \in Nat : <<k, v>> \notin ToSet(frame.inv)
    BY <1>2, <2>1, <2>2, RefreshedIs
  <2> QED  BY <1>1, <1>3, <2>3 DEF Carries, Invalidates
<1>4. CASE frame.event = "update" /\ ApplyUpdate(frame)
  BY <1>1, <1>4 DEF ApplyUpdate, Carries, Invalidates
<1>5. CASE frame.event = "invalidate" /\ ApplyImageInvalidate(frame)
  <2> DEFINE pair == <<frame.image, frame.version>>
  <2>1. frame.image \in Images /\ frame.version \in Nat
    BY <1>2, <1>5 DEF Frames
  <2>2. refresh' = Refreshed({pair})
    BY <1>5 DEF ApplyImageInvalidate
  <2>3. \/ <<k, refresh'[k]>> \in {pair}
        \/ refresh'[k] = refresh[k] /\ \A v \in Nat : <<k, v>> \notin {pair}
    <3>1. {pair} \subseteq Images \X Nat
      BY <2>1
    <3> HIDE DEF pair
    <3> QED  BY <1>2, <2>2, <3>1, RefreshedIs
  <2>4. \A v \in Nat : Carries(wire[1], k, v) <=> <<k, v>> \in {pair}
    BY <1>1, <1>5, <2>1 DEF Carries, Invalidates
  <2>5. refresh'[k] \in Nat
    BY ReceiveIs
  <2> HIDE DEF pair
  <2> QED  BY <2>3, <2>4, <2>5
<1> QED  BY <1>2, <1>3, <1>4, <1>5

\* The tab has received the front of the wire.
LEMMA ReceiveOnTheWire ==
    ASSUME TypeInv, Receive, NEW k \in Images, OnTheWire(k)
    PROVE  OnTheWire(k)'
<1>1. /\ UNCHANGED <<announced, page>>
      /\ unseen' = unseen \ {a \in Images : refresh'[a] = announced[a]}
      /\ refresh'[k] \in Nat /\ refresh[k] \in Nat /\ announced[k] \in Nat
  BY ReceiveIs DEF server, view, TypeInv, ServerOK, StreamOK
<1>2. /\ 1 \in DOMAIN wire
      /\ \A i \in DOMAIN wire' : i \in Nat \ {0} /\ i + 1 \in DOMAIN wire /\ wire'[i] = wire[i + 1]
      /\ \A i \in DOMAIN wire : i # 1 => i - 1 \in DOMAIN wire' /\ wire'[i - 1] = wire[i]
  <2>1. wire \in Seq(Frames(last)) /\ wire # <<>> /\ wire' = Tail(wire)
    BY ReceiveIs DEF TypeInv, StreamOK
  <2>2. DOMAIN wire \subseteq Nat
    BY <2>1, LenProperties
  <2>3. /\ 1 \in DOMAIN wire
        /\ \A i \in DOMAIN wire' : i \in Nat \ {0} /\ i + 1 \in DOMAIN wire /\ wire'[i] = wire[i + 1]
        /\ \A i \in DOMAIN wire : i # 1 => i - 1 \in DOMAIN wire'
    BY <2>1, TailIs
  <2>4. ASSUME NEW i \in DOMAIN wire, i # 1 PROVE wire'[i - 1] = wire[i]
    <3>1. i \in Nat /\ i - 1 \in DOMAIN wire' /\ (i - 1) + 1 = i
      BY <2>2, <2>3, <2>4
    <3> QED  BY <2>3, <3>1
  <2> QED  BY <2>3, <2>4
<1>3. \/ Carries(wire[1], k, refresh'[k])
      \/ refresh'[k] = refresh[k] /\ \A v \in Nat : ~Carries(wire[1], k, v)
  BY ReceiveSays
<1>4. refresh[k] <= refresh'[k] /\ refresh'[k] <= announced[k]
  BY <1>1, <1>2, <1>3 DEF OnTheWire, Between
<1>5. Between(k)'
  <2> SUFFICES ASSUME NEW i \in DOMAIN wire', NEW v \in Nat, Carries(wire'[i], k, v)
               PROVE  refresh'[k] <= v /\ v <= announced'[k]
    BY DEF Between, Carries, Invalidates
  <2>1. i + 1 \in DOMAIN wire /\ Carries(wire[i + 1], k, v) /\ 1 < i + 1
    BY <1>2
  <2>2. refresh[k] <= v /\ v <= announced[k]
    BY <2>1 DEF OnTheWire, Between
  <2>3. CASE Carries(wire[1], k, refresh'[k])
    <3>1. refresh'[k] <= v
      BY <1>1, <1>2, <2>1, <2>3 DEF OnTheWire, Sorted
    <3> QED  BY <1>1, <2>2, <3>1
  <2> QED  BY <1>1, <1>3, <2>2, <2>3
<1>6. Sorted(k)'
  <2> SUFFICES ASSUME NEW i \in DOMAIN wire', NEW j \in DOMAIN wire', NEW u \in Nat, NEW v \in Nat,
                      i < j, Carries(wire'[i], k, u), Carries(wire'[j], k, v)
               PROVE  u <= v
    BY DEF Sorted, Carries, Invalidates
  <2>1. i + 1 \in DOMAIN wire /\ j + 1 \in DOMAIN wire /\ i + 1 < j + 1
        /\ Carries(wire[i + 1], k, u) /\ Carries(wire[j + 1], k, v)
    BY <1>2
  <2> QED  BY <2>1 DEF OnTheWire, Sorted
<1>7. ASSUME page' # "gone" PROVE Coming(k)'
  <2>1. Coming(k)
    BY <1>1, <1>7 DEF OnTheWire
  <2>2. CASE refresh'[k] = announced[k]
    BY <1>1, <2>2 DEF Coming
  <2>3. CASE refresh'[k] # announced[k] /\ k \in unseen
    BY <1>1, <2>3 DEF Coming
  <2>4. CASE refresh'[k] # announced[k] /\ k \notin unseen
    <3>1. refresh[k] # announced[k]
      BY <1>1, <1>4, <2>4
    <3>2. PICK i \in DOMAIN wire : Invalidates(wire[i], k, announced[k])
      BY <2>1, <2>4, <3>1 DEF Coming
    <3>3. i # 1
      <4>1. SUFFICES ASSUME i = 1 PROVE FALSE
        OBVIOUS
      <4>2. Invalidates(wire[1], k, announced[k])
        BY <3>2, <4>1
      <4>3. Carries(wire[1], k, refresh'[k])
        BY <1>1, <1>3, <4>2 DEF Carries
      <4>4. refresh'[k] = announced[k]
        BY <4>2, <4>3 DEF Carries, Invalidates
      <4> QED  BY <2>4, <4>4
    <3>4. i - 1 \in DOMAIN wire' /\ Invalidates(wire'[i - 1], k, announced'[k])
      BY <1>1, <1>2, <3>2, <3>3
    <3> QED  BY <3>4 DEF Coming, Invalidates
  <2> QED  BY <2>2, <2>3, <2>4
<1> QED  BY <1>1, <1>4, <1>5, <1>6, <1>7 DEF OnTheWire

\* A frame is pushed that is about the newest announcement of an image, or of none.
LEMMA PushOnTheWire ==
    ASSUME TypeInv, NEW k \in Images, OnTheWire(k), page' # "gone" => page # "gone", UNCHANGED refresh,
           announced'[k] \in Nat, announced[k] <= announced'[k],
           NEW frame \in Frames(last), Push(frame), conn = "open" \/ wire' = wire,
           \A v \in Nat : Carries(frame, k, v) => v = announced'[k],
           \/ announced'[k] = announced[k] /\ unseen' = unseen
           \/ (IF conn = "open" THEN Invalidates(frame, k, announced'[k]) ELSE k \in unseen')
    PROVE  OnTheWire(k)'
<1>1. wire \in Seq(Frames(last)) /\ Len(wire) \in Nat /\ DOMAIN wire = 1..Len(wire)
      /\ announced[k] \in Nat /\ refresh[k] \in Nat
  BY LenProperties DEF TypeInv, ServerOK, StreamOK
<1>2. /\ \A i \in DOMAIN wire : i \in DOMAIN wire' /\ wire'[i] = wire[i]
      /\ \A i \in DOMAIN wire' : i \in DOMAIN wire \/ (wire'[i] = frame /\ i = Len(wire) + 1)
      /\ conn = "open" => Len(wire) + 1 \in DOMAIN wire' /\ wire'[Len(wire) + 1] = frame
  <2>1. CASE conn = "open"
    <3>1. wire' = Append(wire, frame)
      BY <1>1, <2>1, PushIs
    <3>2. /\ Len(wire') = Len(wire) + 1 /\ wire' \in Seq(Frames(last))
          /\ \A i \in 1..Len(wire) : wire'[i] = wire[i]
          /\ wire'[Len(wire) + 1] = frame
      <4> DEFINE new == Append(wire, frame)
      <4>1. /\ Len(new) = Len(wire) + 1 /\ new \in Seq(Frames(last))
            /\ \A i \in 1..Len(wire) : new[i] = wire[i]
            /\ new[Len(wire) + 1] = frame
        BY <1>1, AppendProperties
      <4>2. wire' = new
        BY <3>1
      <4> HIDE DEF new
      <4> QED  BY <4>1, <4>2
    <3>3. DOMAIN wire' = 1..(Len(wire) + 1)
      BY <3>2, LenProperties
    <3> QED  BY <1>1, <3>2, <3>3
  <2>2. CASE conn # "open"
    <3>1. wire' = wire
      BY <1>1, <2>2, PushIs
    <3> QED  BY <2>2, <3>1
  <2> QED  BY <2>1, <2>2
<1>3. refresh'[k] <= announced'[k]
  BY <1>1 DEF OnTheWire
<1>4. Between(k)'
  <2> SUFFICES ASSUME NEW i \in DOMAIN wire', NEW v \in Nat, Carries(wire'[i], k, v)
               PROVE  refresh'[k] <= v /\ v <= announced'[k]
    BY DEF Between, Carries, Invalidates
  <2>1. CASE i \in DOMAIN wire
    <3>1. refresh[k] <= v /\ v <= announced[k]
      BY <1>2, <2>1 DEF OnTheWire, Between
    <3> QED  BY <1>1, <3>1
  <2>2. CASE i \notin DOMAIN wire
    <3>1. v = announced'[k]
      BY <1>2, <2>2
    <3> QED  BY <1>3, <3>1
  <2> QED  BY <2>1, <2>2
<1>5. Sorted(k)'
  <2> SUFFICES ASSUME NEW i \in DOMAIN wire', NEW j \in DOMAIN wire', NEW u \in Nat, NEW v \in Nat,
                      i < j, Carries(wire'[i], k, u), Carries(wire'[j], k, v)
               PROVE  u <= v
    BY DEF Sorted, Carries, Invalidates
  <2>1. CASE j \in DOMAIN wire
    <3>1. i \in DOMAIN wire
      BY <1>1, <1>2, <2>1
    <3>2. Carries(wire[i], k, u) /\ Carries(wire[j], k, v)
      BY <1>2, <2>1, <3>1
    <3> QED  BY <2>1, <3>1, <3>2 DEF OnTheWire, Sorted
  <2>2. CASE j \notin DOMAIN wire
    <3>1. v = announced'[k]
      BY <1>2, <2>2
    <3>2. i \in DOMAIN wire
      BY <1>1, <1>2, <2>2
    <3>3. u <= announced[k]
      <4>1. Carries(wire[i], k, u)
        BY <1>2, <3>2
      <4> QED  BY <3>2, <4>1 DEF OnTheWire, Between
    <3> QED  BY <1>1, <3>1, <3>3
  <2> QED  BY <2>1, <2>2
<1>6. ASSUME page' # "gone" PROVE Coming(k)'
  <2>1. Coming(k)
    BY <1>6 DEF OnTheWire
  <2>2. CASE announced'[k] = announced[k] /\ unseen' = unseen
    <3>1. CASE k \in unseen \/ refresh[k] = announced[k]
      BY <2>2, <3>1 DEF Coming
    <3>2. CASE \E i \in DOMAIN wire : Invalidates(wire[i], k, announced[k])
      <4>1. PICK i \in DOMAIN wire : Invalidates(wire[i], k, announced[k])
        BY <3>2
      <4>2. i \in DOMAIN wire' /\ Invalidates(wire'[i], k, announced'[k])
        BY <1>2, <2>2, <4>1
      <4> QED  BY <4>2 DEF Coming, Invalidates
    <3> QED  BY <2>1, <3>1, <3>2 DEF Coming
  <2>3. CASE conn = "open" /\ Invalidates(frame, k, announced'[k])
    <3>1. Len(wire) + 1 \in DOMAIN wire' /\ Invalidates(wire'[Len(wire) + 1], k, announced'[k])
      BY <1>2, <2>3
    <3> QED  BY <3>1 DEF Coming, Invalidates
  <2>4. CASE k \in unseen'
    BY <2>4 DEF Coming
  <2> QED  BY <2>2, <2>3, <2>4
<1> QED  BY <1>3, <1>4, <1>5, <1>6 DEF OnTheWire

\* The case of a step that leaves the wire alone.
LEMMA SameWire ==
    ASSUME UNCHANGED <<announced, refresh, unseen, wire>>, NEW k \in Images, OnTheWire(k), page' # "gone" => page # "gone"
    PROVE  OnTheWire(k)'
BY DEF OnTheWire, Between, Sorted, Coming

\* What is known, or on its way, stays so.
LEMMA OnTheWireStep ==
    ASSUME TypeInv, [Next]_vars, NEW k \in Images, OnTheWire(k)
    PROVE  OnTheWire(k)'
<1>0. page' # "gone" => page # "gone"
  BY GoneForGood
<1>1. wire \in Seq(Frames(last)) /\ Len(wire) \in Nat /\ DOMAIN wire = 1..Len(wire)
      /\ announced[k] \in Nat /\ refresh[k] \in Nat
  BY LenProperties DEF TypeInv, ServerOK, StreamOK
<1>2. CASE Aside \/ StoreRow \/ OpenStream \/ StreamSubscribes
  <2>1. UNCHANGED <<announced, refresh, unseen, wire>>
    BY <1>2, AsideIs DEF StoreRow, OpenStream, StreamSubscribes, server
  <2> QED  BY <1>0, <2>1, SameWire
<1>3. CASE Broadcast
  <2> DEFINE frame == [event |-> "update", version |-> last]
  <2>1. Push(frame) /\ UNCHANGED <<announced, refresh, unseen>>
    BY <1>3 DEF Broadcast
  <2>2. frame \in Frames(last) /\ \A v \in Nat : ~Carries(frame, k, v)
    BY DEF Frames, Carries, Invalidates, TypeInv, ServerOK
  <2> HIDE DEF frame
  <2>3. conn = "open" \/ wire' = wire
    BY <2>1 DEF Push
  <2> QED  BY <1>0, <1>1, <2>1, <2>2, <2>3, PushOnTheWire
<1>4. ASSUME NEW a \in Images, Announce(a) PROVE OnTheWire(k)'
  <2> DEFINE frame == [event |-> "invalidate", image |-> a, version |-> announced'[a]]
  <2>1. /\ announced' \in [Images -> Nat] /\ announced'[a] = announced[a] + 1
        /\ \A b \in Images \ {a} : announced'[b] = announced[b]
        /\ Push(frame) /\ UNCHANGED refresh
        /\ unseen' = IF conn = "open" THEN unseen ELSE unseen \cup {a}
    BY <1>4, AnnounceIs
  <2>2. frame \in Frames(last)
    BY <2>1 DEF Frames
  <2>3. \A v \in Nat : Carries(frame, k, v) => v = announced'[k]
    BY DEF Carries, Invalidates
  <2>4. a = k => Invalidates(frame, k, announced'[k])
    BY DEF Invalidates
  <2> HIDE DEF frame
  <2>5. conn = "open" \/ wire' = wire
    BY <2>1 DEF Push
  <2>6. announced'[k] \in Nat /\ announced[k] <= announced'[k]
    BY <1>1, <2>1
  <2>7. CASE a = k
    <3>1. IF conn = "open" THEN Invalidates(frame, k, announced'[k]) ELSE k \in unseen'
      BY <2>1, <2>4, <2>7
    <3> QED  BY <1>0, <2>1, <2>2, <2>3, <2>5, <2>6, <3>1, PushOnTheWire
  <2>8. CASE a # k /\ conn = "open"
    <3>1. announced'[k] = announced[k] /\ unseen' = unseen
      BY <2>1, <2>8
    <3> QED  BY <1>0, <2>1, <2>2, <2>3, <2>5, <2>6, <3>1, PushOnTheWire
  <2>9. CASE a # k /\ conn # "open"
    <3>1. announced'[k] = announced[k] /\ wire' = wire /\ unseen \subseteq unseen' /\ refresh' = refresh
      BY <2>1, <2>5, <2>9
    <3> QED  BY <1>0, <3>1 DEF OnTheWire, Between, Sorted, Coming
  <2> QED  BY <2>7, <2>8, <2>9
<1>5. CASE ApiSnapshot \/ StreamConnects
  <2>1. /\ wire = <<>> /\ (wire' = wire \/ wire' = <<SnapshotFrame>>)
        /\ UNCHANGED <<announced, refresh, unseen>>
    BY <1>5 DEF ApiSnapshot, StreamConnects, server, TypeInv, StreamOK
  <2>2. CASE wire' = wire
    BY <1>0, <2>1, <2>2, SameWire
  <2>3. CASE wire' = <<SnapshotFrame>>
    <3>1. \A v \in Nat : Carries(SnapshotFrame, k, v) => v = announced[k]
      BY SnapshotFrameIs DEF Carries, Invalidates, TypeInv
    <3>2. DOMAIN wire' = {1} /\ wire'[1] = SnapshotFrame
      <4> DEFINE frame == SnapshotFrame
      <4> HIDE DEF frame
      <4>1. wire' = <<frame>>
        BY <2>3 DEF frame
      <4>2. DOMAIN wire' = {1} /\ wire'[1] = frame
        BY <4>1
      <4> QED  BY <4>2 DEF frame
    <3>3. \A i \in DOMAIN wire', v \in Nat : Carries(wire'[i], k, v) => v = announced[k]
      BY <3>1, <3>2
    <3>4. Between(k)'
      <4> SUFFICES ASSUME NEW i \in DOMAIN wire', NEW v \in Nat, Carries(wire'[i], k, v)
                   PROVE  refresh'[k] <= v /\ v <= announced'[k]
        BY DEF Between, Carries, Invalidates
      <4> QED  BY <1>1, <2>1, <3>3 DEF OnTheWire
    <3>5. Sorted(k)'
      <4> SUFFICES ASSUME NEW i \in DOMAIN wire', NEW j \in DOMAIN wire', i < j PROVE FALSE
        BY DEF Sorted
      <4> QED  BY <3>2
    <3>6. ASSUME page' # "gone" PROVE Coming(k)'
      <4>1. DOMAIN wire = {}
        BY <1>1, <2>1, EmptySeq
      <4> QED  BY <1>0, <2>1, <3>6, <4>1 DEF OnTheWire, Coming
    <3> QED  BY <2>1, <3>4, <3>5, <3>6 DEF OnTheWire
  <2> QED  BY <2>1, <2>2, <2>3
<1>6. CASE Receive
  BY <1>6, ReceiveOnTheWire
<1>7. CASE StreamBreaks
  <2>1. PICK n \in 0..Len(wire) : /\ wire' = SubSeq(wire, 1, n)
                                  /\ unseen' = unseen \cup InvalidatesIn(SubSeq(wire, n + 1, Len(wire)))
    BY <1>7 DEF StreamBreaks
  <2>2. UNCHANGED <<announced, refresh>>
    BY <1>7 DEF StreamBreaks, server
  <2> QED  BY <1>0, <2>1, <2>2, FramesLost
<1>8. ASSUME wire' = <<>>, UNCHANGED <<announced, refresh>>, page' # "gone" => unseen' = unseen \cup InvalidatesIn(wire)
      PROVE  OnTheWire(k)'
  <2>1. 0 \in 0..Len(wire) /\ wire' = SubSeq(wire, 1, 0)
    BY <1>1, <1>8, SubSeqEmpty
  <2>2. SubSeq(wire, 0 + 1, Len(wire)) = wire
    BY <1>1, SubSeqFull
  <2> QED  BY <1>0, <1>8, <2>1, <2>2, FramesLost
<1>9. CASE ServerRestarts
  <2>1. CASE conn \in {"gap", "open"}
    <3>1. wire' = <<>> /\ UNCHANGED <<announced, refresh>> /\ unseen' = unseen \cup InvalidatesIn(wire)
      BY <1>9, <2>1 DEF ServerRestarts
    <3> QED  BY <1>8, <3>1
  <2>2. CASE conn \notin {"gap", "open"}
    <3>1. UNCHANGED <<announced, refresh, unseen, wire>>
      BY <1>9, <2>2 DEF ServerRestarts
    <3> QED  BY <1>0, <3>1, SameWire
  <2> QED  BY <2>1, <2>2
<1>10. CASE Unmount
  <2>1. page' = "gone" /\ UNCHANGED <<announced, refresh, unseen>> /\ (wire' = wire \/ wire' = <<>>)
    BY <1>10 DEF Unmount, server
  <2>2. CASE wire' = wire
    BY <1>0, <2>1, <2>2, SameWire
  <2>3. CASE wire' = <<>>
    BY <1>8, <2>1, <2>3
  <2> QED  BY <2>1, <2>2, <2>3
<1> QED  BY <1>2, <1>3, <1>4, <1>5, <1>6, <1>7, <1>9, <1>10, Steps

\* No step takes an announcement back.
LEMMA AnnouncedGrows ==
    ASSUME TypeInv, [Next]_vars, NEW k \in Images
    PROVE  announced[k] \in Nat /\ announced'[k] \in Nat /\ announced[k] <= announced'[k]
<1>1. announced \in [Images -> Nat] /\ announced' \in [Images -> Nat]
  BY TypeStep DEF TypeInv, ServerOK
<1>2. CASE Aside
  BY <1>1, <1>2, AsideIs
<1>3. ASSUME NEW a \in Images, Announce(a) PROVE announced[k] <= announced'[k]
  <2>1. announced'[a] = announced[a] + 1 /\ \A b \in Images \ {a} : announced'[b] = announced[b]
    BY <1>3, AnnounceIs
  <2> QED  BY <1>1, <2>1
<1>4. CASE StoreRow \/ Broadcast \/ ServerRestarts \/ StreamBreaks \/ Unmount
           \/ ApiSnapshot \/ OpenStream \/ StreamConnects \/ StreamSubscribes
  <2>1. UNCHANGED announced
    BY <1>4 DEF StoreRow, Broadcast, ServerRestarts, StreamBreaks, Unmount, ApiSnapshot, OpenStream, StreamConnects,
                StreamSubscribes, server
  <2> QED  BY <1>1, <2>1
<1>5. CASE Receive
  BY <1>1, <1>5, ReceiveIs DEF server
<1> QED  BY <1>1, <1>2, <1>3, <1>4, <1>5, Steps

\* An <img> stays, is mounted anew, or goes with its page.
LEMMA ImgSteps ==
    ASSUME [Next]_vars, DOMAIN img = Images
    PROVE  /\ DOMAIN img' = Images
           /\ \A k \in Images : \/ img'[k] = img[k]
                                \/ img'[k].from # "server"
                                \/ img'[k].key = refresh[k] /\ img'[k].shown = announced[k]
<1>1. NoImg.from # "server"
  BY DEF NoImg
<1>2. ASSUME NEW a \in Images, NEW shown, NEW from, img' = Load(a, shown, from),
             from # "server" \/ shown = announced[a]
      PROVE  /\ DOMAIN img' = Images
             /\ \A k \in Images : \/ img'[k] = img[k]
                                  \/ img'[k].from # "server"
                                  \/ img'[k].key = refresh[k] /\ img'[k].shown = announced[k]
  <2> DEFINE new == [key |-> refresh[a], shown |-> shown, from |-> from]
  <2>1. img' = [img EXCEPT ![a] = new]
    BY <1>2 DEF Load
  <2>2. new.from = from /\ new.key = refresh[a] /\ new.shown = shown
    OBVIOUS
  <2> HIDE DEF new
  <2>3. DOMAIN img' = Images /\ img'[a] = new /\ \A k \in Images \ {a} : img'[k] = img[k]
    BY <2>1
  <2> QED  BY <1>2, <2>2, <2>3
<1>3. CASE \E a \in Images : ImageFromCache(a)
  <2>1. PICK a \in Images : ImageFromCache(a)
    BY <1>3
  <2>2. img' = Load(a, http[a], "cache")
    BY <2>1 DEF ImageFromCache
  <2> QED  BY <1>2, <2>2
<1>4. CASE \E a \in Images : ImageFromServer(a)
  <2>1. PICK a \in Images : ImageFromServer(a)
    BY <1>4
  <2>2. img' = Load(a, announced[a], "server") \/ img' = Load(a, 0, "error")
    BY <2>1 DEF ImageFromServer
  <2> QED  BY <1>2, <2>2
<1>5. CASE Unmount \/ (\E to \in tab.pages : Navigate(to))
  <2>1. img' = [k \in Images |-> NoImg]
    BY <1>5 DEF Unmount, Navigate
  <2> QED  BY <1>1, <2>1
<1>6. CASE UNCHANGED img
  BY <1>6
<1>7. \/ (\E a \in Images : ImageFromCache(a)) \/ (\E a \in Images : ImageFromServer(a))
      \/ (Unmount \/ (\E to \in tab.pages : Navigate(to))) \/ UNCHANGED img
  <2>1. CASE Chart
    BY <2>1 DEF Chart, Effect, DebounceOver, FetchFromCache, FetchFromServer, Settle, chartFrame
  <2>2. ASSUME NEW k \in Images, Announce(k) PROVE UNCHANGED img
    <3>1. UNCHANGED view
      BY <2>2, Zenon DEF Announce
    <3> QED  BY <3>1 DEF view
  <2>3. CASE StoreRow \/ Broadcast \/ ServerRestarts \/ StreamBreaks
             \/ ApiSnapshot \/ OpenStream \/ StreamConnects \/ StreamSubscribes \/ Receive
    BY <2>3 DEF StoreRow, Broadcast, ServerRestarts, StreamBreaks, ApiSnapshot, OpenStream, StreamConnects,
                StreamSubscribes, Receive, view
  <2>4. CASE (\E url \in Windows \cup Images : Expire(url)) \/ (\E w \in Windows : SetWindow(w)) \/ UNCHANGED vars
    BY <2>4 DEF Expire, SetWindow, vars, view
  <2> QED  BY <2>1, <2>2, <2>3, <2>4, Steps DEF Aside
<1> QED  BY <1>3, <1>4, <1>5, <1>6, <1>7

\* The images keep their invariant.
LEMMA ImagesAlways == Spec => []ImagesInv
<1>1. Init => ImagesInv
  <2> SUFFICES ASSUME Init PROVE ImagesInv
    OBVIOUS
  <2>1. /\ img = [k \in Images |-> NoImg] /\ announced = [k \in Images |-> 0] /\ refresh = [k \in Images |-> 0]
        /\ wire = <<>>
    BY DEF Init
  <2>2. NoImg.from # "server"
    BY DEF NoImg
  <2>3. DOMAIN wire = {}
    BY <2>1
  <2> QED  BY <2>1, <2>2, <2>3 DEF ImagesInv, OnTheWire, Between, Sorted, Coming, Shows
<1>2. TypeInv /\ ImagesInv /\ [Next]_vars => ImagesInv'
  <2> SUFFICES ASSUME TypeInv, ImagesInv, [Next]_vars PROVE ImagesInv'
    OBVIOUS
  <2>1. ASSUME NEW k \in Images PROVE OnTheWire(k)' /\ Shows(k)'
    <3>1. OnTheWire(k) /\ Shows(k)
      BY DEF ImagesInv
    <3>2. OnTheWire(k)'
      BY <3>1, OnTheWireStep
    <3>3. announced[k] \in Nat /\ announced'[k] \in Nat /\ announced[k] <= announced'[k] /\ refresh[k] \in Nat
      BY AnnouncedGrows DEF TypeInv, StreamOK
    <3>4. \/ img'[k] = img[k]
          \/ img'[k].from # "server"
          \/ img'[k].key = refresh[k] /\ img'[k].shown = announced[k]
      BY ImgSteps DEF ImagesInv
    <3>5. refresh[k] <= announced[k]
      BY <3>1 DEF OnTheWire
    <3>6. Shows(k)'
      BY <3>1, <3>3, <3>4, <3>5 DEF Shows
    <3> QED  BY <3>2, <3>6
  <2>2. DOMAIN img' = Images
    BY ImgSteps DEF ImagesInv
  <2> QED  BY <2>1, <2>2 DEF ImagesInv
<1> QED  BY <1>1, <1>2, TypesAlways, PTL DEF Spec

\* On a live and drained stream an image is the one last announced, unless its
\* load failed, the browser's cache answered, or the announcement was lost in a
\* gap of the stream (applyImageInvalidate, the key of the <img>).
THEOREM ImagesAreNewest == Spec => []ImageOldOnlyByCacheOrGap
<1>1. TypeInv /\ ImagesInv => ImageOldOnlyByCacheOrGap
  <2> SUFFICES ASSUME TypeInv, ImagesInv, page = "hazards", wire = <<>>, NEW k \in Images,
                      ~Remount(k), k \notin unseen, img[k].from = "server"
               PROVE  img[k].shown = announced[k]
    BY DEF ImageOldOnlyByCacheOrGap
  <2>1. OnTheWire(k) /\ Shows(k)
    BY DEF ImagesInv
  <2>2. DOMAIN wire = {}
    OBVIOUS
  <2>3. refresh[k] = announced[k]
    BY <2>1, <2>2 DEF OnTheWire, Coming
  <2>4. img[k].key = refresh[k]
    BY DEF Remount
  <2>5. announced[k] \in Nat
    BY DEF TypeInv, ServerOK
  <2> QED  BY <2>1, <2>3, <2>4, <2>5 DEF Shows
<1> QED  BY <1>1, TypesAlways, ImagesAlways, PTL

---------------------------------------------------------------------------
(* The stream.                                                             *)

Ended == {"fetching", "answered", "closed"}
StreamInv ==
    /\ conn \in Ended \cup {"connecting", "gap", "open"} /\ tab \in Tabs
    /\ page = "gone" => conn \in Ended

\* An app that is unmounted leaves no EventSource open, whenever the snapshot it
\* waits for arrives (connect and its cleanup).
THEOREM StreamsEnd == Spec => []NoStreamLeaks
<1>1. Init => StreamInv
  BY DEF Init, StreamInv, Ended
<1>2. StreamInv /\ [Next]_vars => StreamInv'
  <2> SUFFICES ASSUME StreamInv, [Next]_vars PROVE StreamInv'
    OBVIOUS
  <2>1. UNCHANGED tab /\ (UNCHANGED page \/ Unmount \/ \E to \in tab.pages : Navigate(to))
    BY PageSteps
  <2>2. CASE Unmount
    BY <2>1, <2>2 DEF Unmount, StreamInv, Ended
  <2>3. CASE \E to \in tab.pages : Navigate(to)
    <3>1. page' # "gone" /\ UNCHANGED conn
      BY <2>3, ClientAssumption DEF Navigate, StreamInv
    <3> QED  BY <2>1, <3>1 DEF StreamInv
  <2>4. CASE UNCHANGED page /\ (Aside \/ Receive)
    <3>1. UNCHANGED conn
      BY <2>4, AsideIs DEF Receive
    <3> QED  BY <2>1, <2>4, <3>1 DEF StreamInv
  <2>5. CASE UNCHANGED page /\ (StoreRow \/ Broadcast)
    <3>1. UNCHANGED conn
      BY <2>5 DEF StoreRow, Broadcast
    <3> QED  BY <2>1, <2>5, <3>1 DEF StreamInv
  <2>6. ASSUME UNCHANGED page, NEW k \in Images, Announce(k) PROVE StreamInv'
    <3>1. UNCHANGED conn
      BY <2>6, Zenon DEF Announce
    <3> QED  BY <2>1, <2>6, <3>1 DEF StreamInv
  <2>7. CASE UNCHANGED page /\ (ServerRestarts \/ StreamBreaks \/ ApiSnapshot \/ OpenStream \/ StreamConnects \/ StreamSubscribes)
    BY <2>1, <2>7 DEF ServerRestarts, StreamBreaks, ApiSnapshot, OpenStream, StreamConnects, StreamSubscribes, StreamInv, Ended
  <2> QED  BY <2>1, <2>2, <2>3, <2>4, <2>5, <2>6, <2>7, Steps
<1>3. StreamInv => NoStreamLeaks
  BY DEF StreamInv, Ended, NoStreamLeaks
<1> QED  BY <1>1, <1>2, <1>3, PTL DEF Spec

---------------------------------------------------------------------------
(* The chart.                                                              *)

RowFields == {"ran", "timer", "fetch", "resp", "loading", "err"}

\* The answer is the browser's cache's, or has every stored row of the versions
\* the chart was asked to show.
Covers(answer) == answer.from = "cache" \/ stored \cap 1..row.ran.version \subseteq answer.rows

(* A request is for what the chart was last asked to show, and the chart is  *)
(* not at rest while one runs: the cleanup of the effect takes both back.    *)
RowOK ==
    /\ DOMAIN row = RowFields
    /\ row.loading \in BOOLEAN /\ row.timer \in BOOLEAN /\ row.err \in BOOLEAN
    /\ row.ran = <<>> => row.loading = TRUE /\ row.fetch = <<>> /\ row.timer = FALSE
    /\ row.ran # <<>> => row.ran.version \in 0..last
FetchOK ==
    row.fetch # <<>> =>
        /\ row.loading = TRUE /\ row.timer = FALSE /\ row.ran # <<>>
        /\ DOMAIN row.fetch = {1} /\ DOMAIN row.fetch[1] = {"window", "answer"}
        /\ row.fetch[1].window = row.ran.window
        /\ row.fetch[1].answer # <<>> /\ row.fetch[1].answer[1].ok = TRUE => Covers(row.fetch[1].answer[1])
RespOK ==
    row.loading = FALSE /\ row.timer = FALSE /\ row.err = FALSE =>
        row.resp # <<>> /\ row.resp[1].window = row.ran.window /\ Covers(row.resp[1])
ChartInv == RowOK /\ FetchOK /\ RespOK

\* run starts a request for the window of its closure.
LEMMA RunningIs ==
    ASSUME NEW r, DOMAIN r = RowFields
    PROVE  LET new == Running(r) IN
           /\ DOMAIN new = RowFields /\ new.ran = r.ran /\ new.resp = r.resp
           /\ new.timer = FALSE /\ new.loading = TRUE /\ new.err = FALSE
           /\ new.fetch # <<>> /\ DOMAIN new.fetch = {1} /\ DOMAIN new.fetch[1] = {"window", "answer"}
           /\ new.fetch[1].window = r.ran.window /\ new.fetch[1].answer = <<>>
<1> DEFINE request == [window |-> r.ran.window, answer |-> <<>>]
           sent == <<request>>
<1>1. request.window = r.ran.window /\ request.answer = <<>> /\ DOMAIN request = {"window", "answer"}
  OBVIOUS
<1> HIDE DEF request
<1>2. sent # <<>> /\ DOMAIN sent = {1} /\ sent[1] = request
  OBVIOUS
<1>3. Running(r) = [r EXCEPT !.timer = FALSE, !.fetch = sent, !.loading = TRUE, !.err = FALSE]
  BY DEF Running, request
<1> HIDE DEF sent
<1> QED  BY <1>1, <1>2, <1>3 DEF RowFields

\* A chart that runs its request satisfies the invariant, whatever it showed.
LEMMA RunningOK ==
    ASSUME NEW r, DOMAIN r = RowFields, r.ran # <<>>, r.ran.version \in 0..last', row' = Running(r)
    PROVE  ChartInv'
<1>1. /\ DOMAIN row' = RowFields /\ row'.ran = r.ran
      /\ row'.timer = FALSE /\ row'.loading = TRUE /\ row'.err = FALSE
      /\ row'.fetch # <<>> /\ DOMAIN row'.fetch = {1} /\ DOMAIN row'.fetch[1] = {"window", "answer"}
      /\ row'.fetch[1].window = r.ran.window /\ row'.fetch[1].answer = <<>>
  BY RunningIs
<1>2. RowOK'
  BY <1>1 DEF RowOK
<1>3. FetchOK'
  BY <1>1 DEF FetchOK
<1>4. RespOK'
  BY <1>1 DEF RespOK
<1> QED  BY <1>2, <1>3, <1>4 DEF ChartInv

\* An effect asks for the window and the version of its render.
LEMMA EffectOK ==
    ASSUME TypeInv, ChartInv, Effect
    PROVE  ChartInv'
<1> DEFINE cleaned == [row EXCEPT !.ran = Deps, !.timer = FALSE, !.fetch = <<>>]
           waiting == [cleaned EXCEPT !.timer = TRUE]
<1>1. DOMAIN row = RowFields /\ row.loading \in BOOLEAN /\ row.err \in BOOLEAN
  BY DEF ChartInv, RowOK
<1>2. Deps # <<>> /\ Deps.version = snapshot
  <2>1. Deps = [window |-> window, version |-> snapshot]
    BY DEF Deps
  <2>2. "version" \in DOMAIN Deps
    BY <2>1
  <2>3. DOMAIN <<>> = {}
    OBVIOUS
  <2> QED  BY <2>1, <2>2, <2>3
<1>3. snapshot \in 0..last /\ last' = last
  BY DEF TypeInv, StreamOK, Effect, chartFrame, server
<1>4. /\ DOMAIN cleaned = RowFields /\ cleaned.ran = Deps /\ cleaned.fetch = <<>>
      /\ cleaned.loading = row.loading /\ cleaned.err = row.err
  BY <1>1 DEF RowFields
<1>5. row' = Running(cleaned) \/ row' = waiting
  BY DEF Effect
<1> HIDE DEF cleaned
<1>6. CASE row' = Running(cleaned)
  BY <1>2, <1>3, <1>4, <1>6, RunningOK
<1>7. CASE row' = waiting
  <2>1. /\ DOMAIN row' = RowFields /\ row'.ran = Deps /\ row'.fetch = <<>> /\ row'.timer = TRUE
        /\ row'.loading = row.loading /\ row'.err = row.err
    BY <1>4, <1>7 DEF RowFields
  <2>2. RowOK'
    BY <1>1, <1>2, <1>3, <2>1 DEF RowOK
  <2>3. FetchOK' /\ RespOK'
    BY <2>1 DEF FetchOK, RespOK
  <2> QED  BY <2>2, <2>3 DEF ChartInv
<1> QED  BY <1>5, <1>6, <1>7

\* A request is answered with the rows of that moment, or with older ones by the
\* browser's cache.
LEMMA AnswerOK ==
    ASSUME ChartInv, NEW answer, Asked, Answer(answer), UNCHANGED <<stored, last>>,
           answer.ok = TRUE => answer.from = "cache" \/ answer.rows = stored
    PROVE  ChartInv'
<1>1. /\ DOMAIN row = RowFields /\ row.fetch # <<>> /\ row.loading = TRUE /\ row.timer = FALSE /\ row.ran # <<>>
      /\ DOMAIN row.fetch = {1} /\ DOMAIN row.fetch[1] = {"window", "answer"}
      /\ row.fetch[1].window = row.ran.window
      /\ row.ran.version \in 0..last /\ row.err \in BOOLEAN
  BY DEF Asked, ChartInv, RowOK, FetchOK
<1> DEFINE box == <<answer>>
           request == [row.fetch[1] EXCEPT !.answer = box]
           sent == [row.fetch EXCEPT ![1] = request]
<1>2. row' = [row EXCEPT !.fetch = sent]
  BY DEF Answer
<1>3. box[1] = answer
  OBVIOUS
<1> HIDE DEF box
<1>4. request.window = row.ran.window /\ request.answer = box /\ DOMAIN request = {"window", "answer"}
  BY <1>1
<1> HIDE DEF request
<1>5. DOMAIN sent = {1} /\ sent[1] = request
  BY <1>1
<1> HIDE DEF sent
<1>6. /\ DOMAIN row' = RowFields /\ row'.ran = row.ran /\ row'.fetch = sent
      /\ row'.loading = TRUE /\ row'.timer = FALSE /\ row'.err = row.err
  BY <1>1, <1>2 DEF RowFields
<1>7. answer.ok = TRUE => Covers(answer)'
  <2>1. Covers(answer)' <=> answer.from = "cache" \/ stored' \cap 1..row'.ran.version \subseteq answer.rows
    BY DEF Covers
  <2> QED  BY <1>6, <2>1
<1>8. RowOK'
  BY <1>1, <1>6 DEF RowOK
<1>9. FetchOK'
  <2>1. row'.fetch[1].answer[1] = answer /\ row'.fetch[1].window = row'.ran.window /\ DOMAIN row'.fetch = {1}
        /\ DOMAIN row'.fetch[1] = {"window", "answer"}
    BY <1>3, <1>4, <1>5, <1>6
  <2> QED  BY <1>1, <1>6, <1>7, <2>1 DEF FetchOK, Covers
<1>10. RespOK'
  BY <1>6 DEF RespOK
<1> QED  BY <1>8, <1>9, <1>10 DEF ChartInv

\* The answer is shown, or its failure is.
LEMMA SettleOK ==
    ASSUME ChartInv, Settle
    PROVE  ChartInv'
<1>1. /\ DOMAIN row = RowFields /\ row.loading = TRUE /\ row.timer = FALSE /\ row.ran # <<>>
      /\ row.fetch[1].window = row.ran.window
      /\ row.fetch[1].answer[1].ok = TRUE => Covers(row.fetch[1].answer[1])
      /\ row.ran.version \in 0..last /\ row.err \in BOOLEAN
  BY DEF Settle, ChartInv, RowOK, FetchOK
<1>2. UNCHANGED <<stored, last>>
  BY DEF Settle, chartFrame, server
<1> DEFINE answer == row.fetch[1].answer[1]
           done == [row EXCEPT !.fetch = <<>>, !.loading = FALSE]
           shown == [window |-> row.fetch[1].window, rows |-> answer.rows, from |-> answer.from]
           box == <<shown>>
<1>3. /\ answer.ok => row' = [done EXCEPT !.resp = box]
      /\ ~answer.ok => row' = [done EXCEPT !.err = TRUE]
  BY DEF Settle
<1>4. shown.window = row.ran.window /\ shown.rows = answer.rows /\ shown.from = answer.from
  BY <1>1
<1> HIDE DEF shown
<1>5. box # <<>> /\ box[1] = shown
  OBVIOUS
<1> HIDE DEF box, answer
<1>6. /\ DOMAIN done = RowFields /\ done.fetch = <<>> /\ done.loading = FALSE
      /\ done.ran = row.ran /\ done.timer = row.timer /\ done.err = row.err
  BY <1>1 DEF RowFields
<1> HIDE DEF done
<1>7. /\ DOMAIN row' = RowFields /\ row'.fetch = <<>> /\ row'.loading = FALSE
      /\ row'.ran = row.ran /\ row'.timer = FALSE /\ row'.err \in BOOLEAN
      /\ row'.err = TRUE \/ (answer.ok = TRUE /\ row'.resp = box)
  <2>1. CASE answer.ok
    BY <1>1, <1>3, <1>6, <2>1 DEF RowFields
  <2>2. CASE ~answer.ok
    BY <1>1, <1>3, <1>6, <2>2 DEF RowFields
  <2> QED  BY <2>1, <2>2
<1>8. RowOK'
  BY <1>1, <1>2, <1>7 DEF RowOK
<1>9. FetchOK'
  BY <1>7 DEF FetchOK
<1>10. RespOK'
  <2> SUFFICES ASSUME row'.err = FALSE
               PROVE  row'.resp # <<>> /\ row'.resp[1].window = row'.ran.window /\ Covers(row.resp[1])'
    BY DEF RespOK
  <2>1. answer.ok = TRUE /\ row'.resp = box
    BY <1>7
  <2>2. Covers(answer)
    BY <1>1, <2>1 DEF answer
  <2>3. shown.from = "cache" \/ stored' \cap 1..row'.ran.version \subseteq shown.rows
    BY <1>2, <1>4, <1>7, <2>2 DEF Covers
  <2> QED  BY <1>4, <1>5, <1>7, <2>1, <2>3 DEF Covers
<1> QED  BY <1>8, <1>9, <1>10 DEF ChartInv

\* A page that is left takes its chart with it.
LEMMA NoRowOK ==
    ASSUME row' = NoRow
    PROVE  ChartInv'
<1>1. /\ DOMAIN row' = RowFields /\ row'.ran = <<>> /\ row'.timer = FALSE /\ row'.fetch = <<>>
      /\ row'.loading = TRUE /\ row'.err = FALSE
  BY DEF NoRow, RowFields
<1> QED  BY <1>1 DEF ChartInv, RowOK, FetchOK, RespOK

\* What else there is leaves the chart alone, and stores at most a version that is
\* newer than all it was asked to show.
LEMMA OtherRowSteps ==
    ASSUME TypeInv, [Next]_vars
    PROVE  \/ Chart
           \/ row' = NoRow
           \/ UNCHANGED row /\ last' \in Nat /\ last <= last' /\ stored' \cap 1..last \subseteq stored
<1>1. last \in Nat
  BY DEF TypeInv, ServerOK
<1>2. CASE Unmount \/ \E to \in tab.pages : Navigate(to)
  BY <1>2 DEF Unmount, Navigate
<1>3. CASE StoreRow
  <2>1. last' = last + 1 /\ stored' \in {stored, stored \cup {last + 1}} /\ UNCHANGED row
    BY <1>3 DEF StoreRow, view
  <2> QED  BY <1>1, <2>1
<1>4. ASSUME NEW k \in Images, Announce(k) PROVE UNCHANGED <<row, stored, last>>
  <2>1. UNCHANGED view /\ UNCHANGED <<stored, last>>
    BY <1>4, Zenon DEF Announce
  <2> QED  BY <2>1 DEF view
<1>5. CASE Broadcast \/ ServerRestarts \/ StreamBreaks
           \/ ApiSnapshot \/ OpenStream \/ StreamConnects \/ StreamSubscribes \/ Receive
  BY <1>1, <1>5 DEF Broadcast, ServerRestarts, StreamBreaks, ApiSnapshot, OpenStream, StreamConnects,
              StreamSubscribes, Receive, view, server
<1>6. CASE (\E url \in Windows \cup Images : Expire(url)) \/ (\E w \in Windows : SetWindow(w)) \/ UNCHANGED vars
  <2>1. UNCHANGED <<row, stored, last>>
    BY <1>6 DEF Expire, SetWindow, vars, view, server
  <2> QED  BY <1>1, <2>1
<1>7. CASE \E k \in Images : ImageFromCache(k) \/ ImageFromServer(k)
  BY <1>1, <1>7 DEF ImageFromCache, ImageFromServer, server
<1>8. CASE \E k \in Images : Announce(k)
  BY <1>1, <1>4, <1>8
<1>9. CASE Chart
  BY <1>9
<1>10. CASE Aside
  BY <1>2, <1>6, <1>7, <1>9, <1>10, Zenon DEF Aside
<1> QED  BY <1>2, <1>3, <1>5, <1>8, <1>10, Steps

\* The chart keeps its invariant.
LEMMA ChartAlways == Spec => []ChartInv
<1>1. Init => ChartInv
  <2> SUFFICES ASSUME Init PROVE ChartInv
    OBVIOUS
  <2>1. /\ DOMAIN row = RowFields /\ row.ran = <<>> /\ row.timer = FALSE /\ row.fetch = <<>>
        /\ row.loading = TRUE /\ row.err = FALSE
    BY DEF Init, NoRow, RowFields
  <2> QED  BY <2>1 DEF ChartInv, RowOK, FetchOK, RespOK
<1>2. TypeInv /\ ChartInv /\ [Next]_vars => ChartInv'
  <2> SUFFICES ASSUME TypeInv, ChartInv, [Next]_vars PROVE ChartInv'
    OBVIOUS
  <2>1. CASE Effect
    BY <2>1, EffectOK
  <2>2. CASE DebounceOver
    <3>1. row.timer /\ row' = Running(row) /\ last' = last
      BY <2>2 DEF DebounceOver, chartFrame, server
    <3>2. DOMAIN row = RowFields /\ row.ran # <<>> /\ row.ran.version \in 0..last'
      BY <3>1 DEF ChartInv, RowOK
    <3> QED  BY <3>1, <3>2, RunningOK
  <2>3. CASE FetchFromCache
    <3> DEFINE answer == [ok |-> TRUE, rows |-> http[row.fetch[1].window], from |-> "cache"]
    <3>1. Asked /\ Answer(answer) /\ UNCHANGED <<stored, last>>
      BY <2>3 DEF FetchFromCache, chartFrame, server
    <3>2. answer.from = "cache"
      OBVIOUS
    <3> HIDE DEF answer
    <3> QED  BY <3>1, <3>2, AnswerOK
  <2>4. CASE FetchFromServer
    <3> DEFINE answer == [ok |-> TRUE, rows |-> stored, from |-> "server"]
               none == [ok |-> FALSE, rows |-> {}, from |-> "server"]
    <3>1. Asked /\ (Answer(answer) \/ Answer(none)) /\ UNCHANGED <<stored, last>>
      BY <2>4 DEF FetchFromServer, chartFrame, server
    <3>2. answer.rows = stored /\ none.ok = FALSE
      OBVIOUS
    <3> HIDE DEF answer, none
    <3>3. CASE Answer(answer)
      BY <3>1, <3>2, <3>3, AnswerOK
    <3>4. CASE Answer(none)
      BY <3>1, <3>2, <3>4, AnswerOK
    <3> QED  BY <3>1, <3>3, <3>4
  <2>5. CASE Settle
    BY <2>5, SettleOK
  <2>6. CASE row' = NoRow
    BY <2>6, NoRowOK
  <2>7. CASE UNCHANGED row /\ last' \in Nat /\ last <= last' /\ stored' \cap 1..last \subseteq stored
    <3>1. RowOK'
      BY <2>7 DEF ChartInv, RowOK, TypeInv, ServerOK
    <3>2. ASSUME NEW answer, row.ran # <<>>, Covers(answer) PROVE Covers(answer)'
      <4>1. row.ran.version \in 0..last /\ last \in Nat
        BY <3>2 DEF ChartInv, RowOK, TypeInv, ServerOK
      <4>2. stored' \cap 1..row.ran.version \subseteq stored \cap 1..row.ran.version
        BY <2>7, <4>1
      <4> QED  BY <2>7, <3>2, <4>2 DEF Covers
    <3>3. FetchOK'
      BY <2>7, <3>2 DEF ChartInv, FetchOK, Covers
    <3>4. RespOK'
      <4>1. row.loading = FALSE => row.ran # <<>>
        BY DEF ChartInv, RowOK
      <4> QED  BY <2>7, <3>2, <4>1 DEF ChartInv, RespOK, Covers
    <3> QED  BY <3>1, <3>3, <3>4 DEF ChartInv
  <2>8. CASE Chart
    BY <2>1, <2>2, <2>3, <2>4, <2>5, <2>8 DEF Chart
  <2> QED  BY <2>6, <2>7, <2>8, OtherRowSteps
<1> QED  BY <1>1, <1>2, TypesAlways, PTL DEF Spec

\* A chart at rest shows the window that is chosen and every stored row of the
\* versions the page has shown, however its requests were cancelled, debounced and
\* reordered, unless it shows an error or the browser's cache answered
\* (HistoryChartRow's effect, its cleanup and run).
THEOREM ChartIsNewest == Spec => []ChartShowsLatest
<1>1. ChartInv => ChartShowsLatest
  <2> SUFFICES ASSUME ChartInv, row.ran = Deps, ~row.loading, ~row.timer, ~row.err
               PROVE  /\ row.resp # <<>> /\ row.resp[1].window = window
                      /\ row.resp[1].from = "cache" \/ stored \cap 1..snapshot \subseteq row.resp[1].rows
    BY DEF ChartShowsLatest
  <2>1. row.loading = FALSE /\ row.timer = FALSE /\ row.err = FALSE
    BY DEF ChartInv, RowOK
  <2>2. row.resp # <<>> /\ row.resp[1].window = row.ran.window /\ Covers(row.resp[1])
    BY <2>1 DEF ChartInv, RespOK
  <2>3. row.ran.window = window /\ row.ran.version = snapshot
    BY DEF Deps
  <2> QED  BY <2>2, <2>3 DEF Covers
<1> QED  BY <1>1, ChartAlways, PTL
=============================================================================
