--------------------------- MODULE HistoryProofs ---------------------------
(***************************************************************************)
(* What the page and /api/history show of a feed, for any bodies an        *)
(* upstream may serve, any configuration, any length of a run and any      *)
(* number of rows.                                                         *)
(*                                                                         *)
(* HInv is about the state: the slot, the rows and the page are what polls *)
(* read.  The five answers are functions of the rows; what they hold of    *)
(* the window is proved about the operators they are built from, which     *)
(* take subsequences by position, runs of one index and maxima.            *)
(***************************************************************************)
EXTENDS History, TLAPS, FiniteSetTheorems, FunctionTheorems, SequenceTheorems, WellFoundedInduction

---------------------------------------------------------------------------
(* Selection: positions and their ranks.                                   *)

Rank(I, i) == Cardinality({j \in I : j <= i})

\* Positions are finitely many, at most as many as the sequence has.
LEMMA PositionsFinite ==
    ASSUME NEW n \in Nat, NEW I \in SUBSET (1..n)
    PROVE  IsFiniteSet(I) /\ Cardinality(I) \in Nat /\ Cardinality(I) <= n
<1>1. IsFiniteSet(1..n) /\ Cardinality(1..n) = n
  BY FS_Interval
<1> QED  BY <1>1, FS_Subset, FS_CardinalityType

\* A later position has a larger rank.
LEMMA RankGrows ==
    ASSUME NEW n \in Nat, NEW I \in SUBSET (1..n), NEW i \in I, NEW j \in I, i < j
    PROVE  Rank(I, i) < Rank(I, j)
<1> DEFINE A == {k \in I : k <= i}
           B == {k \in I : k <= j}
<1>1. IsFiniteSet(B)
  BY PositionsFinite, FS_Subset
<1>2. A \subseteq B /\ j \in B /\ j \notin A
  <2>1. i \in Int /\ j \in Int /\ \A k \in I : k \in Int
    OBVIOUS
  <2>2. \A k \in I : k <= i => k <= j
    BY <2>1
  <2>3. ~(j <= i)
    BY <2>1
  <2>4. A \subseteq B
    BY <2>2
  <2> QED  BY <2>1, <2>3, <2>4
<1> HIDE DEF A, B
<1>3. Cardinality(A) <= Cardinality(B) /\ Cardinality(A) # Cardinality(B)
  BY <1>1, <1>2, FS_Subset
<1>4. Cardinality(A) \in Nat /\ Cardinality(B) \in Nat
  BY <1>1, <1>2, FS_Subset, FS_CardinalityType
<1> QED  BY <1>3, <1>4 DEF Rank, A, B

\* A rank is between one and the number of positions.
LEMMA RankRange ==
    ASSUME NEW n \in Nat, NEW I \in SUBSET (1..n), NEW i \in I
    PROVE  Rank(I, i) \in 1..Cardinality(I)
<1> DEFINE A == {k \in I : k <= i}
<1>1. IsFiniteSet(I) /\ Cardinality(I) \in Nat
  BY PositionsFinite
<1>2. A \in SUBSET I /\ i \in A
  OBVIOUS
<1> HIDE DEF A
<1>3. IsFiniteSet(A) /\ Cardinality(A) <= Cardinality(I)
  BY <1>1, <1>2, FS_Subset
<1>4. Cardinality(A) \in Nat /\ Cardinality(A) # 0
  BY <1>2, <1>3, FS_CardinalityType, FS_EmptySet
<1> QED  BY <1>1, <1>3, <1>4 DEF Rank, A

\* The k-th position exists and is the only one of its rank.
LEMMA NthIs ==
    ASSUME NEW n \in Nat, NEW I \in SUBSET (1..n)
    PROVE  /\ \A k \in 1..Cardinality(I) : Nth(I, k) \in I /\ Rank(I, Nth(I, k)) = k
           /\ \A i \in I : Nth(I, Rank(I, i)) = i
<1> DEFINE c == Cardinality(I)
           f == [i \in I |-> Rank(I, i)]
           R == {f[i] : i \in I}
<1>1. IsFiniteSet(I) /\ c \in Nat
  BY PositionsFinite
<1>2. \A i, j \in I : f[i] = f[j] => i = j
  <2>1. \A i \in I : i \in Int /\ f[i] \in Int
    <3>1. ASSUME NEW i \in I PROVE Rank(I, i) \in 1..Cardinality(I)
      BY RankRange
    <3>2. \A m \in 1..Cardinality(I) : m \in Int
      BY <1>1
    <3> QED  BY <3>1, <3>2
  <2>2. \A i, j \in I : i < j => f[i] < f[j]
    BY RankGrows
  <2> HIDE DEF f
  <2> QED  BY <2>1, <2>2
<1>3. f \in Bijection(I, R)
  <2>1. f \in Injection(I, R)
    BY <1>2 DEF Injection, IsInjective
  <2>2. f \in Surjection(I, R)
    BY DEF Surjection
  <2> QED  BY <2>1, <2>2 DEF Bijection
<1>4. IsFiniteSet(R) /\ Cardinality(R) = c
  <2> HIDE DEF f, R
  <2> QED  BY <1>1, <1>3, FS_Bijection DEF ExistsBijection
<1>5. R \subseteq 1..c
  BY RankRange
<1>6. R = 1..c
  <2>1. IsFiniteSet(1..c) /\ Cardinality(1..c) = c
    BY <1>1, FS_Interval
  <2> HIDE DEF R, c
  <2> QED  BY <1>4, <1>5, <2>1, FS_Subset
<1>7. \A k \in 1..c : \E i \in I : Rank(I, i) = k
  BY <1>6
<1>8. \A i, j \in I : Rank(I, i) = Rank(I, j) => i = j
  BY <1>2
<1>9. ASSUME NEW k \in 1..c PROVE Nth(I, k) \in I /\ Rank(I, Nth(I, k)) = k
  BY <1>7 DEF Nth, Rank
<1> HIDE DEF c, f, R
<1>10. ASSUME NEW i \in I PROVE Nth(I, Rank(I, i)) = i
  <2>1. Rank(I, i) \in 1..c
    BY RankRange DEF c
  <2> QED  BY <1>8, <1>9, <2>1
<1> QED  BY <1>9, <1>10 DEF c

\* Nth lists the positions in increasing order.
LEMMA NthGrows ==
    ASSUME NEW n \in Nat, NEW I \in SUBSET (1..n),
           NEW k \in 1..Cardinality(I), NEW l \in 1..Cardinality(I)
    PROVE  Nth(I, k) < Nth(I, l) <=> k < l
<1> DEFINE i == Nth(I, k)
           j == Nth(I, l)
<1>1. i \in I /\ j \in I /\ Rank(I, i) = k /\ Rank(I, j) = l
  BY NthIs
<1> HIDE DEF i, j
<1>2. i \in Int /\ j \in Int /\ k \in Int /\ l \in Int
  BY <1>1, PositionsFinite
<1>3. (i < j => k < l) /\ (j < i => l < k)
  BY <1>1, RankGrows
<1> QED  BY <1>1, <1>2, <1>3 DEF i, j

\* A selection holds the selected elements, all of them, in their order.
LEMMA PickedIs ==
    ASSUME NEW S, NEW s \in Seq(S), NEW I \in SUBSET (DOMAIN s)
    PROVE  /\ Picked(s, I) \in Seq(S)
           /\ Len(Picked(s, I)) = Cardinality(I)
           /\ DOMAIN Picked(s, I) = 1..Cardinality(I)
           /\ \A k \in 1..Cardinality(I) : Picked(s, I)[k] = s[Nth(I, k)] /\ Nth(I, k) \in I
           /\ \A i \in I : Rank(I, i) \in 1..Cardinality(I) /\ Picked(s, I)[Rank(I, i)] = s[i]
<1>1. DOMAIN s = 1..Len(s) /\ Len(s) \in Nat /\ \A i \in DOMAIN s : s[i] \in S
  BY ElementOfSeq, LenProperties
<1>2. Cardinality(I) \in Nat
  BY <1>1, PositionsFinite
<1>3. \A k \in 1..Cardinality(I) : Nth(I, k) \in I
  BY <1>1, NthIs
<1>4. Picked(s, I) \in [1..Cardinality(I) -> S]
  BY <1>1, <1>3 DEF Picked
<1>5. Picked(s, I) \in Seq(S) /\ Len(Picked(s, I)) = Cardinality(I)
  BY <1>2, <1>4, IsASeq, LenProperties
<1>6. \A i \in I : Rank(I, i) \in 1..Cardinality(I) /\ Nth(I, Rank(I, i)) = i
  BY <1>1, NthIs, RankRange
<1> QED  BY <1>3, <1>4, <1>5, <1>6 DEF Picked

---------------------------------------------------------------------------
(* Arithmetic.                                                             *)

\* A set of numbers has a least element: the inductions below are over it.
LEMMA Least ==
    ASSUME NEW S \in SUBSET Nat, S # {}
    PROVE  \E m \in S : \A k \in S : m <= k
<1>1. PICK m \in S : \A k \in S : <<k, m>> \notin OpToRel(<, Nat)
  BY NatLessThanWellFounded, WFMin
<1>2. ASSUME NEW k \in S PROVE m <= k
  <2>1. ~(k < m)
    BY <1>1 DEF OpToRel
  <2> QED  BY <2>1
<1> QED  BY <1>2

\* What \div and % are.
LEMMA Division ==
    ASSUME NEW a \in Nat, NEW d \in Nat \ {0}
    PROVE  /\ a \div d \in Nat
           /\ a % d \in 0..(d - 1)
           /\ a = d * (a \div d) + (a % d)
OBVIOUS

\* Quotients keep the order, and numbers of one quotient are close.
LEMMA DivisionOrder ==
    ASSUME NEW a \in Nat, NEW b \in Nat, NEW d \in Nat \ {0}, a <= b
    PROVE  /\ a \div d <= b \div d
           /\ a \div d = b \div d => b - a < d
<1> DEFINE p == a \div d
           q == b \div d
<1>1. /\ p \in Nat /\ a % d \in 0..(d - 1) /\ a = d * p + (a % d)
      /\ q \in Nat /\ b % d \in 0..(d - 1) /\ b = d * q + (b % d)
  BY Division
<1> HIDE DEF p, q
<1>2. ASSUME q < p PROVE FALSE
  <2>1. d * (q + 1) <= d * p
    BY <1>1, <1>2
  <2> QED  BY <1>1, <2>1
<1>3. p = q => b - a < d
  BY <1>1
<1> QED  BY <1>1, <1>2, <1>3 DEF p, q

\* A quotient is bounded as the dividend is.
LEMMA DivisionBound ==
    ASSUME NEW a \in Nat, NEW n \in Nat, NEW d \in Nat \ {0}
    PROVE  /\ a < n * d => a \div d < n
           /\ a <= n * d => a \div d <= n
<1> DEFINE p == a \div d
<1>1. p \in Nat /\ a % d \in 0..(d - 1) /\ a = d * p + (a % d)
  BY Division
<1> HIDE DEF p
<1>2. ASSUME n <= p PROVE n * d <= a
  <2>1. d * n <= d * p
    BY <1>1, <1>2
  <2> QED  BY <1>1, <2>1
<1>3. ASSUME n + 1 <= p PROVE n * d < a
  <2>1. d * (n + 1) <= d * p
    BY <1>1, <1>3
  <2> QED  BY <1>1, <2>1
<1> QED  BY <1>1, <1>2, <1>3 DEF p

\* A length that rounds up covers the whole in that many pieces.
LEMMA CeilDivIs ==
    ASSUME NEW a \in Nat \ {0}, NEW n \in Nat \ {0}
    PROVE  CeilDiv(a, n) \in Nat \ {0} /\ a <= n * CeilDiv(a, n)
<1> DEFINE x == a + n - 1
           q == x \div n
<1>1. x \in Nat
  OBVIOUS
<1>2. q \in Nat /\ x % n \in 0..(n - 1) /\ x = n * q + (x % n)
  <2> HIDE DEF x
  <2> QED  BY <1>1, Division
<1> HIDE DEF q
<1>3. a <= n * q
  BY <1>2
<1>4. q # 0
  BY <1>3
<1> QED  BY <1>2, <1>3, <1>4 DEF CeilDiv, q

---------------------------------------------------------------------------
(* The inductive invariant: what is stored, cached and shown is what some  *)
(* poll read, and the validator of a slot tells its payload.               *)

\* What serves a body, the slot a poll at t makes of it and the row it appends.
Served(b) == [body |-> b, etag |-> b]
Sound(n) == Bodies[n] \ {Malformed}
SlotOf(n, o, b, t) == Fetch(n, Served(b), o, t)
RowOf(n, o, b, t) ==
    [at |-> t, validator |-> SlotOf(n, o, b, t).validator, payload |-> Encode(n, SlotOf(n, o, b, t).payload)]
SlotSet(n, o) == {SlotOf(n, o, b, t) : b \in Sound(n), t \in Nat}
RowSet(n, o) == {RowOf(n, o, b, t) : b \in Sound(n), t \in Nat}

\* Types; the slot and each row are what some body gave at some time.
HTypeOK ==
    /\ name \in DOMAIN Bodies
    /\ opt \in Options
    /\ now \in Nat
    /\ up \in {Served(b) : b \in Bodies[name]}
    /\ cached \in {<<>>} \cup {<<res>> : res \in SlotSet(name, opt)}
    /\ asked \in {<<>>} \cup {<<Served(b)>> : b \in Bodies[name]}
    /\ rows \in Seq(RowSet(name, opt))

\* Oldest first, none from the future, no two of one instant.
RowsInOrder ==
    /\ \A i \in DOMAIN rows : rows[i].at <= now
    /\ \A i, j \in DOMAIN rows : i < j => rows[i].at < rows[j].at

\* The page shows the slot; after a poll of a sound body the slot is its Fetch.
SlotIsShown == cached # <<>> => shown = <<Filtered(name, Region, cached[1].payload)>>
PolledIsCached == asked # <<>> /\ asked[1].body # Malformed => cached = <<Fetch(name, asked[1], opt, now)>>

\* A slot outlives its rows, not the other way round.
RowsAreCached == rows # <<>> => cached # <<>>

HInv == HTypeOK /\ RowsInOrder /\ SlotIsShown /\ PolledIsCached /\ RowsAreCached

\* Two slots of one feed with the same validator have the same payload: of
\* swpc_alerts because the payload is hashed, of the others because the body is
\* known by its hash or ETag and parsing does not look at the time.
LEMMA PayloadOfValidator ==
    ASSUME NEW n \in Names, NEW o,
           NEW b, NEW t, NEW c, NEW u,
           SlotOf(n, o, b, t).validator = SlotOf(n, o, c, u).validator
    PROVE  SlotOf(n, o, b, t).payload = SlotOf(n, o, c, u).payload
<1>1. /\ SlotOf(n, o, b, t).payload = Parse(n, b, o, t)
      /\ SlotOf(n, o, c, u).payload = Parse(n, c, o, u)
      /\ ValidatorOf(n, Served(b), Parse(n, b, o, t)) = ValidatorOf(n, Served(c), Parse(n, c, o, u))
  BY DEF SlotOf, Fetch, Served
<1>2. CASE n = "swpc_alerts"
  BY <1>1, <1>2 DEF ValidatorOf
<1>3. CASE n \in {"nws_alerts", "swpc_scales"}
  <2>1. [sha256 |-> b] = [sha256 |-> c]
    BY <1>1, <1>3 DEF ValidatorOf, Served
  <2>2. [sha256 |-> b].sha256 = [sha256 |-> c].sha256
    BY <2>1
  <2> QED  BY <1>1, <1>3, <2>2 DEF Parse
<1>4. CASE n \in {"usgs_quakes", "usgs_volcanoes"}
  <2>1. [etag |-> b] = [etag |-> c]
    BY <1>1, <1>4 DEF ValidatorOf, Served
  <2>2. [etag |-> b].etag = [etag |-> c].etag
    BY <2>1
  <2> QED  BY <1>1, <1>4, <2>2 DEF Parse
<1> QED  BY <1>2, <1>3, <1>4 DEF Names

\* The source is one of the five.
LEMMA NameKnown == ASSUME HTypeOK PROVE name \in Names
BY HistoryAssumption DEF HTypeOK

\* A stored row gives back, at a hot start, the slot it was made from.
LEMMA RowGivesSlot ==
    ASSUME NEW n, NEW o, NEW r \in RowSet(n, o)
    PROVE  /\ r.at \in Nat
           /\ [payload |-> HotStartDecode(n, r.payload), validator |-> r.validator] \in SlotSet(n, o)
<1>1. PICK b \in Sound(n), t \in Nat : r = RowOf(n, o, b, t)
  BY DEF RowSet
<1>2. [payload |-> HotStartDecode(n, r.payload), validator |-> r.validator] = SlotOf(n, o, b, t)
  BY <1>1 DEF RowOf, SlotOf, Fetch, Encode, HotStartDecode
<1> QED  BY <1>1, <1>2 DEF RowOf, SlotSet

\* A process that starts on an empty store.
LEMMA HInit == Init => HInv
<1> SUFFICES ASSUME Init PROVE HInv
  OBVIOUS
<1>1. HTypeOK
  BY DEF Init, HTypeOK, Served
<1> QED  BY <1>1 DEF Init, HInv, RowsInOrder, SlotIsShown, PolledIsCached, RowsAreCached

\* A poll: an unchanged validator leaves the page, and it is that of the new slot.
LEMMA PollKeeps == HInv /\ Poll => HInv'
<1> SUFFICES ASSUME HInv, Poll PROVE HInv'
  OBVIOUS
<1> USE DEF HInv
<1>1. PICK b \in Bodies[name] : up = Served(b)
  BY DEF HTypeOK
<1>2. /\ name' = name /\ opt' = opt /\ now' = now /\ up' = up
      /\ asked' = <<up>> /\ Region' = Region /\ up.body = b
  BY <1>1 DEF Poll, Region, Served
<1>3. CASE b = Malformed
  <2>1. UNCHANGED <<cached, shown, rows>>
    BY <1>2, <1>3 DEF Poll
  <2> QED  BY <1>1, <1>2, <1>3, <2>1 DEF HTypeOK, RowsInOrder, SlotIsShown, PolledIsCached, RowsAreCached
<1>4. CASE b # Malformed
  <2> DEFINE res == Fetch(name, up, opt, now)
             changed == cached = <<>> \/ cached[1].validator # res.validator
             row == [at |-> now, validator |-> res.validator, payload |-> Encode(name, res.payload)]
  <2>1. res = SlotOf(name, opt, b, now) /\ row = RowOf(name, opt, b, now)
    BY <1>1 DEF SlotOf, RowOf
  <2>2. b \in Sound(name) /\ now \in Nat
    BY <1>4 DEF Sound, HTypeOK
  <2>3. res \in SlotSet(name, opt) /\ row \in RowSet(name, opt)
    <3> HIDE DEF res, row
    <3> QED  BY <2>1, <2>2 DEF SlotSet, RowSet
  <2>4. /\ cached' = <<res>>
        /\ changed => rows' = Append1(rows, row) /\ shown' = <<Filtered(name, Region, res.payload)>>
        /\ ~changed => UNCHANGED <<rows, shown>>
    BY <1>2, <1>4 DEF Poll
  <2>5. shown' = <<Filtered(name, Region, res.payload)>>
    <3>1. CASE changed
      BY <2>4, <3>1
    <3>2. CASE ~changed
      <4>1. PICK c \in Sound(name), u \in Nat : cached = <<SlotOf(name, opt, c, u)>>
        BY <3>2 DEF HTypeOK, SlotSet
      <4>2. cached[1] = SlotOf(name, opt, c, u) /\ cached # <<>>
        BY <4>1
      <4>3. SlotOf(name, opt, c, u).validator = SlotOf(name, opt, b, now).validator
        BY <2>1, <3>2, <4>2
      <4>4. SlotOf(name, opt, c, u).payload = SlotOf(name, opt, b, now).payload
        BY <4>3, PayloadOfValidator, NameKnown
      <4> QED  BY <2>1, <2>4, <3>2, <4>2, <4>4 DEF SlotIsShown
    <3> QED  BY <3>1, <3>2
  <2>6. rows' \in Seq(RowSet(name, opt)) /\ RowsInOrder'
    <3> DEFINE R == RowSet(name, opt)
    <3>1. rows \in Seq(R) /\ DOMAIN rows = 1..Len(rows) /\ Len(rows) \in Nat /\ \A i \in DOMAIN rows : rows[i] \in R
      BY ElementOfSeq, LenProperties DEF HTypeOK
    <3>2. CASE rows' = rows
      BY <1>2, <3>1, <3>2 DEF RowsInOrder
    <3>3. CASE rows' # rows
      <4>1. rows' = rows \o <<row>> /\ \A i \in DOMAIN rows : rows[i].at # now
        BY <2>4, <3>3 DEF Append1
      <4>2. \A i \in DOMAIN rows : rows[i].at \in Nat /\ rows[i].at < now
        <5>1. \A i \in DOMAIN rows : rows[i].at \in Nat
          BY <3>1, RowGivesSlot
        <5>2. \A i \in DOMAIN rows : rows[i].at <= now /\ rows[i].at # now
          BY <4>1 DEF RowsInOrder
        <5> QED  BY <2>2, <5>1, <5>2
      <4>3. row.at = now
        OBVIOUS
      <4> HIDE DEF row, R
      <4>4. /\ rows' \in Seq(R) /\ Len(rows') = Len(rows) + 1
            /\ DOMAIN rows' = 1..(Len(rows) + 1)
            /\ \A i \in 1..Len(rows) : rows'[i] = rows[i]
            /\ rows'[Len(rows) + 1] = row
        <5>1. row \in R
          BY <2>3 DEF R
        <5>2. Append(rows, row) = rows'
          BY <3>1, <4>1, <5>1, AppendIsConcat
        <5> QED  BY <3>1, <5>1, <5>2, AppendProperties, LenProperties
      <4>5. RowsInOrder'
        <5>1. \A i \in DOMAIN rows' : rows'[i].at <= now
          BY <2>2, <3>1, <4>2, <4>3, <4>4
        <5>2. \A i, j \in DOMAIN rows' : i < j => rows'[i].at < rows'[j].at
          BY <3>1, <4>2, <4>3, <4>4 DEF RowsInOrder
        <5> QED  BY <1>2, <5>1, <5>2 DEF RowsInOrder
      <4> QED  BY <4>4, <4>5 DEF R
    <3> QED  BY <3>2, <3>3
  <2> HIDE DEF res, row, changed
  <2>7. <<res>>[1] = res /\ <<up>>[1] = up
    OBVIOUS
  <2>8. HTypeOK'
    BY <1>1, <1>2, <2>3, <2>4, <2>6 DEF HTypeOK
  <2>9. SlotIsShown'
    BY <1>2, <2>4, <2>5, <2>7 DEF SlotIsShown
  <2>10. PolledIsCached'
    BY <1>2, <2>4, <2>7 DEF PolledIsCached, res
  <2>11. RowsAreCached'
    BY <2>4 DEF RowsAreCached
  <2> QED  BY <2>6, <2>8, <2>9, <2>10, <2>11
<1> QED  BY <1>3, <1>4

\* A prune leaves rows of the rows, in their order.
LEMMA PruneKeeps == HInv /\ Prune => HInv'
<1> SUFFICES ASSUME HInv, Prune PROVE HInv'
  OBVIOUS
<1> USE DEF HInv
<1> DEFINE I == {i \in DOMAIN rows : rows[i].at >= now - RetentionOf(opt.retention)}
           R == RowSet(name, opt)
<1>1. /\ UNCHANGED <<name, opt, now, up, cached, shown, asked>> /\ Region' = Region
      /\ rows' = Picked(rows, I)
  BY DEF Prune, Pruned, Region
<1>2. rows \in Seq(R) /\ DOMAIN rows = 1..Len(rows) /\ Len(rows) \in Nat
  BY LenProperties DEF HTypeOK
<1>3. I \in SUBSET (DOMAIN rows)
  OBVIOUS
<1> HIDE DEF I, R
<1>4. /\ rows' \in Seq(R)
      /\ DOMAIN rows' = 1..Cardinality(I)
      /\ \A k \in DOMAIN rows' : rows'[k] = rows[Nth(I, k)] /\ Nth(I, k) \in DOMAIN rows
  BY <1>1, <1>2, <1>3, PickedIs
<1>5. \A k, l \in DOMAIN rows' : k < l => Nth(I, k) < Nth(I, l)
  BY <1>2, <1>3, <1>4, NthGrows
<1>6. RowsInOrder'
  BY <1>1, <1>4, <1>5 DEF RowsInOrder
<1>7. RowsAreCached'
  <2>1. rows = <<>> => rows' = <<>>
    <3>1. I = {} => Cardinality(I) = 0
      BY FS_EmptySet
    <3> QED  BY <1>2, <1>3, <1>4, <3>1
  <2> QED  BY <1>1, <2>1 DEF RowsAreCached
<1> QED  BY <1>1, <1>4, <1>6, <1>7 DEF HTypeOK, SlotIsShown, PolledIsCached, R

\* A restart makes slot and page of the newest row.
LEMMA RestartKeeps == HInv /\ Restart => HInv'
<1> SUFFICES ASSUME HInv, Restart PROVE HInv'
  OBVIOUS
<1> USE DEF HInv
<1>1. UNCHANGED <<name, opt, now, up, rows>> /\ Region' = Region /\ asked' = <<>>
  BY DEF Restart, Region
<1>2. RowsInOrder' /\ PolledIsCached'
  BY <1>1 DEF RowsInOrder, PolledIsCached
<1>3. CASE rows = <<>>
  <2>1. cached' = <<>>
    BY <1>3 DEF Restart
  <2> QED  BY <1>1, <1>2, <1>3, <2>1 DEF HTypeOK, SlotIsShown, RowsAreCached
<1>4. CASE rows # <<>>
  <2> DEFINE r == rows[Len(rows)]
             res == [payload |-> HotStartDecode(name, r.payload), validator |-> r.validator]
  <2>1. cached' = <<res>> /\ shown' = <<Filtered(name, Region, res.payload)>>
    BY <1>4 DEF Restart, LatestRow
  <2>2. r \in RowSet(name, opt)
    BY <1>4, ElementOfSeq, EmptySeq, LenProperties DEF HTypeOK
  <2>3. res \in SlotSet(name, opt)
    BY <2>2, RowGivesSlot
  <2> HIDE DEF res, r
  <2>4. <<res>>[1] = res
    OBVIOUS
  <2> QED  BY <1>1, <1>2, <2>1, <2>3, <2>4 DEF HTypeOK, SlotIsShown, RowsAreCached
<1> QED  BY <1>3, <1>4

\* Every step keeps the invariant.
LEMMA HNext == HInv /\ [Next]_vars => HInv'
<1> SUFFICES ASSUME HInv, [Next]_vars PROVE HInv'
  OBVIOUS
<1>1. CASE Publish
  <2>1. UNCHANGED <<name, opt, now, cached, shown, rows, asked>> /\ Region' = Region
    BY <1>1 DEF Publish, Region
  <2>2. up' \in {Served(b) : b \in Bodies[name]}
    BY <1>1 DEF Publish, Served
  <2> QED  BY <2>1, <2>2 DEF HInv, HTypeOK, RowsInOrder, SlotIsShown, PolledIsCached, RowsAreCached
<1>2. CASE Advance
  <2>1. /\ UNCHANGED <<name, opt, up, cached, shown, rows>> /\ Region' = Region
        /\ now' = now + 1 /\ asked' = <<>>
    BY <1>2 DEF Advance, Region
  <2>2. RowsInOrder'
    <3>1. \A i \in DOMAIN rows : rows[i].at \in Nat
      BY ElementOfSeq, LenProperties, RowGivesSlot DEF HInv, HTypeOK
    <3> QED  BY <2>1, <3>1 DEF HInv, HTypeOK, RowsInOrder
  <2> QED  BY <2>1, <2>2 DEF HInv, HTypeOK, SlotIsShown, PolledIsCached, RowsAreCached
<1>3. CASE Poll
  BY <1>3, PollKeeps
<1>4. CASE Prune
  BY <1>4, PruneKeeps
<1>5. CASE Restart
  BY <1>5, RestartKeeps
<1>6. CASE UNCHANGED vars
  BY <1>6 DEF vars, HInv, HTypeOK, RowsInOrder, SlotIsShown, PolledIsCached, RowsAreCached, Region
<1> QED  BY <1>1, <1>2, <1>3, <1>4, <1>5, <1>6 DEF Next

\* Every row, slot and page of a behaviour is of a poll, for every feed, every
\* configuration and every number of rows.
THEOREM HistoryTypeCorrect == Spec => []HInv
<1> QED  BY HInit, HNext, PTL DEF Spec

---------------------------------------------------------------------------
(* The page.                                                               *)

\* The filter's verdict on a parsed alert is the operator's on the feature.
LEMMA MatchIsInRegion ==
    ASSUME HTypeOK, name = "nws_alerts", NEW b \in Sound(name), NEW i \in DOMAIN b
    PROVE  Match(Region, Alert(b[i])) <=> InRegion(b[i])
<1> DEFINE f == b[i]
           a == Alert(f)
<1>1. f \in ToSet(b)
  BY DEF ToSet
<1>2. f.awips \in Seq(ToSet(f.awips)) /\ (f.awips # <<>> => f.awips[1].len \in Nat /\ f.awips[1].letters \in BOOLEAN)
  BY <1>1, FeedAssumption DEF HTypeOK, Sound
<1>3. "" \notin opt.ugcs /\ "" \notin opt.wfos
  BY FeedAssumption DEF HTypeOK
<1>4. Region.ugcs = opt.ugcs /\ Region.wfos = opt.wfos
  BY <1>3 DEF Region, NewFilter
<1>5. a.ugcs = f.ugcs /\ a.wfo = WfoFromAWIPS(IF f.awips = <<>> THEN NoAWIPS ELSE Head(f.awips))
  BY DEF Alert
<1>6. CASE f.awips = <<>>
  <2>1. a.wfo = ""
    BY <1>5, <1>6 DEF WfoFromAWIPS, NoAWIPS
  <2> HIDE DEF f, a
  <2> QED  BY <1>3, <1>4, <1>5, <1>6, <2>1 DEF Match, MatchAll, InRegion, f, a
<1>7. CASE f.awips # <<>>
  <2>1. Head(f.awips) = f.awips[1]
    BY <1>2, <1>7
  <2>2. f.awips[1].len \in Nat /\ f.awips[1].letters \in BOOLEAN
    BY <1>2, <1>7
  <2>3. a.wfo = IF f.awips[1].len >= 6 /\ f.awips[1].letters THEN f.awips[1].tail ELSE ""
    <3> DEFINE x == f.awips[1]
    <3>1. a.wfo = IF x.len < 6 \/ ~x.letters THEN "" ELSE x.tail
      BY <1>5, <1>7, <2>1 DEF WfoFromAWIPS
    <3> HIDE DEF x, a
    <3>2. x.len < 6 <=> ~(x.len >= 6)
      BY <2>2 DEF x
    <3> QED  BY <3>1, <3>2, Zenon DEF x
  <2> HIDE DEF a
  <2>4. Match(Region, a) <=> \/ opt.ugcs = {} /\ opt.wfos = {}
                             \/ f.ugcs \cap opt.ugcs # {}
                             \/ a.wfo # "" /\ a.wfo \in opt.wfos
    BY <1>4, <1>5 DEF Match, MatchAll
  <2>5. a.wfo # "" /\ a.wfo \in opt.wfos <=> /\ f.awips # <<>> /\ f.awips[1].len >= 6
                                            /\ f.awips[1].letters /\ f.awips[1].tail \in opt.wfos
    BY <1>3, <1>7, <2>3
  <2> QED  BY <2>4, <2>5 DEF InRegion, a
<1> QED  BY <1>6, <1>7

\* What a client displays of a body is what the operator asked to see of it.
LEMMA FilteredIsWanted ==
    ASSUME HTypeOK, NEW b \in Sound(name)
    PROVE  Filtered(name, Region, Parse(name, b, opt, now)) = Wanted(b)
<1>1. CASE name = "nws_alerts"
  <2> DEFINE P == ParseNWSAlerts(b)
             I == {i \in DOMAIN b : InRegion(b[i])}
  <2>1. b \in Seq(ToSet(b)) /\ DOMAIN b = 1..Len(b) /\ Len(b) \in Nat
    BY <1>1, FeedAssumption, LenProperties DEF HTypeOK, Sound
  <2>2. P = [i \in DOMAIN b |-> Alert(b[i])]
    BY DEF ParseNWSAlerts, Apply
  <2>3. {i \in DOMAIN P : Match(Region, P[i])} = I
    BY <1>1, <2>2, MatchIsInRegion
  <2>4. Filtered(name, Region, Parse(name, b, opt, now)) = Picked(P, I)
    BY <1>1, <2>3 DEF Filtered, Parse
  <2>5. Wanted(b) = ParseNWSAlerts(Picked(b, I))
    BY <1>1 DEF Wanted
  <2>6. I \in SUBSET (DOMAIN b)
    OBVIOUS
  <2> HIDE DEF I, P
  <2>7. \A k \in 1..Cardinality(I) : Nth(I, k) \in DOMAIN b
    BY <2>1, <2>6, NthIs
  <2>8. Picked(P, I) = [k \in 1..Cardinality(I) |-> Alert(b[Nth(I, k)])]
    BY <2>2, <2>7 DEF Picked
  <2>9. ParseNWSAlerts(Picked(b, I)) = [k \in 1..Cardinality(I) |-> Alert(b[Nth(I, k)])]
    BY DEF ParseNWSAlerts, Apply, Picked
  <2> QED  BY <2>4, <2>5, <2>8, <2>9
<1>2. CASE name = "swpc_alerts"
  <2> DEFINE kept == {i \in DOMAIN b : /\ b[i].id \in opt.products
                                       /\ b[i].issued # BadTime /\ b[i].issued >= now - opt.window}
             recent == {i \in DOMAIN b : /\ b[i].id \in opt.products
                                         /\ b[i].issued # BadTime /\ now - b[i].issued <= opt.window}
             Entry(r) == [code |-> r.id, issued |-> r.issued]
  <2>1. now \in Nat /\ opt.window \in Nat /\ \A i \in DOMAIN b : b[i].issued = BadTime \/ b[i].issued \in Int
    BY <1>2, FeedAssumption DEF HTypeOK, Sound, ToSet
  <2>2. kept = recent
    BY <2>1
  <2>3. Filtered(name, Region, Parse(name, b, opt, now)) = Apply(Entry, Picked(b, kept))
    BY <1>2 DEF Filtered, Parse, ParseSWPCAlerts
  <2>4. Wanted(b) = Apply(Entry, Picked(b, recent))
    BY <1>2 DEF Wanted
  <2> QED  BY <2>2, <2>3, <2>4
<1>3. CASE name \notin {"nws_alerts", "swpc_alerts"}
  BY <1>3 DEF Filtered, Wanted
<1> QED  BY <1>1, <1>2, <1>3

\* What the polled slot shows is what was asked for.
LEMMA FeedIsShown == HInv => ClientsShowFeed
<1> SUFFICES ASSUME HInv, asked # <<>>, asked[1].body # Malformed
             PROVE  shown = <<Wanted(asked[1].body)>>
  BY DEF ClientsShowFeed
<1>1. PICK b \in Bodies[name] : asked = <<Served(b)>>
  BY DEF HInv, HTypeOK
<1>2. asked[1] = Served(b) /\ asked[1].body = b /\ b \in Sound(name)
  BY <1>1 DEF Served, Sound
<1>3. cached = <<Fetch(name, Served(b), opt, now)>>
  BY <1>2 DEF HInv, PolledIsCached
<1>4. cached # <<>> /\ cached[1].payload = Parse(name, b, opt, now)
  BY <1>3 DEF Fetch, Served
<1> QED  BY <1>2, <1>4, FilteredIsWanted DEF HInv, SlotIsShown

\* For every feed, configuration and body: after a poll a connected client
\* displays what the operator asked to see of it.
THEOREM ClientsSeeTheFeed == Spec => []ClientsShowFeed
BY HistoryTypeCorrect, FeedIsShown, PTL

---------------------------------------------------------------------------
(* The retention.                                                          *)

\* A number of days that fits into a Duration is converted exactly.
LEMMA DaysExact ==
    ASSUME NEW n \in Nat, ~DaysOverflow(n)
    PROVE  Days(n) = n * DayLen
<1> DEFINE x == n * DayLen
           h == Width \div 2
<1>1. x \in Nat
  BY RowsAssumption
<1>2. h \in Nat /\ Width = 2 * h /\ x < h
  BY <1>1, RowsAssumption DEF DaysOverflow
<1> HIDE DEF x, h
<1>3. (x + h) % Width = x + h
  BY <1>1, <1>2, RowsAssumption
<1> QED  BY <1>1, <1>2, <1>3 DEF Days, x, h

\* While the retention does not overflow, a step leaves every row that is younger.
LEMMA RetentionStep ==
    ASSUME HInv, [Next]_vars, ~DaysOverflow(opt.retention),
           NEW i \in DOMAIN rows, now - rows[i].at <= opt.retention * DayLen
    PROVE  \E j \in DOMAIN rows' : rows'[j] = rows[i]
<1> DEFINE R == RowSet(name, opt)
<1>1. rows \in Seq(R) /\ DOMAIN rows = 1..Len(rows) /\ Len(rows) \in Nat /\ rows[i] \in R
  BY ElementOfSeq, LenProperties DEF HInv, HTypeOK
<1>2. CASE rows' = rows
  BY <1>2
<1>3. CASE Poll /\ rows' # rows
  <2>1. PICK row : rows' = rows \o <<row>>
    BY <1>3 DEF Poll, Append1
  <2> HIDE DEF R
  <2>2. rows' = Append(rows, row)
    BY <1>1, <2>1
  <2>3. i \in DOMAIN rows' /\ rows'[i] = rows[i]
    BY <1>1, <2>2
  <2> QED  BY <2>3
<1>4. CASE Prune
  <2> DEFINE I == {k \in DOMAIN rows : rows[k].at >= now - RetentionOf(opt.retention)}
  <2>1. RetentionOf(opt.retention) = opt.retention * DayLen /\ opt.retention * DayLen \in Nat
    <3>1. opt.retention \in Nat
      BY FeedAssumption DEF HInv, HTypeOK
    <3>2. Days(opt.retention) = opt.retention * DayLen
      BY <3>1, DaysExact
    <3> QED  BY <3>1, <3>2, RowsAssumption DEF RetentionOf
  <2>2. rows[i].at \in Nat /\ now \in Nat
    BY <1>1, RowGivesSlot DEF HInv, HTypeOK
  <2>3. rows[i].at >= now - RetentionOf(opt.retention)
    BY <2>1, <2>2
  <2>4. i \in I /\ I \in SUBSET (DOMAIN rows) /\ rows' = Picked(rows, I)
    BY <1>4, <2>3 DEF Prune, Pruned
  <2> HIDE DEF I, R
  <2> QED  BY <1>1, <2>4, PickedIs
<1> QED  BY <1>2, <1>3, <1>4 DEF Next, vars, Publish, Advance, Restart

\* No step deletes a row younger than the configured retention, for every
\* number of days that fits into a Duration.
THEOREM RetentionIsKept == Spec => RecentRowsSurvive
<1>1. HInv /\ [Next]_vars =>
        [~DaysOverflow(opt.retention) =>
          \A i \in DOMAIN rows : now - rows[i].at <= opt.retention * DayLen =>
              \E j \in DOMAIN rows' : rows'[j] = rows[i]]_vars
  BY RetentionStep
<1> QED  BY <1>1, HistoryTypeCorrect, PTL DEF Spec, RecentRowsSurvive

---------------------------------------------------------------------------
(* Buckets.  The rows of a window and the index of each are two sequences; *)
(* a bucket is a run of one index.                                         *)

Starts(ix) == {i \in DOMAIN ix : i = 1 \/ ix[i] # ix[i - 1]}
Runs(ix) == Cardinality(Starts(ix))
First(ix, b) == Nth(Starts(ix), b)
Final(ix, b) == IF b = Runs(ix) THEN Len(ix) ELSE First(ix, b + 1) - 1

\* The first position starts a run, and the starts are positions.
LEMMA StartsAre ==
    ASSUME NEW ix \in Seq(Int)
    PROVE  /\ DOMAIN ix = 1..Len(ix) /\ Len(ix) \in Nat /\ Starts(ix) \in SUBSET (1..Len(ix))
           /\ Runs(ix) \in Nat
           /\ ix # <<>> => 1 \in Starts(ix) /\ Runs(ix) > 0
           /\ ix = <<>> => Runs(ix) = 0
<1>1. DOMAIN ix = 1..Len(ix) /\ Len(ix) \in Nat /\ Starts(ix) \in SUBSET (1..Len(ix))
  BY LenProperties DEF Starts
<1>2. IsFiniteSet(Starts(ix)) /\ Runs(ix) \in Nat
  BY <1>1, PositionsFinite DEF Runs
<1>3. ASSUME ix # <<>> PROVE 1 \in Starts(ix) /\ Runs(ix) > 0
  <2>1. Len(ix) > 0
    BY <1>1, <1>3, EmptySeq
  <2>2. 1 \in Starts(ix)
    BY <1>1, <2>1 DEF Starts
  <2>3. Runs(ix) # 0
    BY <1>2, <2>2, FS_EmptySet DEF Runs
  <2> QED  BY <1>2, <2>2, <2>3
<1>4. ASSUME ix = <<>> PROVE Runs(ix) = 0
  <2>1. Starts(ix) = {}
    BY <1>4 DEF Starts
  <2> QED  BY <2>1, FS_EmptySet DEF Runs
<1> QED  BY <1>1, <1>2, <1>3, <1>4

\* The runs follow one another from the first element to the last.
LEMMA RunsFollow ==
    ASSUME NEW ix \in Seq(Int)
    PROVE  /\ \A b \in 1..Runs(ix) : /\ First(ix, b) \in Starts(ix) /\ Rank(Starts(ix), First(ix, b)) = b
                                     /\ First(ix, b) \in 1..Len(ix)
                                     /\ Final(ix, b) \in First(ix, b)..Len(ix)
           /\ Runs(ix) > 0 => First(ix, 1) = 1 /\ Final(ix, Runs(ix)) = Len(ix)
           /\ \A b \in 1..(Runs(ix) - 1) : First(ix, b + 1) = Final(ix, b) + 1
<1> DEFINE N == Len(ix)
           I == Starts(ix)
           c == Runs(ix)
<1>1. N \in Nat /\ I \in SUBSET (1..N) /\ c \in Nat /\ c = Cardinality(I)
  BY StartsAre DEF Runs
<1>2. \A b \in 1..c : First(ix, b) \in I /\ Rank(I, First(ix, b)) = b
  BY <1>1, NthIs DEF First
<1>3. \A b \in 1..c : First(ix, b) \in 1..N
  BY <1>1, <1>2
<1>4. \A b, d \in 1..c : First(ix, b) < First(ix, d) <=> b < d
  BY <1>1, NthGrows DEF First
<1>5. ASSUME NEW b \in 1..c PROVE Final(ix, b) \in First(ix, b)..N
  <2>1. CASE b = c
    BY <1>1, <1>3, <2>1 DEF Final
  <2>2. CASE b # c
    <3>1. b + 1 \in 1..c /\ b < b + 1
      BY <1>1, <2>2
    <3>2. First(ix, b) < First(ix, b + 1) /\ First(ix, b) \in 1..N /\ First(ix, b + 1) \in 1..N
      BY <1>3, <1>4, <3>1
    <3>3. Final(ix, b) = First(ix, b + 1) - 1
      BY <2>2 DEF Final
    <3> QED  BY <1>1, <3>2, <3>3
  <2> QED  BY <2>1, <2>2
<1>6. ASSUME c > 0 PROVE First(ix, 1) = 1
  <2>1. 1 \in I
    BY <1>6, StartsAre
  <2>2. Rank(I, 1) \in 1..c /\ First(ix, Rank(I, 1)) = 1
    BY <1>1, <2>1, NthIs, RankRange DEF First
  <2>3. 1 \in 1..c /\ (Rank(I, 1) # 1 => 1 < Rank(I, 1))
    BY <1>1, <1>6, <2>2
  <2>4. Rank(I, 1) # 1 => First(ix, 1) < 1
    BY <1>4, <2>2, <2>3
  <2> QED  BY <1>3, <2>2, <2>3, <2>4
<1>7. ASSUME NEW b \in 1..(c - 1) PROVE First(ix, b + 1) = Final(ix, b) + 1
  <2>1. b # c /\ b + 1 \in 1..c
    BY <1>1
  <2>2. Final(ix, b) = First(ix, b + 1) - 1
    BY <2>1 DEF Final
  <2> QED  BY <1>3, <2>1, <2>2
<1>8. Final(ix, c) = N
  BY DEF Final
<1> QED  BY <1>2, <1>3, <1>5, <1>6, <1>7, <1>8

\* A run has one index, and every element is in a run.
LEMMA RunsCover ==
    ASSUME NEW ix \in Seq(Int)
    PROVE  /\ \A b \in 1..Runs(ix) : \A p \in First(ix, b)..Final(ix, b) : ix[p] = ix[First(ix, b)]
           /\ \A p \in 1..Len(ix) : \E b \in 1..Runs(ix) : p \in First(ix, b)..Final(ix, b)
<1> DEFINE N == Len(ix)
           I == Starts(ix)
           c == Runs(ix)
<1>1. N \in Nat /\ I \in SUBSET (1..N) /\ c \in Nat /\ c = Cardinality(I) /\ DOMAIN ix = 1..N
  BY StartsAre DEF Runs
<1>2. \A b \in 1..c : First(ix, b) \in I /\ Rank(I, First(ix, b)) = b /\ First(ix, b) \in 1..N
  BY RunsFollow
<1>3. ASSUME NEW b \in 1..c, NEW p \in First(ix, b)..Final(ix, b), ix[p] # ix[First(ix, b)]
      PROVE  FALSE
  <2> DEFINE f == First(ix, b)
             W == {q \in f..Final(ix, b) : ix[q] # ix[f]}
  <2>1. f \in 1..N /\ Final(ix, b) \in f..N
    BY RunsFollow
  <2>2. W \in SUBSET Nat /\ p \in W
    BY <1>3, <2>1
  <2> HIDE DEF W
  <2>3. PICK q \in W : \A k \in W : q <= k
    BY <2>2, Least
  <2>4. q \in f..Final(ix, b) /\ ix[q] # ix[f]
    BY <2>3 DEF W
  <2>5. q # f
    BY <2>4
  <2> HIDE DEF f
  <2>6. q - 1 \in f..Final(ix, b) /\ ~(q <= q - 1) /\ q \in 1..N /\ f < q
    BY <1>1, <2>1, <2>4, <2>5
  <2>7. ix[q - 1] = ix[f]
    BY <2>3, <2>6 DEF W
  <2>8. q \in I
    BY <1>1, <2>4, <2>6, <2>7 DEF Starts
  <2>9. Rank(I, q) \in 1..c /\ Rank(I, f) = b /\ f \in I
    BY <1>1, <1>2, <2>8, RankRange DEF f
  <2>10. b < Rank(I, q)
    BY <1>1, <2>6, <2>8, <2>9, RankGrows
  <2>11. b + 1 \in 1..c /\ b # c
    BY <1>1, <2>9, <2>10
  <2>12. First(ix, b + 1) = Final(ix, b) + 1 /\ First(ix, b + 1) \in I /\ Rank(I, First(ix, b + 1)) = b + 1
    BY <1>1, <1>2, <2>11, RunsFollow
  <2>13. q < First(ix, b + 1)
    BY <2>1, <2>4, <2>12
  <2>14. Rank(I, q) < b + 1
    BY <1>1, <2>8, <2>12, <2>13, RankGrows
  <2> QED  BY <2>9, <2>10, <2>14
<1>4. ASSUME NEW p \in 1..N PROVE \E b \in 1..c : p \in First(ix, b)..Final(ix, b)
  <2> DEFINE D == {d \in 0..p : p - d \in I}
  <2>1. 1 \in I /\ c > 0
    BY <1>1, StartsAre, EmptySeq
  <2>2. p - 1 \in D /\ D \in SUBSET Nat
    BY <1>1, <2>1
  <2> HIDE DEF D
  <2>3. PICK d \in D : \A k \in D : d <= k
    BY <2>2, Least
  <2> DEFINE m == p - d
             b == Rank(I, m)
  <2>4. d \in 0..p /\ m \in I /\ m <= p
    BY <1>1, <2>3 DEF D
  <2>5. b \in 1..c /\ First(ix, b) = m
    BY <1>1, <2>4, NthIs, RankRange DEF First
  <2> HIDE DEF b
  <2>6. p <= Final(ix, b)
    <3>1. CASE b = c
      BY <1>1, <3>1 DEF Final
    <3>2. CASE b # c
      <4>1. b + 1 \in 1..c /\ b \in 1..(c - 1)
        BY <1>1, <2>5, <3>2
      <4>2. First(ix, b + 1) = Final(ix, b) + 1 /\ First(ix, b + 1) \in I /\ First(ix, b + 1) \in 1..N
        BY <1>2, <4>1, RunsFollow
      <4>3. First(ix, b) < First(ix, b + 1)
        <5>1. b \in 1..Cardinality(I) /\ b + 1 \in 1..Cardinality(I) /\ b < b + 1
          BY <1>1, <2>5, <4>1
        <5> QED  BY <1>1, <5>1, NthGrows DEF First
      <4> DEFINE e == p - First(ix, b + 1)
      <4>4. ~(First(ix, b + 1) <= p)
        <5> SUFFICES ASSUME First(ix, b + 1) <= p PROVE FALSE
          OBVIOUS
        <5>1. e \in 0..p /\ p - e = First(ix, b + 1) /\ e < d
          BY <1>1, <2>4, <2>5, <4>2, <4>3, SMTT(60)
        <5>2. e \in D
          BY <4>2, <5>1 DEF D
        <5> QED  BY <2>3, <2>4, <5>1, <5>2
      <4> QED  BY <1>1, <4>2, <4>4, <2>5, RunsFollow
    <3> QED  BY <3>1, <3>2
  <2>7. p \in m..Final(ix, b)
    BY <1>1, <2>4, <2>5, <2>6, RunsFollow
  <2> QED  BY <2>5, <2>7
<1> QED  BY <1>3, <1>4

\* Runs that follow one another concatenate to the whole.
LEMMA FlattenRuns ==
    ASSUME NEW S, NEW s \in Seq(S), NEW ix \in Seq(Int), Len(ix) = Len(s)
    PROVE  FlattenSeq([b \in 1..Runs(ix) |-> SubSeq(s, First(ix, b), Final(ix, b))]) = s
<1> DEFINE c == Runs(ix)
           part == [b \in 1..c |-> SubSeq(s, First(ix, b), Final(ix, b))]
           rule(d, b) == IF b = 1 THEN part[b] ELSE d[b - 1] \o part[b]
           closed == [b \in 1..c |-> SubSeq(s, 1, Final(ix, b))]
           d == CHOOSE f : f = [b \in 1..c |-> rule(f, b)]
<1>1. c \in Nat /\ Len(s) \in Nat
  BY StartsAre, LenProperties
<1>2. Len(part) = c /\ DOMAIN part = 1..c
  BY <1>1
<1>3. CASE c = 0
  <2>1. s = <<>> /\ ix = <<>>
    BY <1>3, StartsAre, EmptySeq
  <2>2. FlattenSeq(part) = part
    BY <1>2, <1>3 DEF FlattenSeq
  <2>3. part = <<>>
    BY <1>3
  <2> QED  BY <2>1, <2>2, <2>3
<1>4. CASE c # 0
  <2>1. FlattenSeq(part) = d[c]
    BY <1>2, <1>4, Zenon DEF FlattenSeq
  <2> HIDE DEF part
  <2>2. \A b \in 1..c : /\ First(ix, b) \in 1..Len(s) /\ Final(ix, b) \in First(ix, b)..Len(s)
                        /\ part[b] = SubSeq(s, First(ix, b), Final(ix, b))
    BY RunsFollow DEF part
  <2>3. ASSUME NEW b \in 1..c PROVE SubSeq(s, 1, Final(ix, b)) = rule(closed, b)
    <3>1. CASE b = 1
      <4>1. First(ix, 1) = 1
        BY <1>1, <1>4, RunsFollow
      <4> QED  BY <2>2, <3>1, <4>1
    <3>2. CASE b # 1
      <4>1. b - 1 \in 1..c /\ b - 1 \in 1..(c - 1) /\ (b - 1) + 1 = b
        BY <1>1, <3>2
      <4>2. First(ix, b) = Final(ix, b - 1) + 1
        BY <4>1, RunsFollow
      <4>3. Final(ix, b - 1) \in 0..Len(s) /\ Final(ix, b) \in Final(ix, b - 1)..Len(s)
        <5>1. Final(ix, b - 1) \in First(ix, b - 1)..Len(s) /\ First(ix, b - 1) \in 1..Len(s)
          BY <2>2, <4>1
        <5>2. Final(ix, b) \in First(ix, b)..Len(s)
          BY <2>2
        <5> QED  BY <1>1, <4>2, <5>1, <5>2
      <4>4. SubSeq(s, 1, Final(ix, b - 1)) \o SubSeq(s, Final(ix, b - 1) + 1, Final(ix, b)) = SubSeq(s, 1, Final(ix, b))
        <5>1. 1 \in 1..(Len(s) + 1) /\ Final(ix, b - 1) \in (1 - 1)..Len(s)
          BY <1>1, <4>3
        <5> QED  BY <4>3, <5>1, ConcatAdjacentSubSeq
      <4> QED  BY <2>2, <3>2, <4>1, <4>2, <4>4
    <3> QED  BY <3>1, <3>2
  <2>4. closed = [b \in 1..c |-> rule(closed, b)]
    BY <2>3
  <2>5. d = [b \in 1..c |-> rule(d, b)]
    <3> HIDE DEF closed, rule
    <3> QED  BY <2>4, Zenon
  <2>6. \A b \in 1..c : d[b] = rule(d, b)
    <3> HIDE DEF d, rule
    <3> QED  BY <2>5
  <2>7. \A b \in 1..c : closed[b] = rule(closed, b)
    BY <2>3
  <2> DEFINE Wrong == {b \in 1..c : d[b] # closed[b]}
  <2>8. Wrong = {}
    <3> SUFFICES ASSUME Wrong # {} PROVE FALSE
      OBVIOUS
    <3> HIDE DEF d, closed
    <3>1. Wrong \in SUBSET Nat
      OBVIOUS
    <3>2. PICK b \in Wrong : \A k \in Wrong : b <= k
      <4> HIDE DEF Wrong
      <4> QED  BY <3>1, Least
    <3>3. b \in 1..c /\ d[b] # closed[b]
      OBVIOUS
    <3>4. b # 1
      BY <2>6, <2>7, <3>3
    <3>5. b - 1 \in 1..c /\ ~(b <= b - 1)
      BY <1>1, <3>3, <3>4
    <3>6. d[b - 1] = closed[b - 1]
      BY <3>2, <3>5
    <3> QED  BY <2>6, <2>7, <3>3, <3>4, <3>6
  <2>9. d[c] = SubSeq(s, 1, Final(ix, c))
    <3>1. c \in 1..c
      BY <1>1, <1>4
    <3>2. d[c] = closed[c]
      <4> HIDE DEF d, closed
      <4> QED  BY <2>8, <3>1
    <3> HIDE DEF d
    <3> QED  BY <3>1, <3>2
  <2> HIDE DEF d
  <2>10. Final(ix, c) = Len(s)
    BY DEF Final
  <2> QED  BY <2>1, <2>9, <2>10, SubSeqFull DEF part
<1> QED  BY <1>3, <1>4

---------------------------------------------------------------------------
(* The answer for a window: its rows, their buckets, where data starts.    *)

\* The rows are numbered from one and have times.
LEMMA RowsAre ==
    ASSUME HTypeOK
    PROVE  /\ rows \in Seq(RowSet(name, opt))
           /\ DOMAIN rows = 1..Len(rows) /\ Len(rows) \in Nat
           /\ \A i \in DOMAIN rows : rows[i] \in RowSet(name, opt) /\ rows[i].at \in Nat
<1>1. rows \in Seq(RowSet(name, opt)) /\ DOMAIN rows = 1..Len(rows) /\ Len(rows) \in Nat
  BY LenProperties DEF HTypeOK
<1>2. \A i \in DOMAIN rows : rows[i] \in RowSet(name, opt)
  BY <1>1, ElementOfSeq
<1> QED  BY <1>1, <1>2, RowGivesSlot

\* rs is a range: the rows from a time on, all of them, in their order; when
\* there is one the last is the latest of all.
IsRange(rs, from) ==
    /\ rs \in Seq(RowSet(name, opt)) /\ DOMAIN rs = 1..Len(rs) /\ Len(rs) \in Nat
    /\ \A k \in DOMAIN rs : /\ rs[k] \in RowSet(name, opt)
                            /\ rs[k].at \in Nat /\ from <= rs[k].at /\ rs[k].at <= now
                            /\ \E i \in DOMAIN rows : rows[i] = rs[k]
    /\ \A k, l \in DOMAIN rs : k < l => rs[k].at < rs[l].at
    /\ \A i \in DOMAIN rows : from <= rows[i].at => \E k \in DOMAIN rs : rs[k] = rows[i]
    /\ rs # <<>> => rows # <<>> /\ rs[Len(rs)] = LatestRow(rows)

\* What Range returns.
LEMMA RangeIs ==
    ASSUME HInv, NEW from \in Int
    PROVE  IsRange(RowRange(rows, from, now), from)
<1> DEFINE rs == RowRange(rows, from, now)
           I == {i \in DOMAIN rows : from <= rows[i].at /\ rows[i].at <= now}
           R == RowSet(name, opt)
<1>1. /\ rows \in Seq(R) /\ DOMAIN rows = 1..Len(rows) /\ Len(rows) \in Nat
      /\ \A i \in DOMAIN rows : rows[i] \in R /\ rows[i].at \in Nat
      /\ now \in Nat
  BY RowsAre DEF HInv, HTypeOK
<1>2. I \in SUBSET (DOMAIN rows) /\ rs = Picked(rows, I)
  BY DEF RowRange
<1>3. \A i \in DOMAIN rows : from <= rows[i].at => i \in I
  BY DEF HInv, RowsInOrder
<1>4. \A i \in I : i \in DOMAIN rows /\ from <= rows[i].at /\ rows[i].at <= now
  OBVIOUS
<1> HIDE DEF I, R, rs
<1>5. /\ rs \in Seq(R) /\ Len(rs) = Cardinality(I) /\ DOMAIN rs = 1..Cardinality(I)
      /\ \A k \in 1..Cardinality(I) : rs[k] = rows[Nth(I, k)] /\ Nth(I, k) \in I
      /\ \A i \in I : Rank(I, i) \in 1..Cardinality(I) /\ rs[Rank(I, i)] = rows[i]
  BY <1>1, <1>2, PickedIs
<1>6. Cardinality(I) \in Nat
  BY <1>1, <1>2, PositionsFinite
<1>7. \A k, l \in DOMAIN rs : k < l => rs[k].at < rs[l].at
  <2>1. \A k, l \in DOMAIN rs : k < l => Nth(I, k) < Nth(I, l)
    BY <1>1, <1>2, <1>5, NthGrows
  <2> QED  BY <1>4, <1>5, <2>1 DEF HInv, RowsInOrder
<1>8. \A i \in DOMAIN rows : from <= rows[i].at => \E k \in DOMAIN rs : rs[k] = rows[i]
  BY <1>3, <1>5
<1>9. ASSUME rs # <<>> PROVE rows # <<>> /\ rs[Len(rs)] = LatestRow(rows)
  <2> DEFINE m == Len(rs)
             n == Len(rows)
  <2>1. m \in 1..Len(rs) /\ m \in DOMAIN rs
    BY <1>5, <1>6, <1>9, EmptySeq
  <2>2. Nth(I, m) \in DOMAIN rows /\ rs[m] = rows[Nth(I, m)] /\ from <= rs[m].at
    BY <1>4, <1>5, <2>1
  <2>3. n \in DOMAIN rows /\ rows # <<>>
    BY <1>1, <2>2, EmptySeq
  <2>4. Nth(I, m) # n => rows[Nth(I, m)].at < rows[n].at
    BY <1>1, <2>2, <2>3 DEF HInv, RowsInOrder
  <2>5. from <= rows[n].at
    BY <1>1, <2>2, <2>3, <2>4
  <2>6. PICK k \in DOMAIN rs : rs[k] = rows[n]
    BY <1>8, <2>3, <2>5
  <2>7. k # m => rs[k].at < rs[m].at
    BY <1>5, <1>6, <1>7, <2>1, <2>6, SMTT(60)
  <2>8. k = m
    BY <1>1, <2>2, <2>3, <2>4, <2>6, <2>7
  <2> QED  BY <2>3, <2>6, <2>8 DEF LatestRow
<1>10. \A k \in DOMAIN rs : /\ rs[k] \in R
                            /\ rs[k].at \in Nat /\ from <= rs[k].at /\ rs[k].at <= now
                            /\ \E i \in DOMAIN rows : rows[i] = rs[k]
  BY <1>1, <1>4, <1>5
<1> QED  BY <1>5, <1>6, <1>7, <1>8, <1>9, <1>10 DEF R, rs, IsRange

IndexOf(rs, from, len) == [i \in DOMAIN rs |-> (rs[i].at - from) \div len]

\* The buckets of a window are the runs of its rows' indices.
LEMMA BucketsAre ==
    ASSUME HInv, NEW w \in Windows, NEW rs, rs = RowRange(rows, From(w), now),
           NEW len, len = BucketLen(w, BucketsMax), NEW ix, ix = IndexOf(rs, From(w), len)
    PROVE  /\ len \in Nat \ {0} /\ len = CeilDiv(w, BucketsMax) /\ w <= BucketsMax * len
           /\ ix \in Seq(Int) /\ Len(ix) = Len(rs)
           /\ \A i \in DOMAIN rs : ix[i] \in Nat
           /\ Buckets(w) = [b \in 1..Runs(ix) |-> [start |-> rs[First(ix, b)].at,
                                                   rows |-> SubSeq(rs, First(ix, b), Final(ix, b))]]
<1>1. w \in Nat \ {0} /\ BucketsMax \in Nat \ {0} /\ now \in Nat
  BY HistoryAssumption DEF HInv, HTypeOK
<1>2. len \in Nat \ {0} /\ len = CeilDiv(w, BucketsMax) /\ w <= BucketsMax * len
  <2>1. CeilDiv(w, BucketsMax) \in Nat \ {0} /\ w <= BucketsMax * CeilDiv(w, BucketsMax)
    BY <1>1, CeilDivIs
  <2> QED  BY <2>1 DEF BucketLen
<1>3. From(w) \in Int /\ now - From(w) = w
  BY <1>1 DEF From
<1>4. /\ DOMAIN rs = 1..Len(rs) /\ Len(rs) \in Nat
      /\ \A i \in DOMAIN rs : rs[i].at \in Nat /\ From(w) <= rs[i].at
  BY <1>3, RangeIs DEF IsRange
<1>5. \A i \in DOMAIN rs : (rs[i].at - From(w)) \div len \in Nat
  <2>1. \A i \in DOMAIN rs : rs[i].at - From(w) \in Nat
    BY <1>3, <1>4
  <2> QED  BY <1>2, <2>1, Division
<1>6. ix \in [1..Len(rs) -> Int]
  BY <1>4, <1>5 DEF IndexOf
<1>7. ix \in Seq(Int) /\ Len(ix) = Len(rs)
  BY <1>4, <1>6
<1>8. \A i \in DOMAIN rs : ix[i] = (rs[i].at - From(w)) \div len /\ ix[i] \in Nat
  BY <1>5 DEF IndexOf
<1> DEFINE Index(i) == (rs[i].at - From(w)) \div len
           starts == {i \in DOMAIN rs : i = 1 \/ Index(i) # Index(i - 1)}
<1>9. starts = Starts(ix)
  <2>1. DOMAIN ix = DOMAIN rs
    BY DEF IndexOf
  <2>2. ASSUME NEW i \in DOMAIN rs, i # 1 PROVE i - 1 \in DOMAIN rs
    BY <1>4, <2>2
  <2>3. \A i \in DOMAIN rs : ix[i] = Index(i)
    BY <1>8
  <2> HIDE DEF Index
  <2>4. \A i \in DOMAIN rs : i # 1 => ix[i] = Index(i) /\ ix[i - 1] = Index(i - 1)
    BY <2>2, <2>3
  <2> QED  BY <2>1, <2>4 DEF Starts
<1> DEFINE Until(b) == IF b = Cardinality(starts) THEN Len(rs) ELSE Nth(starts, b + 1) - 1
<1>10. Buckets(w) = [b \in 1..Cardinality(starts) |->
           [start |-> rs[Nth(starts, b)].at, rows |-> SubSeq(rs, Nth(starts, b), Until(b))]]
  BY <1>3 DEF Buckets, RangeBuckets
<1> HIDE DEF starts
<1>11. \A b : First(ix, b) = Nth(starts, b) /\ Final(ix, b) = Until(b) /\ Runs(ix) = Cardinality(starts)
  BY <1>7, <1>9 DEF First, Final, Runs
<1> HIDE DEF Until, Index
<1>12. Buckets(w) = [b \in 1..Runs(ix) |-> [start |-> rs[First(ix, b)].at,
                                           rows |-> SubSeq(rs, First(ix, b), Final(ix, b))]]
  <2> DEFINE InStarts(b) == [start |-> rs[Nth(starts, b)].at, rows |-> SubSeq(rs, Nth(starts, b), Until(b))]
             InRuns(b) == [start |-> rs[First(ix, b)].at, rows |-> SubSeq(rs, First(ix, b), Final(ix, b))]
  <2>1. \A b : InRuns(b) = InStarts(b)
    BY <1>11
  <2>2. Buckets(w) = [b \in 1..Runs(ix) |-> InStarts(b)]
    BY <1>10, <1>11
  <2> HIDE DEF InStarts, InRuns
  <2>3. Buckets(w) = [b \in 1..Runs(ix) |-> InRuns(b)]
    BY <2>1, <2>2
  <2> QED  BY <2>3 DEF InRuns
<1>13. \A i \in DOMAIN rs : ix[i] \in Nat
  BY <1>8
<1> QED  BY <1>2, <1>7, <1>12, <1>13, Zenon

\* The payload of a stored row of these feeds is a JSON array.
LEMMA PayloadIsArray ==
    ASSUME HTypeOK, name \in {"nws_alerts", "swpc_alerts", "usgs_volcanoes"}, NEW r \in RowSet(name, opt)
    PROVE  /\ Decodes(r.payload, "array")
           /\ DOMAIN r.payload.of = 1..Len(r.payload.of) /\ Len(r.payload.of) \in Nat
<1>1. PICK b \in Sound(name), t \in Nat : r = RowOf(name, opt, b, t)
  BY DEF RowSet
<1>2. r.payload.json = "array" /\ r.payload.of = Parse(name, b, opt, t)
  BY <1>1 DEF RowOf, SlotOf, Fetch, Served, Encode
<1>3. b \in Seq(ToSet(b)) /\ DOMAIN b = 1..Len(b) /\ Len(b) \in Nat
  <2>1. b \in Seq(ToSet(b))
    BY FeedAssumption DEF HTypeOK, Sound
  <2> QED  BY <2>1, LenProperties
<1>4. ASSUME NEW s, NEW n \in Nat, DOMAIN s = 1..n, s = [i \in 1..n |-> s[i]]
      PROVE  DOMAIN s = 1..Len(s) /\ Len(s) \in Nat
  BY <1>4
<1>5. ASSUME NEW I \in SUBSET (DOMAIN b) PROVE Cardinality(I) \in Nat
  BY <1>3, PositionsFinite
<1>6. CASE name = "nws_alerts"
  <2> DEFINE s == Parse(name, b, opt, t)
  <2>1. s = [i \in 1..Len(b) |-> Alert(b[i])]
    BY <1>3, <1>6 DEF Parse, ParseNWSAlerts, Apply
  <2> HIDE DEF s
  <2>2. DOMAIN s = 1..Len(b) /\ s = [i \in 1..Len(b) |-> s[i]]
    BY <2>1
  <2> QED  BY <1>2, <1>3, <1>4, <2>2 DEF s, Decodes
<1>7. CASE name = "swpc_alerts"
  <2> DEFINE s == Parse(name, b, opt, t)
             I == {i \in DOMAIN b : /\ b[i].id \in opt.products
                                    /\ b[i].issued # BadTime /\ b[i].issued >= t - opt.window}
             p == Picked(b, I)
  <2>1. s = [i \in DOMAIN p |-> [code |-> p[i].id, issued |-> p[i].issued]]
    BY <1>7 DEF Parse, ParseSWPCAlerts, Apply
  <2>2. Cardinality(I) \in Nat
    BY <1>5
  <2> HIDE DEF s, I
  <2>3. DOMAIN p = 1..Cardinality(I)
    BY DEF Picked
  <2> HIDE DEF p
  <2>4. DOMAIN s = 1..Cardinality(I) /\ s = [i \in 1..Cardinality(I) |-> s[i]]
    BY <2>1, <2>3
  <2> QED  BY <1>2, <1>4, <2>2, <2>4 DEF s, Decodes
<1>8. CASE name = "usgs_volcanoes"
  <2> DEFINE s == Parse(name, b, opt, t)
             I == {i \in DOMAIN b : b[i].level \notin {"NORMAL", ""}}
             p == Picked(b, I)
  <2>1. s = [i \in DOMAIN p |-> [id |-> p[i].id, name |-> p[i].name, region |-> p[i].region, alert |-> p[i].level]]
    BY <1>8 DEF Parse, ParseUSGSVolcanoes, Apply
  <2>2. Cardinality(I) \in Nat
    BY <1>5
  <2> HIDE DEF s, I
  <2>3. DOMAIN p = 1..Cardinality(I)
    BY DEF Picked
  <2> HIDE DEF p
  <2>4. DOMAIN s = 1..Cardinality(I) /\ s = [i \in 1..Cardinality(I) |-> s[i]]
    BY <2>1, <2>3
  <2> QED  BY <1>2, <1>4, <2>2, <2>4 DEF s, Decodes
<1> QED  BY <1>6, <1>7, <1>8

\* The rows, the lengths and the number of the buckets of a window.
LEMMA WindowCovered ==
    ASSUME HInv, NEW w \in Windows
    PROVE  LET bs == Buckets(w)
               onEnd == \E i \in DOMAIN rows : rows[i].at = now
           IN /\ FlattenSeq([b \in DOMAIN bs |-> bs[b].rows]) = RowRange(rows, From(w), now)
              /\ \A b \in DOMAIN bs : bs[b].rows[Len(bs[b].rows)].at - bs[b].start < CeilDiv(w, BucketsMax)
              /\ Len(bs) <= BucketsMax + (IF onEnd THEN 1 ELSE 0)
<1> DEFINE bs == Buckets(w)
           onEnd == \E i \in DOMAIN rows : rows[i].at = now
           rs == RowRange(rows, From(w), now)
           len == BucketLen(w, BucketsMax)
           ix == IndexOf(rs, From(w), len)
           c == Runs(ix)
           R == RowSet(name, opt)
<1>1. w \in Nat \ {0} /\ BucketsMax \in Nat \ {0} /\ now \in Nat /\ From(w) \in Int /\ now - From(w) = w
  BY HistoryAssumption DEF HInv, HTypeOK, From
<1>2. /\ rs \in Seq(R) /\ DOMAIN rs = 1..Len(rs) /\ Len(rs) \in Nat
      /\ \A k \in DOMAIN rs : /\ rs[k] \in R /\ rs[k].at \in Nat /\ From(w) <= rs[k].at /\ rs[k].at <= now
                              /\ \E i \in DOMAIN rows : rows[i] = rs[k]
      /\ \A k, l \in DOMAIN rs : k < l => rs[k].at < rs[l].at
  <2>1. IsRange(rs, From(w))
    BY <1>1, RangeIs
  <2> HIDE DEF rs
  <2> QED  BY <2>1 DEF IsRange
<1>3. /\ len \in Nat \ {0} /\ len = CeilDiv(w, BucketsMax) /\ w <= BucketsMax * len
      /\ ix \in Seq(Int) /\ Len(ix) = Len(rs)
      /\ bs = [b \in 1..c |-> [start |-> rs[First(ix, b)].at, rows |-> SubSeq(rs, First(ix, b), Final(ix, b))]]
  BY BucketsAre
<1>4. \A i \in DOMAIN rs : ix[i] = (rs[i].at - From(w)) \div len /\ rs[i].at - From(w) \in Nat
  BY <1>1, <1>2 DEF IndexOf
<1> HIDE DEF bs, rs, len, ix, R
<1>5. DOMAIN bs = 1..c /\ c \in Nat /\ Len(bs) = c
  <2>1. c \in Nat
    BY <1>3, StartsAre
  <2> HIDE DEF c
  <2> QED  BY <1>3, <2>1
<1>6. \A b \in 1..c : First(ix, b) \in DOMAIN rs /\ Final(ix, b) \in First(ix, b)..Len(rs) /\ Final(ix, b) \in DOMAIN rs
  BY <1>2, <1>3, RunsFollow
<1>7. FlattenSeq([b \in DOMAIN bs |-> bs[b].rows]) = rs
  <2>1. [b \in DOMAIN bs |-> bs[b].rows] = [b \in 1..c |-> SubSeq(rs, First(ix, b), Final(ix, b))]
    BY <1>3, <1>5
  <2> QED  BY <1>2, <1>3, <2>1, FlattenRuns
<1>8. ASSUME NEW b \in 1..c PROVE bs[b].rows[Len(bs[b].rows)].at - bs[b].start < len
  <2> DEFINE f == First(ix, b)
             g == Final(ix, b)
  <2>1. f \in DOMAIN rs /\ g \in f..Len(rs) /\ g \in DOMAIN rs /\ ix[g] = ix[f]
    <3>1. f \in DOMAIN rs /\ g \in f..Len(rs) /\ g \in DOMAIN rs
      BY <1>6
    <3>2. g \in f..g
      BY <1>2, <3>1
    <3> QED  BY <1>3, <3>1, <3>2, RunsCover
  <2>2. bs[b].start = rs[f].at /\ bs[b].rows = SubSeq(rs, f, g)
    BY <1>3
  <2> HIDE DEF f, g
  <2>3. Len(SubSeq(rs, f, g)) = g - f + 1 /\ SubSeq(rs, f, g)[g - f + 1] = rs[g]
    <3>1. f \in Int /\ g \in Int /\ f <= g /\ \A i \in f..g : rs[i] \in R
      BY <1>2, <2>1
    <3>2. /\ Len(SubSeq(rs, f, g)) = IF f <= g THEN g - f + 1 ELSE 0
          /\ \A i \in 1..(g - f + 1) : SubSeq(rs, f, g)[i] = rs[f + i - 1]
      BY <3>1, SubSeqProperties
    <3> QED  BY <3>1, <3>2
  <2> DEFINE x == rs[f].at - From(w)
             y == rs[g].at - From(w)
  <2>4. x \in Nat /\ y \in Nat /\ x <= y /\ x \div len = y \div len
    <3>1. f # g => rs[f].at < rs[g].at
      BY <1>2, <2>1
    <3> QED  BY <1>1, <1>2, <1>4, <2>1, <3>1
  <2>5. y - x < len
    <3> HIDE DEF x, y
    <3> QED  BY <1>3, <2>4, DivisionOrder
  <2> QED  BY <1>1, <1>2, <2>1, <2>2, <2>3, <2>5
<1>9. c <= BucketsMax + (IF onEnd THEN 1 ELSE 0)
  <2> DEFINE top == BucketsMax + (IF onEnd THEN 1 ELSE 0)
             I == Starts(ix)
             f == [i \in I |-> ix[i]]
  <2>1. top \in Nat /\ I \in SUBSET (DOMAIN rs) /\ c = Cardinality(I)
    BY <1>1, <1>2, <1>3, StartsAre DEF Runs
  <2>2. \A i \in DOMAIN rs : ix[i] \in 0..(top - 1)
    <3> SUFFICES ASSUME NEW i \in DOMAIN rs PROVE ix[i] \in 0..(top - 1)
      OBVIOUS
    <3> DEFINE x == rs[i].at - From(w)
    <3>1. x \in Nat /\ ix[i] = x \div len /\ ix[i] \in Nat
      <4>1. x \in Nat /\ ix[i] = x \div len
        BY <1>4
      <4> HIDE DEF x
      <4> QED  BY <1>3, <4>1, Division
    <3>2. x <= w /\ (~onEnd => x < w)
      <4>1. x <= w /\ (x = w => rs[i].at = now)
        BY <1>1, <1>2
      <4>2. rs[i].at = now => onEnd
        BY <1>2
      <4> QED  BY <1>1, <3>1, <4>1, <4>2
    <3> HIDE DEF x, onEnd
    <3>3. x <= BucketsMax * len /\ (~onEnd => x < BucketsMax * len)
      BY <1>1, <1>3, <3>1, <3>2, SMTT(60)
    <3>4. ix[i] <= BucketsMax /\ (~onEnd => ix[i] < BucketsMax)
      BY <1>1, <1>3, <3>1, <3>3, DivisionBound
    <3> QED  BY <1>1, <3>1, <3>4
  <2>3. \A i, j \in I : i < j => ix[i] < ix[j]
    <3> SUFFICES ASSUME NEW i \in I, NEW j \in I, i < j PROVE ix[i] < ix[j]
      OBVIOUS
    <3>1. i \in DOMAIN rs /\ j \in DOMAIN rs /\ j - 1 \in DOMAIN rs /\ i <= j - 1
      BY <1>2, <2>1
    <3>2. j # 1
      BY <1>2, <3>1
    <3>3. ix[j] # ix[j - 1]
      BY <3>2 DEF Starts
    <3>4. \A k, l \in DOMAIN rs : k <= l => ix[k] <= ix[l]
      <4> SUFFICES ASSUME NEW k \in DOMAIN rs, NEW l \in DOMAIN rs, k <= l PROVE ix[k] <= ix[l]
        OBVIOUS
      <4> DEFINE x == rs[k].at - From(w)
                 y == rs[l].at - From(w)
      <4>1. x \in Nat /\ y \in Nat /\ ix[k] = x \div len /\ ix[l] = y \div len
        BY <1>4
      <4>2. x <= y
        <5>1. k # l => rs[k].at < rs[l].at
          BY <1>2
        <5> QED  BY <1>1, <1>2, <5>1
      <4> HIDE DEF x, y
      <4> QED  BY <1>3, <4>1, <4>2, DivisionOrder
    <3>5. ix[i] <= ix[j - 1] /\ ix[j - 1] <= ix[j]
      <4>1. j - 1 <= j
        BY <1>2, <3>1
      <4> QED  BY <3>1, <3>4, <4>1
    <3>6. ix[i] \in Int /\ ix[j] \in Int /\ ix[j - 1] \in Int
      BY <2>1, <2>2, <3>1
    <3> QED  BY <3>3, <3>5, <3>6
  <2>4. f \in Injection(I, 0..(top - 1))
    <3>1. f \in [I -> 0..(top - 1)]
      BY <2>1, <2>2
    <3>2. \A i, j \in I : f[i] = f[j] => i = j
      <4> SUFFICES ASSUME NEW i \in I, NEW j \in I, ix[i] = ix[j] PROVE i = j
        OBVIOUS
      <4>1. i \in Int /\ j \in Int /\ ix[i] \in Int
        BY <1>2, <2>1, <2>2
      <4>2. ~(i < j) /\ ~(j < i)
        BY <2>3, <4>1
      <4> QED  BY <4>1, <4>2
    <3> HIDE DEF f, top
    <3> QED  BY <3>1, <3>2 DEF Injection, IsInjective
  <2>5. IsFiniteSet(0..(top - 1)) /\ Cardinality(0..(top - 1)) = top
    <3>1. Cardinality(0..(top - 1)) = IF 0 > top - 1 THEN 0 ELSE (top - 1) - 0 + 1
      BY <2>1, FS_Interval, SMTT(60)
    <3> QED  BY <2>1, <3>1, FS_Interval
  <2> HIDE DEF f, top
  <2>6. Cardinality(I) <= Cardinality(0..(top - 1))
    BY <2>4, <2>5, FS_Injection
  <2> QED  BY <2>1, <2>5, <2>6 DEF top
<1> QED  BY <1>3, <1>5, <1>7, <1>8, <1>9 DEF bs, rs

\* Where data starts: at a row, the first that the look-back reaches.
LEMMA StartIsWhereRowsBegin ==
    ASSUME HInv, NEW w \in Windows, DataStartFor(From(w)) > From(w)
    PROVE  /\ \E i \in DOMAIN rows : rows[i].at = DataStartFor(From(w))
           /\ \A i \in DOMAIN rows : rows[i].at < DataStartFor(From(w)) => rows[i].at < From(w) - LookBack
<1> DEFINE back == From(w) - LookBack
           rs == RowRange(rows, back, now)
<1>1. back \in Int /\ From(w) \in Int /\ From(w) <= now /\ now \in Nat
  BY HistoryAssumption DEF HInv, HTypeOK, From
<1>2. ~(rs = <<>> \/ rs[1].at <= From(w)) /\ DataStartFor(From(w)) = rs[1].at
  BY <1>1 DEF DataStartFor
<1> HIDE DEF back, rs
<1>3. /\ DOMAIN rs = 1..Len(rs) /\ Len(rs) \in Nat /\ rs \in Seq(RowSet(name, opt))
      /\ \A k \in DOMAIN rs : rs[k].at \in Nat /\ \E i \in DOMAIN rows : rows[i] = rs[k]
      /\ \A k, l \in DOMAIN rs : k < l => rs[k].at < rs[l].at
      /\ \A i \in DOMAIN rows : back <= rows[i].at => \E k \in DOMAIN rs : rs[k] = rows[i]
  <2>1. IsRange(rs, back)
    BY <1>1, RangeIs DEF rs
  <2> QED  BY <2>1 DEF IsRange
<1>4. 1 \in DOMAIN rs
  BY <1>2, <1>3, EmptySeq
<1>5. ASSUME NEW i \in DOMAIN rows, rows[i].at < rs[1].at PROVE rows[i].at < back
  <2>1. rows[i].at \in Nat
    BY RowsAre DEF HInv
  <2>2. SUFFICES ASSUME back <= rows[i].at PROVE FALSE
    BY <1>1, <2>1
  <2>3. PICK k \in DOMAIN rs : rs[k] = rows[i]
    BY <1>3, <2>2
  <2>4. k # 1 => rs[1].at < rs[k].at
    BY <1>3, <1>4
  <2> QED  BY <1>3, <1>4, <1>5, <2>1, <2>3, <2>4
<1> QED  BY <1>2, <1>3, <1>4, <1>5 DEF back

\* The last point of the alerts counts what the page lists.
LEMMA LastPointIsThePage ==
    ASSUME HInv, NEW w \in Windows, name = "swpc_alerts",
           Buckets(w) # <<>>, LatestRow(rows).validator = cached[1].validator
    PROVE  LET p == AlertsPoint(Buckets(w)[Len(Buckets(w))])
           IN p.warning + p.watch + p.alert = Len(cached[1].payload)
<1> DEFINE bs == Buckets(w)
           rs == RowRange(rows, From(w), now)
           ix == IndexOf(rs, From(w), BucketLen(w, BucketsMax))
           c == Runs(ix)
           R == RowSet(name, opt)
           latest == LatestRow(rows)
<1>1. From(w) \in Int
  BY HistoryAssumption DEF HInv, HTypeOK, From
<1>2. /\ rs \in Seq(R) /\ DOMAIN rs = 1..Len(rs) /\ Len(rs) \in Nat
      /\ \A k \in DOMAIN rs : rs[k] \in R
      /\ rs # <<>> => rows # <<>> /\ rs[Len(rs)] = latest
  BY <1>1, RangeIs DEF IsRange
<1>3. /\ ix \in Seq(Int) /\ Len(ix) = Len(rs)
      /\ bs = [b \in 1..c |-> [start |-> rs[First(ix, b)].at, rows |-> SubSeq(rs, First(ix, b), Final(ix, b))]]
  BY BucketsAre
<1>4. c \in Nat
  BY <1>3, StartsAre
<1> HIDE DEF bs, rs, ix, R, latest
<1>5. c > 0 /\ Len(bs) = c
  <2> HIDE DEF c
  <2>1. bs # <<>>
    BY DEF bs
  <2> QED  BY <1>3, <1>4, <2>1
<1>6. Final(ix, c) = Len(rs) /\ First(ix, c) \in 1..Len(rs) /\ bs[c].rows = SubSeq(rs, First(ix, c), Len(rs))
  <2>1. c \in 1..c
    BY <1>4, <1>5
  <2> QED  BY <1>3, <1>5, <2>1, RunsFollow
<1> HIDE DEF c
<1>7. bs[c].rows[Len(bs[c].rows)] = rs[Len(rs)]
  <2> DEFINE f == First(ix, c)
             g == Len(rs)
  <2>1. f \in Int /\ g \in Int /\ f <= g /\ \A i \in f..g : rs[i] \in R
    BY <1>2, <1>6
  <2> HIDE DEF f, g
  <2>2. /\ Len(SubSeq(rs, f, g)) = IF f <= g THEN g - f + 1 ELSE 0
        /\ \A i \in 1..(g - f + 1) : SubSeq(rs, f, g)[i] = rs[f + i - 1]
    BY <2>1, SubSeqProperties
  <2>3. Len(SubSeq(rs, f, g)) = g - f + 1 /\ SubSeq(rs, f, g)[g - f + 1] = rs[g]
    BY <2>1, <2>2
  <2> QED  BY <1>6, <2>3 DEF f, g
<1>8. latest \in R /\ rs[Len(rs)] = latest /\ rows # <<>>
  <2>1. Len(rs) \in DOMAIN rs /\ rs # <<>>
    BY <1>2, <1>6, EmptySeq
  <2> QED  BY <1>2, <2>1
<1> DEFINE last == latest.payload.of
<1>9. DOMAIN last = 1..Len(last) /\ Len(last) \in Nat
  BY <1>8, PayloadIsArray DEF HInv, R
<1>10. last = cached[1].payload
  <2>1. PICK b \in Sound(name), t \in Nat : latest = RowOf(name, opt, b, t)
    BY <1>8 DEF R, RowSet
  <2>2. PICK d \in Sound(name), u \in Nat : cached = <<SlotOf(name, opt, d, u)>>
    BY <1>8 DEF HInv, HTypeOK, RowsAreCached, SlotSet
  <2>3. SlotOf(name, opt, b, t).validator = SlotOf(name, opt, d, u).validator
    <3>1. latest.validator = cached[1].validator
      BY DEF latest
    <3> QED  BY <2>1, <2>2, <3>1 DEF RowOf
  <2>4. SlotOf(name, opt, b, t).payload = SlotOf(name, opt, d, u).payload
    BY <2>3, PayloadOfValidator, NameKnown DEF HInv
  <2>5. last = SlotOf(name, opt, b, t).payload
    BY <2>1 DEF RowOf, Encode
  <2>6. cached[1] = SlotOf(name, opt, d, u)
    BY <2>2
  <2> QED  BY <2>4, <2>5, <2>6
<1> DEFINE Of(S) == Cardinality({i \in DOMAIN last : FieldOr(last[i], "severity", "") \in S})
           p == AlertsPoint(bs[c])
<1>11. \A S : Of(S) \in Nat
  <2> SUFFICES ASSUME NEW S PROVE Of(S) \in Nat
    OBVIOUS
  <2> DEFINE I == {i \in DOMAIN last : FieldOr(last[i], "severity", "") \in S}
  <2>1. I \in SUBSET (1..Len(last))
    BY <1>9
  <2> HIDE DEF I
  <2>2. Cardinality(I) \in Nat
    BY <1>9, <2>1, PositionsFinite
  <2> QED  BY <2>2 DEF I
<1>12. /\ p.warning = Of({"Warning", "WARNING", "warning"})
       /\ p.watch = Of({"Watch", "WATCH", "watch"})
       /\ p.alert = Len(last) - p.warning - p.watch
  BY <1>7, <1>8 DEF AlertsPoint
<1>13. p.warning \in Nat /\ p.watch \in Nat
  BY <1>11, <1>12
<1> HIDE DEF p, last, Of
<1>14. p.warning + p.watch + p.alert = Len(last)
  BY <1>9, <1>12, <1>13
<1> QED  BY <1>5, <1>10, <1>14 DEF bs, p

\* Every answer covers its window, for every window, number of buckets, length
\* of the history and feed.
THEOREM AnswersCoverWindows == Spec => []AnswerCoversWindow
<1>1. HInv => AnswerCoversWindow
  <2> SUFFICES ASSUME HInv PROVE AnswerCoversWindow
    OBVIOUS
  <2> QED  BY WindowCovered, StartIsWhereRowsBegin, LastPointIsThePage DEF AnswerCoversWindow
<1> QED  BY <1>1, HistoryTypeCorrect, PTL

---------------------------------------------------------------------------
(* Peaks.  Finite sets of numbers have a maximum.                          *)

\* A function on a finite set has finitely many values.
LEMMA ImageFinite ==
    ASSUME NEW D, IsFiniteSet(D), NEW f, DOMAIN f = D
    PROVE  IsFiniteSet({f[x] : x \in D})
<1> DEFINE T == {f[x] : x \in D}
           g == [x \in D |-> f[x]]
<1>1. g \in Surjection(D, T)
  BY DEF Surjection
<1> HIDE DEF g, T
<1>2. IsFiniteSet(T)
  BY <1>1, FS_Surjection
<1> QED  BY <1>2 DEF T

\* A finite set of numbers that is not empty has a maximum.
LEMMA MaxExists ==
    ASSUME NEW S \in SUBSET Nat, IsFiniteSet(S), S # {}
    PROVE  \E m \in S : \A x \in S : m >= x
<1> DEFINE W == {T \in SUBSET S : T # {} /\ \A m \in T : \E x \in T : ~(m >= x)}
<1>1. SUFFICES ASSUME W # {} PROVE FALSE
  <2>1. S \notin W => \E m \in S : \A x \in S : m >= x
    OBVIOUS
  <2> HIDE DEF W
  <2> QED  BY <2>1
<1>2. W \subseteq FiniteSubsetsOf(S)
  BY FS_FiniteSubsetsOfFinite
<1> HIDE DEF W
<1>3. PICK T \in W : \A U \in W : <<U, T>> \notin StrictSubsetOrdering(S)
  BY <1>1, <1>2, FS_StrictSubsetOrderingWellFounded, WFMin
<1>4. T \in SUBSET S /\ T # {} /\ \A m \in T : \E x \in T : ~(m >= x)
  BY <1>3 DEF W
<1>5. PICK x \in T : TRUE
  BY <1>4
<1> DEFINE U == T \ {x}
<1>6. U \notin W
  <2>1. U \subseteq T /\ U # T /\ U \in SUBSET S
    BY <1>4, <1>5
  <2> HIDE DEF U
  <2>2. <<U, T>> \in StrictSubsetOrdering(S)
    BY <1>4, <2>1 DEF StrictSubsetOrdering
  <2> QED  BY <1>3, <2>2
<1>7. CASE U = {}
  <2>1. \A y \in T : y = x
    BY <1>7
  <2> QED  BY <1>4, <1>5, <2>1
<1>8. CASE U # {}
  <2>1. PICK m \in U : \A y \in U : m >= y
    BY <1>4, <1>6, <1>8 DEF W
  <2>2. m \in T /\ m \in Nat /\ x \in Nat
    BY <1>4, <2>1
  <2>3. CASE m >= x
    <3>1. \A y \in T : m >= y
      BY <2>1, <2>3
    <3> QED  BY <1>4, <2>2, <3>1
  <2>4. CASE ~(m >= x)
    <3>1. \A y \in T : y \in Nat
      BY <1>4
    <3>2. \A y \in T : x >= y
      BY <2>1, <2>2, <2>4, <3>1
    <3> QED  BY <1>4, <1>5, <3>2
  <2> QED  BY <2>3, <2>4
<1> QED  BY <1>7, <1>8

\* MaxOf is that maximum, or zero.
LEMMA MaxOfIs ==
    ASSUME NEW S \in SUBSET Nat, IsFiniteSet(S)
    PROVE  MaxOf(S) \in Nat /\ MaxOf(S) \in S \cup {0} /\ \A x \in S : x <= MaxOf(S)
<1> DEFINE T == S \cup {0}
<1>1. T \in SUBSET Nat /\ T # {} /\ IsFiniteSet(T)
  BY FS_AddElement
<1> HIDE DEF T
<1>2. \E m \in T : \A x \in T : m >= x
  BY <1>1, MaxExists
<1>3. MaxOf(S) \in T /\ \A x \in T : MaxOf(S) >= x
  BY <1>2 DEF MaxOf, Max, T
<1> QED  BY <1>1, <1>3 DEF T

\* The maximum of what a function has on the positions of a sequence.
LEMMA MaxOfImage ==
    ASSUME NEW n \in Nat, NEW f, DOMAIN f = 1..n, \A i \in 1..n : f[i] \in Nat
    PROVE  LET m == MaxOf({f[i] : i \in 1..n})
           IN m \in Nat /\ (m = 0 \/ \E i \in 1..n : m = f[i]) /\ \A i \in 1..n : f[i] <= m
<1> DEFINE S == {f[i] : i \in 1..n}
<1>1. S \in SUBSET Nat
  OBVIOUS
<1>2. IsFiniteSet(S)
  <2>1. IsFiniteSet(1..n)
    BY FS_Interval
  <2> QED  BY <2>1, ImageFinite
<1>3. (\A i \in 1..n : f[i] \in S) /\ (\A x \in S : \E i \in 1..n : x = f[i])
  OBVIOUS
<1>4. MaxOf(S) \in Nat /\ MaxOf(S) \in S \cup {0} /\ \A x \in S : x <= MaxOf(S)
  <2> HIDE DEF S
  <2> QED  BY <1>1, <1>2, MaxOfIs
<1> HIDE DEF S
<1>5. (MaxOf(S) = 0 \/ \E i \in 1..n : MaxOf(S) = f[i]) /\ \A i \in 1..n : f[i] <= MaxOf(S)
  BY <1>3, <1>4
<1> QED  BY <1>4, <1>5 DEF S

\* The buckets of a window hold the rows of its range, no other, and each.
LEMMA BucketsHoldRange ==
    ASSUME HInv, NEW w \in Windows, NEW bs, bs = Buckets(w), NEW rs, rs = RowRange(rows, From(w), now)
    PROVE  /\ Len(bs) \in Nat /\ DOMAIN bs = 1..Len(bs)
           /\ \A b \in DOMAIN bs : /\ DOMAIN bs[b].rows = 1..Len(bs[b].rows) /\ Len(bs[b].rows) \in Nat
                                   /\ \A k \in DOMAIN bs[b].rows : \E i \in DOMAIN rs : bs[b].rows[k] = rs[i]
           /\ \A i \in DOMAIN rs : \E b \in DOMAIN bs : \E k \in DOMAIN bs[b].rows : bs[b].rows[k] = rs[i]
<1> DEFINE ix == IndexOf(rs, From(w), BucketLen(w, BucketsMax))
           c == Runs(ix)
           R == RowSet(name, opt)
           f(b) == First(ix, b)
           g(b) == Final(ix, b)
<1>1. From(w) \in Int
  BY HistoryAssumption DEF HInv, HTypeOK, From
<1>2. rs \in Seq(R) /\ DOMAIN rs = 1..Len(rs) /\ Len(rs) \in Nat /\ \A i \in DOMAIN rs : rs[i] \in R
  BY <1>1, RangeIs DEF IsRange
<1>3. /\ ix \in Seq(Int) /\ Len(ix) = Len(rs)
      /\ bs = [b \in 1..c |-> [start |-> rs[f(b)].at, rows |-> SubSeq(rs, f(b), g(b))]]
  BY BucketsAre
<1> HIDE DEF ix, R
<1>4. c \in Nat
  BY <1>3, StartsAre
<1>5. DOMAIN bs = 1..c /\ Len(bs) = c
  <2> HIDE DEF c
  <2> QED  BY <1>3, <1>4
<1>6. \A b \in 1..c : f(b) \in 1..Len(rs) /\ g(b) \in f(b)..Len(rs)
  BY <1>3, RunsFollow
<1>7. \A p \in 1..Len(rs) : \E b \in 1..c : p \in f(b)..g(b)
  BY <1>3, RunsCover
<1> HIDE DEF c, f, g
<1>8. ASSUME NEW b \in 1..c
      PROVE  /\ DOMAIN bs[b].rows = 1..(g(b) - f(b) + 1) /\ Len(bs[b].rows) = g(b) - f(b) + 1
             /\ \A k \in 1..(g(b) - f(b) + 1) : bs[b].rows[k] = rs[f(b) + k - 1]
  <2>1. f(b) \in Int /\ g(b) \in Int /\ f(b) <= g(b) /\ \A i \in f(b)..g(b) : rs[i] \in R
    BY <1>2, <1>6
  <2>2. bs[b].rows = SubSeq(rs, f(b), g(b))
    BY <1>3
  <2>3. /\ SubSeq(rs, f(b), g(b)) \in Seq(R)
        /\ Len(SubSeq(rs, f(b), g(b))) = IF f(b) <= g(b) THEN g(b) - f(b) + 1 ELSE 0
        /\ \A k \in 1..(g(b) - f(b) + 1) : SubSeq(rs, f(b), g(b))[k] = rs[f(b) + k - 1]
    BY <2>1, SubSeqProperties
  <2>4. DOMAIN SubSeq(rs, f(b), g(b)) = 1..Len(SubSeq(rs, f(b), g(b)))
    BY <2>3, LenProperties
  <2> QED  BY <2>1, <2>2, <2>3, <2>4
<1>9. ASSUME NEW b \in 1..c
      PROVE  /\ DOMAIN bs[b].rows = 1..Len(bs[b].rows) /\ Len(bs[b].rows) \in Nat
             /\ \A k \in DOMAIN bs[b].rows : \E i \in DOMAIN rs : bs[b].rows[k] = rs[i]
  <2>1. f(b) \in 1..Len(rs) /\ g(b) \in f(b)..Len(rs)
    BY <1>6
  <2>2. \A k \in 1..(g(b) - f(b) + 1) : f(b) + k - 1 \in DOMAIN rs
    BY <1>2, <2>1
  <2> DEFINE n == g(b) - f(b) + 1
  <2>3. n \in Nat
    BY <1>2, <2>1
  <2>4. /\ DOMAIN bs[b].rows = 1..n /\ Len(bs[b].rows) = n
        /\ \A k \in 1..n : bs[b].rows[k] = rs[f(b) + k - 1] /\ f(b) + k - 1 \in DOMAIN rs
    BY <1>8, <2>2
  <2> HIDE DEF n
  <2> QED  BY <2>3, <2>4
<1>10. ASSUME NEW i \in DOMAIN rs
       PROVE  \E b \in 1..c : \E k \in DOMAIN bs[b].rows : bs[b].rows[k] = rs[i]
  <2>1. PICK b \in 1..c : i \in f(b)..g(b)
    BY <1>2, <1>7
  <2> DEFINE k == i - f(b) + 1
  <2>2. k \in 1..(g(b) - f(b) + 1) /\ f(b) + k - 1 = i
    BY <1>2, <1>6, <2>1
  <2> HIDE DEF k
  <2>3. k \in DOMAIN bs[b].rows /\ bs[b].rows[k] = rs[i]
    BY <1>8, <2>2
  <2> QED  BY <2>3
<1> QED  BY <1>4, <1>5, <1>9, <1>10

\* A count is a number, of alerts the payload has.
LEMMA CountedIs ==
    ASSUME NEW payload, DOMAIN payload = 1..Len(payload), Len(payload) \in Nat, NEW c
    PROVE  Counted(payload, c) \in Nat /\ Counted(payload, c) <= Len(payload)
<1> DEFINE I == {i \in DOMAIN payload : FieldOr(payload[i], "event", "") \in Counters[c]}
<1>1. I \in SUBSET (1..Len(payload))
  OBVIOUS
<1> HIDE DEF I
<1>2. Cardinality(I) \in Nat /\ Cardinality(I) <= Len(payload)
  BY <1>1, PositionsFinite
<1> QED  BY <1>2 DEF I, Counted

\* A point of the alerts chart holds the largest counts of its bucket.
LEMMA PointIs ==
    ASSUME HTypeOK, name = "nws_alerts", NEW b, NEW n \in Nat, DOMAIN b.rows = 1..n,
           \A k \in 1..n : b.rows[k] \in RowSet(name, opt),
           NEW pt, pt = NWSPoint(b)
    PROVE  /\ pt.activeCount \in Nat
           /\ pt.activeCount = 0 \/ \E k \in 1..n : pt.activeCount = Len(b.rows[k].payload.of)
           /\ \A k \in 1..n : Len(b.rows[k].payload.of) <= pt.activeCount
           /\ \A c \in DOMAIN Counters :
                 /\ pt.eventCounts[c] \in Nat /\ pt.eventCounts[c] <= pt.activeCount
                 /\ \A k \in 1..n : Counted(b.rows[k].payload.of, c) <= pt.eventCounts[c]
<1> DEFINE of(k) == b.rows[k].payload.of
           arrays == {of(i) : i \in {j \in DOMAIN b.rows : Decodes(b.rows[j].payload, "array")}}
           lens == [k \in 1..n |-> Len(of(k))]
<1>1. \A k \in 1..n : /\ Decodes(b.rows[k].payload, "array")
                      /\ DOMAIN of(k) = 1..Len(of(k)) /\ Len(of(k)) \in Nat
  BY PayloadIsArray
<1> HIDE DEF of
<1>2. arrays = {of(k) : k \in 1..n}
  BY <1>1
<1>3. /\ pt.activeCount = MaxOf({Len(a) : a \in arrays})
      /\ pt.eventCounts = [c \in DOMAIN Counters |-> MaxOf({Counted(a, c) : a \in arrays})]
  BY DEF NWSPoint, of
<1> HIDE DEF arrays
<1>4. {Len(a) : a \in arrays} = {lens[k] : k \in 1..n}
  BY <1>2
<1>5. \A k \in 1..n : lens[k] = Len(of(k)) /\ lens[k] \in Nat
  BY <1>1
<1>6. DOMAIN lens = 1..n
  OBVIOUS
<1> HIDE DEF lens
<1>7. /\ pt.activeCount \in Nat
      /\ pt.activeCount = 0 \/ \E k \in 1..n : pt.activeCount = lens[k]
      /\ \A k \in 1..n : lens[k] <= pt.activeCount
  <2> DEFINE m == MaxOf({lens[k] : k \in 1..n})
  <2>1. m \in Nat /\ (m = 0 \/ \E k \in 1..n : m = lens[k]) /\ \A k \in 1..n : lens[k] <= m
    BY <1>5, <1>6, MaxOfImage
  <2>2. pt.activeCount = m
    BY <1>3, <1>4
  <2> HIDE DEF m
  <2> QED  BY <2>1, <2>2
<1>8. ASSUME NEW c \in DOMAIN Counters
      PROVE  /\ pt.eventCounts[c] \in Nat /\ pt.eventCounts[c] <= pt.activeCount
             /\ \A k \in 1..n : Counted(of(k), c) <= pt.eventCounts[c]
  <2> DEFINE nums == [k \in 1..n |-> Counted(of(k), c)]
  <2>1. \A k \in 1..n : nums[k] = Counted(of(k), c) /\ nums[k] \in Nat /\ nums[k] <= lens[k]
    BY <1>1, <1>5, CountedIs
  <2>2. DOMAIN nums = 1..n
    OBVIOUS
  <2>3. {Counted(a, c) : a \in arrays} = {nums[k] : k \in 1..n}
    BY <1>2
  <2> HIDE DEF nums
  <2> DEFINE m == MaxOf({nums[k] : k \in 1..n})
  <2>4. m \in Nat /\ (m = 0 \/ \E k \in 1..n : m = nums[k]) /\ \A k \in 1..n : nums[k] <= m
    BY <2>1, <2>2, MaxOfImage
  <2>5. pt.eventCounts[c] = m
    BY <1>3, <2>3
  <2> HIDE DEF m
  <2>6. m <= pt.activeCount
    BY <1>5, <1>7, <2>1, <2>4
  <2> QED  BY <2>1, <2>4, <2>5, <2>6
<1> QED  BY <1>5, <1>7, <1>8 DEF of

\* An alert filed as tornado, thunderstorm or flood is counted as such.
LEMMA FiledIsCounted ==
    ASSUME HTypeOK, name = "nws_alerts", NEW r \in RowSet(name, opt)
    PROVE  LET a == r.payload.of
               Filed(cat) == Cardinality({k \in DOMAIN a : a[k].category = cat})
           IN /\ Filed("Tornado") \in Nat /\ Filed("Tornado") <= Counted(a, "tornado")
              /\ Filed("SevereThunderstorm") \in Nat /\ Filed("SevereThunderstorm") <= Counted(a, "severeTstorm")
              /\ Filed("FlashFlood") \in Nat /\ Filed("FlashFlood") <= Counted(a, "flashFlood")
<1> DEFINE a == r.payload.of
           Filed(cat) == Cardinality({k \in DOMAIN a : a[k].category = cat})
<1>1. PICK b \in Sound(name), t \in Nat : r = RowOf(name, opt, b, t)
  BY DEF RowSet
<1>2. a = [i \in DOMAIN b |-> Alert(b[i])]
  BY <1>1 DEF RowOf, SlotOf, Fetch, Served, Encode, Parse, ParseNWSAlerts, Apply
<1>3. DOMAIN a = 1..Len(a) /\ Len(a) \in Nat
  BY PayloadIsArray
<1> HIDE DEF a
<1>4. ASSUME NEW k \in DOMAIN a, NEW cat \in {"Tornado", "SevereThunderstorm", "FlashFlood"}, a[k].category = cat
      PROVE  FieldOr(a[k], "event", "") \in Categories[cat]
  <2> DEFINE f == b[k]
             awips == IF f.awips = <<>> THEN NoAWIPS ELSE Head(f.awips)
  <2>1. a[k] = Alert(f)
    BY <1>2
  <2>2. a[k].category = Categorize(f.event, awips) /\ a[k].event = f.event /\ "event" \in DOMAIN a[k]
    BY <2>1 DEF Alert
  <2> HIDE DEF f, awips
  <2>3. FieldOr(a[k], "event", "") = f.event
    BY <2>2 DEF FieldOr
  <2>4. cat # "Tsunami" /\ cat # "Unknown"
    OBVIOUS
  <2>5. PICK c \in DOMAIN Categories : f.event \in Categories[c]
    BY <1>4, <2>2, <2>4 DEF Categorize
  <2>6. cat = CHOOSE d \in DOMAIN Categories : f.event \in Categories[d]
    BY <1>4, <2>2, <2>4 DEF Categorize
  <2>7. f.event \in Categories[cat]
    BY <2>5, <2>6
  <2> QED  BY <2>3, <2>7
<1>5. /\ Categories["Tornado"] \subseteq Counters["tornado"]
      /\ Categories["SevereThunderstorm"] \subseteq Counters["severeTstorm"]
      /\ Categories["FlashFlood"] \subseteq Counters["flashFlood"]
  BY DEF Categories, Counters
<1>6. ASSUME NEW cat \in {"Tornado", "SevereThunderstorm", "FlashFlood"}, NEW c,
             Categories[cat] \subseteq Counters[c]
      PROVE  Filed(cat) \in Nat /\ Filed(cat) <= Counted(a, c)
  <2> DEFINE I == {k \in DOMAIN a : a[k].category = cat}
             J == {k \in DOMAIN a : FieldOr(a[k], "event", "") \in Counters[c]}
  <2>1. I \subseteq J
    BY <1>4, <1>6
  <2>2. J \in SUBSET (1..Len(a))
    BY <1>3
  <2> HIDE DEF I, J
  <2>3. IsFiniteSet(J) /\ IsFiniteSet(I) /\ Cardinality(I) <= Cardinality(J)
    BY <1>3, <2>1, <2>2, PositionsFinite, FS_Subset
  <2>4. Cardinality(I) \in Nat
    BY <2>3, FS_CardinalityType
  <2> QED  BY <2>3, <2>4 DEF I, J, Counted
<1> HIDE DEF Filed
<1>7. /\ Filed("Tornado") \in Nat /\ Filed("Tornado") <= Counted(a, "tornado")
      /\ Filed("SevereThunderstorm") \in Nat /\ Filed("SevereThunderstorm") <= Counted(a, "severeTstorm")
      /\ Filed("FlashFlood") \in Nat /\ Filed("FlashFlood") <= Counted(a, "flashFlood")
  BY <1>5, <1>6
<1> QED  BY <1>7 DEF a, Filed

\* The maxima over the buckets of a window are those over its rows.
LEMMA PeaksInWindow ==
    ASSUME HInv, name = "nws_alerts", NEW w \in Windows
    PROVE  LET pts == Apply(NWSPoint, Buckets(w))
               rs == RowRange(rows, From(w), now)
               Filed(i, cat) == Cardinality({k \in DOMAIN rs[i].payload.of : rs[i].payload.of[k].category = cat})
               Peak(c) == MaxOf({pts[p].eventCounts[c] : p \in DOMAIN pts})
           IN /\ MaxOf({pts[p].activeCount : p \in DOMAIN pts}) = MaxOf({Len(rs[i].payload.of) : i \in DOMAIN rs})
              /\ \A i \in DOMAIN rs : /\ Filed(i, "Tornado") <= Peak("tornado")
                                    /\ Filed(i, "SevereThunderstorm") <= Peak("severeTstorm")
                                    /\ Filed(i, "FlashFlood") <= Peak("flashFlood")
              /\ \A p \in DOMAIN pts, c \in DOMAIN Counters : pts[p].eventCounts[c] <= pts[p].activeCount
<1> DEFINE bs == Buckets(w)
           pts == Apply(NWSPoint, bs)
           rs == RowRange(rows, From(w), now)
           R == RowSet(name, opt)
           Filed(i, cat) == Cardinality({k \in DOMAIN rs[i].payload.of : rs[i].payload.of[k].category = cat})
           Peak(c) == MaxOf({pts[p].eventCounts[c] : p \in DOMAIN pts})
           n == Len(bs)
<1>1. From(w) \in Int
  BY HistoryAssumption DEF HInv, HTypeOK, From
<1>2. DOMAIN rs = 1..Len(rs) /\ Len(rs) \in Nat /\ \A i \in DOMAIN rs : rs[i] \in R
  BY <1>1, RangeIs DEF IsRange
<1>3. /\ n \in Nat /\ DOMAIN bs = 1..n
      /\ \A b \in 1..n : /\ DOMAIN bs[b].rows = 1..Len(bs[b].rows) /\ Len(bs[b].rows) \in Nat
                         /\ \A k \in DOMAIN bs[b].rows : \E i \in DOMAIN rs : bs[b].rows[k] = rs[i]
      /\ \A i \in DOMAIN rs : \E b \in 1..n : \E k \in DOMAIN bs[b].rows : bs[b].rows[k] = rs[i]
  BY BucketsHoldRange
<1>4. DOMAIN pts = 1..n /\ \A p \in 1..n : pts[p] = NWSPoint(bs[p])
  BY <1>3 DEF Apply
<1> HIDE DEF bs, pts, rs, n, R
<1>5. ASSUME NEW p \in 1..n
      PROVE  /\ pts[p].activeCount \in Nat
             /\ pts[p].activeCount = 0 \/ \E i \in DOMAIN rs : pts[p].activeCount = Len(rs[i].payload.of)
             /\ \A c \in DOMAIN Counters : pts[p].eventCounts[c] \in Nat /\ pts[p].eventCounts[c] <= pts[p].activeCount
             /\ \A k \in DOMAIN bs[p].rows :
                   /\ Len(bs[p].rows[k].payload.of) <= pts[p].activeCount
                   /\ \A c \in DOMAIN Counters : Counted(bs[p].rows[k].payload.of, c) <= pts[p].eventCounts[c]
  <2> DEFINE m == Len(bs[p].rows)
  <2>1. m \in Nat /\ DOMAIN bs[p].rows = 1..m /\ \A k \in 1..m : \E i \in DOMAIN rs : bs[p].rows[k] = rs[i]
    BY <1>3, SMTT(60)
  <2>2. \A k \in 1..m : bs[p].rows[k] \in RowSet(name, opt)
    BY <1>2, <2>1 DEF R
  <2> HIDE DEF m
  <2>3. /\ pts[p].activeCount \in Nat
        /\ pts[p].activeCount = 0 \/ \E k \in 1..m : pts[p].activeCount = Len(bs[p].rows[k].payload.of)
        /\ \A k \in 1..m : Len(bs[p].rows[k].payload.of) <= pts[p].activeCount
        /\ \A c \in DOMAIN Counters :
              /\ pts[p].eventCounts[c] \in Nat /\ pts[p].eventCounts[c] <= pts[p].activeCount
              /\ \A k \in 1..m : Counted(bs[p].rows[k].payload.of, c) <= pts[p].eventCounts[c]
    BY <1>4, <2>1, <2>2, PointIs DEF HInv
  <2> QED  BY <2>1, <2>3
<1>6. \A i \in DOMAIN rs : DOMAIN rs[i].payload.of = 1..Len(rs[i].payload.of) /\ Len(rs[i].payload.of) \in Nat
  BY <1>2, PayloadIsArray DEF HInv, R
<1>7. MaxOf({pts[p].activeCount : p \in DOMAIN pts}) = MaxOf({Len(rs[i].payload.of) : i \in DOMAIN rs})
  <2> DEFINE act == [p \in 1..n |-> pts[p].activeCount]
             lens == [i \in 1..Len(rs) |-> Len(rs[i].payload.of)]
             A == MaxOf({act[p] : p \in 1..n})
             B == MaxOf({lens[i] : i \in 1..Len(rs)})
  <2>1. DOMAIN act = 1..n /\ \A p \in 1..n : act[p] = pts[p].activeCount /\ act[p] \in Nat
    BY <1>5
  <2>2. DOMAIN lens = 1..Len(rs) /\ \A i \in 1..Len(rs) : lens[i] = Len(rs[i].payload.of) /\ lens[i] \in Nat
    BY <1>2, <1>6
  <2>3. {pts[p].activeCount : p \in DOMAIN pts} = {act[p] : p \in 1..n}
    BY <1>4
  <2>4. {Len(rs[i].payload.of) : i \in DOMAIN rs} = {lens[i] : i \in 1..Len(rs)}
    BY <1>2
  <2> HIDE DEF act, lens
  <2>5. A \in Nat /\ (A = 0 \/ \E p \in 1..n : A = act[p]) /\ \A p \in 1..n : act[p] <= A
    <3>1. n \in Nat /\ DOMAIN act = 1..n /\ \A p \in 1..n : act[p] \in Nat
      BY <1>3, <2>1
    <3> QED  BY <3>1, MaxOfImage
  <2>6. B \in Nat /\ (B = 0 \/ \E i \in 1..Len(rs) : B = lens[i]) /\ \A i \in 1..Len(rs) : lens[i] <= B
    BY <1>2, <2>2, MaxOfImage
  <2> HIDE DEF A, B
  <2>7. ASSUME NEW p \in 1..n PROVE act[p] <= B
    <3>1. act[p] = 0 \/ \E i \in 1..Len(rs) : act[p] = lens[i]
      BY <1>2, <1>5, <2>1, <2>2
    <3> QED  BY <2>6, <3>1
  <2>8. ASSUME NEW i \in 1..Len(rs) PROVE lens[i] <= A
    <3>1. PICK b \in 1..n : \E k \in DOMAIN bs[b].rows : bs[b].rows[k] = rs[i]
      BY <1>2, <1>3
    <3>2. PICK k \in DOMAIN bs[b].rows : bs[b].rows[k] = rs[i]
      BY <3>1
    <3>3. lens[i] <= act[b]
      BY <1>5, <2>1, <2>2, <3>2
    <3> QED  BY <2>1, <2>2, <2>5, <3>3
  <2>9. A <= B /\ B <= A
    BY <2>5, <2>6, <2>7, <2>8
  <2>10. A = B
    BY <2>5, <2>6, <2>9
  <2> QED  BY <2>3, <2>4, <2>10 DEF A, B
<1>8. ASSUME NEW c \in DOMAIN Counters
      PROVE  Peak(c) \in Nat /\ \A p \in 1..n : pts[p].eventCounts[c] <= Peak(c)
  <2> DEFINE ev == [p \in 1..n |-> pts[p].eventCounts[c]]
             A == MaxOf({ev[p] : p \in 1..n})
  <2>1. DOMAIN ev = 1..n /\ \A p \in 1..n : ev[p] = pts[p].eventCounts[c] /\ ev[p] \in Nat
    BY <1>5
  <2>2. {pts[p].eventCounts[c] : p \in DOMAIN pts} = {ev[p] : p \in 1..n}
    BY <1>4
  <2> HIDE DEF ev
  <2>3. A \in Nat /\ \A p \in 1..n : ev[p] <= A
    <3>1. n \in Nat /\ DOMAIN ev = 1..n /\ \A p \in 1..n : ev[p] \in Nat
      BY <1>3, <2>1
    <3> QED  BY <3>1, MaxOfImage
  <2> QED  BY <2>1, <2>2, <2>3
<1>9. ASSUME NEW i \in DOMAIN rs, NEW c \in DOMAIN Counters
      PROVE  Counted(rs[i].payload.of, c) <= Peak(c)
  <2>1. PICK b \in 1..n : \E k \in DOMAIN bs[b].rows : bs[b].rows[k] = rs[i]
    BY <1>3
  <2>2. PICK k \in DOMAIN bs[b].rows : bs[b].rows[k] = rs[i]
    BY <2>1
  <2>3. Counted(rs[i].payload.of, c) <= pts[b].eventCounts[c] /\ pts[b].eventCounts[c] \in Nat
    BY <1>5, <2>2
  <2>4. Counted(rs[i].payload.of, c) \in Nat
    BY <1>6, CountedIs
  <2>5. Peak(c) \in Nat /\ pts[b].eventCounts[c] <= Peak(c)
    BY <1>8
  <2> HIDE DEF Peak
  <2> QED  BY <2>3, <2>4, <2>5
<1>10. ASSUME NEW i \in DOMAIN rs
       PROVE  /\ Filed(i, "Tornado") <= Peak("tornado")
              /\ Filed(i, "SevereThunderstorm") <= Peak("severeTstorm")
              /\ Filed(i, "FlashFlood") <= Peak("flashFlood")
  <2> DEFINE a == rs[i].payload.of
  <2>1. /\ Filed(i, "Tornado") \in Nat /\ Filed(i, "Tornado") <= Counted(a, "tornado")
        /\ Filed(i, "SevereThunderstorm") \in Nat /\ Filed(i, "SevereThunderstorm") <= Counted(a, "severeTstorm")
        /\ Filed(i, "FlashFlood") \in Nat /\ Filed(i, "FlashFlood") <= Counted(a, "flashFlood")
    BY <1>2, FiledIsCounted DEF HInv, R
  <2>2. ASSUME NEW c \in DOMAIN Counters PROVE Counted(a, c) \in Nat /\ Peak(c) \in Nat /\ Counted(a, c) <= Peak(c)
    <3>1. Counted(a, c) \in Nat
      BY <1>6, CountedIs
    <3>2. Peak(c) \in Nat /\ Counted(a, c) <= Peak(c)
      BY <1>8, <1>9
    <3> QED  BY <3>1, <3>2
  <2>3. {"tornado", "severeTstorm", "flashFlood"} \subseteq DOMAIN Counters
    BY DEF Counters
  <2> HIDE DEF Filed, Peak, a
  <2> QED  BY <2>1, <2>2, <2>3
<1>11. \A p \in DOMAIN pts, c \in DOMAIN Counters : pts[p].eventCounts[c] <= pts[p].activeCount
  BY <1>4, <1>5
<1> QED  BY <1>7, <1>10, <1>11 DEF pts, rs, bs

\* No peak is lost to downsampling, for every window, number of buckets,
\* number of rows and alerts of a row.
THEOREM PeaksAreKept == Spec => []PeakNotMissed
<1>1. HInv => PeakNotMissed
  BY PeaksInWindow DEF PeakNotMissed
<1> QED  BY <1>1, HistoryTypeCorrect, PTL

---------------------------------------------------------------------------
(* Volcanoes, whatever their levels are.                                   *)

\* A row's volcanoes are finitely many.
LEMMA LevelsAre ==
    ASSUME HTypeOK, name = "usgs_volcanoes", NEW r \in RowSet(name, opt), NEW field
    PROVE  IsFiniteSet(DOMAIN LevelsOf(r, field))
<1> DEFINE list == r.payload.of
           D == DOMAIN list
           key == [i \in D |-> VolcanoKey(list[i])]
           keys == {VolcanoKey(list[i]) : i \in D}
<1>1. D = 1..Len(list) /\ Len(list) \in Nat
  BY PayloadIsArray
<1>2. DOMAIN LevelsOf(r, field) = keys
  BY DEF LevelsOf
<1>3. DOMAIN key = D /\ keys = {key[i] : i \in D}
  OBVIOUS
<1> HIDE DEF key, keys, D
<1>4. IsFiniteSet(D)
  BY <1>1, FS_Interval
<1> QED  BY <1>2, <1>3, <1>4, ImageFinite

\* C has one change of each volcano whose level differs, to its new level, and
\* of no other.
AreChanges(C, at, prev, cur) ==
    /\ IsFiniteSet(C)
    /\ \A c \in C : c.at = at
    /\ \A v : \/ \E c \in C : {d \in C : d.volcano = v} = {c} /\ c.current = LevelIn(cur, v)
              \/ {d \in C : d.volcano = v} = {} /\ LevelIn(prev, v) = LevelIn(cur, v)

\* ChangesBetween computes these: appearances, changes of level, disappearances.
LEMMA ChangesBetweenAre ==
    ASSUME NEW at, NEW prev, NEW cur, IsFiniteSet(DOMAIN prev), IsFiniteSet(DOMAIN cur)
    PROVE  AreChanges(ChangesBetween(at, prev, cur), at, prev, cur)
<1> DEFINE Came == {u \in DOMAIN cur : u \notin DOMAIN prev \/ prev[u] # cur[u]}
           Left == DOMAIN prev \ DOMAIN cur
           In == [v \in Came |-> [at |-> at, volcano |-> v, prior |-> IF v \in DOMAIN prev THEN prev[v] ELSE "",
                                  current |-> cur[v], gone |-> FALSE]]
           Out == [v \in Left |-> [at |-> at, volcano |-> v, prior |-> prev[v], current |-> "", gone |-> TRUE]]
           C == ChangesBetween(at, prev, cur)
<1>1. C = {In[v] : v \in Came} \cup {Out[v] : v \in Left}
  BY DEF ChangesBetween
<1>2. /\ \A v \in Came : In[v].volcano = v /\ In[v].at = at /\ In[v].current = cur[v]
      /\ \A v \in Left : Out[v].volcano = v /\ Out[v].at = at /\ Out[v].current = ""
  OBVIOUS
<1>3. IsFiniteSet(C)
  <2>1. IsFiniteSet(Came) /\ IsFiniteSet(Left)
    BY FS_Subset
  <2>2. DOMAIN In = Came /\ DOMAIN Out = Left
    OBVIOUS
  <2> HIDE DEF In, Out, Came, Left, C
  <2>4. \A f, S : IsFiniteSet(S) /\ DOMAIN f = S => IsFiniteSet({f[v] : v \in S})
    BY ImageFinite
  <2>5. IsFiniteSet({In[v] : v \in Came}) /\ IsFiniteSet({Out[v] : v \in Left})
    BY <2>1, <2>2, <2>4
  <2> QED  BY <1>1, <2>5, FS_Union
<1>4. \A v \in Came : v \notin Left /\ LevelIn(cur, v) = cur[v]
  <2>1. \A v \in Came : v \in DOMAIN cur /\ v \notin Left
    OBVIOUS
  <2> QED  BY <2>1 DEF LevelIn, FieldOr
<1>5. \A v \in Left : v \notin Came /\ LevelIn(cur, v) = ""
  <2>1. \A v \in Left : v \notin DOMAIN cur /\ v \notin Came
    OBVIOUS
  <2> QED  BY <2>1 DEF LevelIn, FieldOr
<1>6. \A v : v \notin Came /\ v \notin Left => LevelIn(prev, v) = LevelIn(cur, v)
  <2>1. \A v : v \notin Came /\ v \notin Left =>
            \/ v \in DOMAIN cur /\ v \in DOMAIN prev /\ prev[v] = cur[v]
            \/ v \notin DOMAIN cur /\ v \notin DOMAIN prev
    OBVIOUS
  <2> QED  BY <2>1 DEF LevelIn, FieldOr
<1> HIDE DEF In, Out, Came, Left, C
<1>7. \A c \in C : (\E v \in Came : c = In[v]) \/ (\E v \in Left : c = Out[v])
  BY <1>1
<1>8. \A c \in C : c.at = at
  <2>1. SUFFICES ASSUME NEW c \in C PROVE c.at = at
    OBVIOUS
  <2>2. CASE \E v \in Came : c = In[v]
    BY <1>2, <2>2
  <2>3. CASE \E v \in Left : c = Out[v]
    BY <1>2, <2>3
  <2> QED  BY <1>7, <2>2, <2>3
<1>9. \A c \in C : \/ c.volcano \in Came /\ c = In[c.volcano]
                   \/ c.volcano \in Left /\ c = Out[c.volcano]
  <2>1. \A v \in Came : In[v].volcano \in Came /\ In[v] = In[In[v].volcano]
    BY <1>2
  <2>2. \A v \in Left : Out[v].volcano \in Left /\ Out[v] = Out[Out[v].volcano]
    BY <1>2
  <2> QED  BY <1>7, <2>1, <2>2
<1>10. ASSUME NEW v \in Came PROVE {d \in C : d.volcano = v} = {In[v]} /\ In[v] \in C
  <2>1. v \notin Left /\ In[v] \in C /\ In[v].volcano = v
    BY <1>1, <1>2, <1>4
  <2>2. \A d \in C : d.volcano = v => d = In[v]
    BY <1>9, <2>1
  <2> QED  BY <2>1, <2>2
<1>11. ASSUME NEW v \in Left PROVE {d \in C : d.volcano = v} = {Out[v]} /\ Out[v] \in C
  <2>1. v \notin Came /\ Out[v] \in C /\ Out[v].volcano = v
    BY <1>1, <1>2, <1>5
  <2>2. \A d \in C : d.volcano = v => d = Out[v]
    BY <1>9, <2>1
  <2> QED  BY <2>1, <2>2
<1>12. ASSUME NEW v, v \notin Came, v \notin Left PROVE {d \in C : d.volcano = v} = {}
  BY <1>9, <1>12
<1>13. ASSUME NEW v
       PROVE  \/ \E c \in C : {d \in C : d.volcano = v} = {c} /\ c.current = LevelIn(cur, v)
              \/ {d \in C : d.volcano = v} = {} /\ LevelIn(prev, v) = LevelIn(cur, v)
  <2> DEFINE mine == {d \in C : d.volcano = v}
  <2>1. CASE v \in Came
    <3>1. mine = {In[v]} /\ In[v] \in C
      BY <1>10, <2>1
    <3>2. In[v].current = LevelIn(cur, v)
      BY <1>2, <1>4, <2>1
    <3> HIDE DEF mine
    <3>3. \E c \in C : mine = {c} /\ c.current = LevelIn(cur, v)
      BY <3>1, <3>2
    <3> QED  BY <3>3 DEF mine
  <2>2. CASE v \in Left
    <3>1. mine = {Out[v]} /\ Out[v] \in C
      BY <1>11, <2>2
    <3>2. Out[v].current = LevelIn(cur, v)
      BY <1>2, <1>5, <2>2
    <3> HIDE DEF mine
    <3>3. \E c \in C : mine = {c} /\ c.current = LevelIn(cur, v)
      BY <3>1, <3>2
    <3> QED  BY <3>3 DEF mine
  <2>3. CASE v \notin Came /\ v \notin Left
    BY <1>6, <1>12, <2>3
  <2> QED  BY <2>1, <2>2, <2>3
<1> QED  BY <1>3, <1>8, <1>13 DEF AreChanges, C

\* C[i] leads from the levels of row i - 1 to those of row i, in the order of time.
LeadOn(n, at, L, C) ==
    /\ n \in Nat
    /\ \A i \in 1..n : at[i] \in Nat
    /\ \A i, j \in 1..n : i < j => at[i] < at[j]
    /\ \A i \in 2..n : AreChanges(C[i], at[i], L[i - 1], L[i])

\* The changes of v up to time t.
UpTo(n, C, v, t) == {c \in UNION {C[k] : k \in 2..n} : c.volcano = v /\ c.at <= t}

\* Replaying the changes of v up to the i-th row gives its level there.
LEMMA ChangesTell ==
    ASSUME NEW n, NEW at, NEW L, NEW C, LeadOn(n, at, L, C), NEW v, NEW i \in 1..n
    PROVE  After(UpTo(n, C, v, at[i]), LevelIn(L[1], v)) = LevelIn(L[i], v)
<1> USE DEF LeadOn
<1> DEFINE all == UNION {C[k] : k \in 2..n}
           D(k) == UpTo(n, C, v, at[k])
           P(k) == After(D(k), LevelIn(L[1], v)) = LevelIn(L[k], v)
           New(k) == {c \in C[k] : c.volcano = v}
<1>1. \A c \in all : \E k \in 2..n : c \in C[k] /\ c.at = at[k]
  BY DEF AreChanges
<1>2. \A k \in 2..n : \A c \in C[k] : c \in all /\ c.at = at[k]
  BY DEF AreChanges
<1>3. P(1)
  <2>1. \A k \in 2..n : 1 \in 1..n /\ k \in 1..n /\ at[1] < at[k] /\ at[1] \in Nat /\ at[k] \in Nat
    OBVIOUS
  <2>2. \A k \in 2..n : ~(at[k] <= at[1])
    BY <2>1
  <2>3. D(1) = {}
    BY <1>1, <2>2 DEF UpTo
  <2> QED  BY <2>3 DEF After
<1>4. ASSUME NEW k \in 2..n, P(k - 1) PROVE P(k)
  <2>1. k - 1 \in 1..n /\ k \in 1..n /\ at[k - 1] \in Nat /\ at[k] \in Nat /\ at[k - 1] < at[k]
    OBVIOUS
  <2>2. \A j \in 2..n : at[j] <= at[k] => at[j] <= at[k - 1] \/ j = k
    <3>1. SUFFICES ASSUME NEW j \in 2..n, j # k, at[j] <= at[k] PROVE at[j] <= at[k - 1]
      OBVIOUS
    <3>2. j \in 1..n /\ at[j] \in Nat
      OBVIOUS
    <3>3. ~(k < j)
      BY <2>1, <3>1, <3>2
    <3>4. j = k - 1 \/ j < k - 1
      BY <3>1, <3>3
    <3> QED  BY <2>1, <3>2, <3>4
  <2>3. D(k) = D(k - 1) \cup New(k)
    <3>1. \A c \in D(k) : c \in D(k - 1) \/ c \in New(k)
      BY <1>1, <2>2 DEF UpTo
    <3>2. \A c : c.at \in {at[j] : j \in 2..n} => (c.at <= at[k - 1] => c.at <= at[k])
      BY <2>1
    <3>3. \A c \in D(k - 1) : c \in D(k)
      BY <1>1, <3>2 DEF UpTo
    <3>4. \A c \in New(k) : c \in D(k)
      BY <1>2, <2>1 DEF UpTo
    <3> QED  BY <3>1, <3>3, <3>4
  <2>4. (\A c \in New(k) : c.at = at[k]) /\ \A c \in D(k - 1) : c.at <= at[k - 1] /\ c.at \in Nat
    <3>1. \A c \in D(k - 1) : c \in all /\ c.at <= at[k - 1]
      BY DEF UpTo
    <3>2. \A c \in all : c.at \in Nat
      BY <1>1
    <3> QED  BY <1>2, <3>1, <3>2
  <2>5. AreChanges(C[k], at[k], L[k - 1], L[k])
    OBVIOUS
  <2> HIDE DEF D
  <2>6. CASE \E c \in C[k] : New(k) = {c} /\ c.current = LevelIn(L[k], v)
    <3>1. PICK c \in C[k] : New(k) = {c} /\ c.current = LevelIn(L[k], v)
      BY <2>6
    <3>2. c \in D(k) /\ \A d \in D(k) : d = c \/ d \in D(k - 1)
      BY <2>3, <3>1
    <3>3. c.at = at[k] /\ (\A d \in D(k) : d.at <= c.at) /\ \A d \in D(k) : c.at <= d.at => d = c
      BY <2>1, <2>4, <3>1, <3>2
    <3> DEFINE last == CHOOSE e \in D(k) : \A d \in D(k) : d.at <= e.at
    <3>4. last \in D(k) /\ \A d \in D(k) : d.at <= last.at
      BY <3>2, <3>3
    <3>5. last = c
      BY <3>2, <3>3, <3>4
    <3> QED  BY <3>1, <3>2, <3>5 DEF After
  <2>7. CASE New(k) = {} /\ LevelIn(L[k - 1], v) = LevelIn(L[k], v)
    <3>1. D(k) = D(k - 1)
      BY <2>3, <2>7
    <3> QED  BY <1>4, <2>7, <3>1
  <2> QED  BY <2>5, <2>6, <2>7 DEF AreChanges
<1> HIDE DEF P
<1> DEFINE Bad == {k \in 1..n : ~P(k)}
<1>5. Bad = {}
  <2>1. SUFFICES ASSUME Bad # {} PROVE FALSE
    OBVIOUS
  <2>2. Bad \in SUBSET Nat /\ (\A k \in Bad : k \in 1..n /\ ~P(k)) /\ \A k \in 1..n : k \notin Bad => P(k)
    OBVIOUS
  <2> HIDE DEF Bad
  <2>3. PICK m \in Bad : \A k \in Bad : m <= k
    BY <2>1, <2>2, Least
  <2>4. m \in 2..n
    BY <1>3, <2>2, <2>3
  <2>5. m - 1 \notin Bad /\ m - 1 \in 1..n
    BY <2>3, <2>4
  <2> QED  BY <1>4, <2>2, <2>3, <2>4, <2>5
<1>6. P(i)
  BY <1>5
<1> QED  BY <1>6 DEF P

\* A capped feed has every change before its last.
LEMMA FeedHasBefore ==
    ASSUME NEW all, IsFiniteSet(all), NEW out \in SUBSET all, NEW max \in Nat,
           \A c \in all : c.at \in Nat,
           Cardinality(out) = Min({max, Cardinality(all)}),
           \A c \in all \ out, d \in out : ~Before(c, d),
           NEW t \in Nat,
           Cardinality(out) < max \/ \E c \in out : t < c.at
    PROVE  \A c \in all : c.at <= t => c \in out
<1>1. CASE Cardinality(out) < max
  <2>1. Cardinality(all) \in Nat
    BY FS_CardinalityType
  <2>2. \E m \in {max, Cardinality(all)} : \A k \in {max, Cardinality(all)} : m <= k
    BY <2>1
  <2>3. Cardinality(out) \in {max, Cardinality(all)}
    BY <2>2 DEF Min
  <2>4. Cardinality(out) = Cardinality(all)
    BY <1>1, <2>3
  <2>5. all = out
    BY <2>4, FS_Subset
  <2> QED  BY <2>5
<1>2. CASE \E c \in out : t < c.at
  <2>1. PICK d \in out : t < d.at
    BY <1>2
  <2>2. ASSUME NEW c \in all, c.at <= t PROVE c.at < d.at
    BY <2>1, <2>2
  <2> QED  BY <2>2 DEF Before
<1> QED  BY <1>1, <1>2

\* The feed of a window, up to a row it tells of.
LEMMA VolcanoesInWindow ==
    ASSUME HInv, name = "usgs_volcanoes", NEW w \in Windows, NEW field, NEW out \in FeedsBy(w, field),
           NEW rs, rs = RowRange(rows, From(w), now), NEW i \in DOMAIN rs,
           Cardinality(out) < ChangesMax \/ \E c \in out : rs[i].at < c.at,
           NEW v
    PROVE  After({c \in out : c.volcano = v /\ c.at <= rs[i].at}, LevelIn(LevelsOf(rs[1], field), v))
               = LevelIn(LevelsOf(rs[i], field), v)
<1> DEFINE n == Len(rs)
           at == [k \in 1..n |-> rs[k].at]
           L == [k \in DOMAIN rs |-> LevelsOf(rs[k], field)]
           C == [k \in 2..n |-> ChangesBetween(rs[k].at, L[k - 1], L[k])]
           all == AllChanges(rs, L)
<1>1. HTypeOK /\ From(w) \in Int /\ ChangesMax \in Nat
  BY HistoryAssumption DEF HInv, HTypeOK, From
<1>2. /\ n \in Nat /\ DOMAIN rs = 1..n
      /\ \A k \in 1..n : rs[k] \in RowSet(name, opt) /\ rs[k].at \in Nat
      /\ \A k, l \in 1..n : k < l => rs[k].at < rs[l].at
  BY <1>1, RangeIs DEF IsRange
<1> HIDE DEF n
<1>3. \A k \in 1..n : L[k] = LevelsOf(rs[k], field)
  BY <1>2
<1>4. /\ \A k \in 1..n : at[k] = rs[k].at /\ at[k] \in Nat
      /\ \A k, l \in 1..n : k < l => at[k] < at[l]
  BY <1>2
<1>5. \A k \in 2..n : k \in 1..n /\ k - 1 \in 1..n
  BY <1>2
<1>6. all = UNION {C[k] : k \in 2..n}
  BY DEF AllChanges, n
<1>7. \A k \in 1..n : IsFiniteSet(DOMAIN L[k])
  BY <1>1, <1>2, <1>3, LevelsAre
<1>8. /\ out \in SUBSET all
      /\ Cardinality(out) = Min({ChangesMax, Cardinality(all)})
      /\ \A c \in all \ out, d \in out : ~Before(c, d)
  BY DEF FeedsBy, ChangeFeeds
<1> HIDE DEF L
<1>9. \A k \in 2..n : C[k] = ChangesBetween(at[k], L[k - 1], L[k])
  BY <1>4, <1>5
<1>10. DOMAIN C = 2..n
  OBVIOUS
<1> HIDE DEF at, C, all
<1>11. \A k \in 2..n : AreChanges(C[k], at[k], L[k - 1], L[k])
  <2>1. SUFFICES ASSUME NEW k \in 2..n PROVE AreChanges(C[k], at[k], L[k - 1], L[k])
    OBVIOUS
  <2> DEFINE prev == L[k - 1]
             cur == L[k]
  <2>2. IsFiniteSet(DOMAIN prev) /\ IsFiniteSet(DOMAIN cur) /\ C[k] = ChangesBetween(at[k], prev, cur)
    BY <1>5, <1>7, <1>9
  <2> HIDE DEF prev, cur
  <2>3. AreChanges(ChangesBetween(at[k], prev, cur), at[k], prev, cur)
    BY <2>2, ChangesBetweenAre
  <2> QED  BY <2>2, <2>3 DEF prev, cur
<1>12. i \in 1..n /\ 1 \in 1..n
  BY <1>2
<1>13. After(UpTo(n, C, v, at[i]), LevelIn(L[1], v)) = LevelIn(L[i], v)
  <2>1. LeadOn(n, at, L, C)
    BY <1>2, <1>4, <1>11 DEF LeadOn
  <2> QED  BY <1>12, <2>1, ChangesTell
<1>14. IsFiniteSet(all) /\ \A c \in all : c.at \in Nat
  <2> DEFINE S == {C[k] : k \in 2..n}
  <2>1. IsFiniteSet(S)
    <3>1. 2 \in Int /\ n \in Int
      BY <1>2
    <3>2. IsFiniteSet(2..n)
      BY <3>1, FS_Interval
    <3> QED  BY <1>10, <3>2, ImageFinite
  <2>2. \A T \in S : IsFiniteSet(T)
    BY <1>11 DEF AreChanges
  <2>3. all = UNION S
    BY <1>6
  <2>4. \A c \in all : \E k \in 2..n : c.at = at[k]
    BY <1>6, <1>11 DEF AreChanges
  <2>5. \A c \in all : c.at \in Nat
    BY <1>4, <1>5, <2>4
  <2> HIDE DEF S
  <2> QED  BY <2>1, <2>2, <2>3, <2>5, FS_UNION
<1>15. \A c \in all : c.at <= at[i] => c \in out
  BY <1>1, <1>4, <1>12, <1>14, <1>8, FeedHasBefore
<1>16. {c \in out : c.volcano = v /\ c.at <= rs[i].at} = UpTo(n, C, v, at[i])
  BY <1>4, <1>6, <1>8, <1>12, <1>15 DEF UpTo
<1> QED  BY <1>3, <1>12, <1>13, <1>16

\* Replayed, the feed of volcano changes gives the levels of every row it tells
\* of, for any levels, window, cap, number of rows and volcanoes of a list.
THEOREM FeedExplainsLevels == Spec => []VolcanoFeedExplains
<1>1. ASSUME HInv PROVE VolcanoFeedExplains
  <2> USE <1>1
  <2>1. SUFFICES ASSUME name = "usgs_volcanoes", NEW w \in Windows, NEW field \in {"alertLevel", "alert"},
                        NEW out \in FeedsBy(w, field)
                 PROVE  Explains(out, RowRange(rows, From(w), now), field)
    BY DEF VolcanoFeedExplains
  <2> DEFINE rs == RowRange(rows, From(w), now)
  <2> HIDE DEF rs
  <2>2. SUFFICES ASSUME NEW i \in DOMAIN rs, Cardinality(out) < ChangesMax \/ \E c \in out : rs[i].at < c.at,
                        NEW v
                 PROVE  After({c \in out : c.volcano = v /\ c.at <= rs[i].at}, LevelIn(LevelsOf(rs[1], field), v))
                            = LevelIn(LevelsOf(rs[i], field), v)
    BY DEF Explains, rs
  <2>3. rs = RowRange(rows, From(w), now)
    BY DEF rs
  <2> QED  BY <2>1, <2>2, <2>3, VolcanoesInWindow
<1> QED  BY <1>1, HistoryTypeCorrect, PTL
=============================================================================
