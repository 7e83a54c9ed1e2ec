-------------------------- MODULE ImageProxyProofs --------------------------
(***************************************************************************)
(* Proofs about ImageProxy and its two tiers, for any keys, versions,      *)
(* sizes and caps, any number of handlers and pollers, and crashes.        *)
(*                                                                         *)
(* The first parts are about the operators the tiers are built from: the   *)
(* community modules' sums and folds, Max, Min and RemoveAt.  Inv is the   *)
(* inductive invariant: both tiers' accounting, every manifest some        *)
(* process holds lists an index, and who waits for which Refresh.  HashInv *)
(* relates the hash a Refresh compares with to the last announcement.      *)
(* RecentInv orders the versions of a key: announced, stored on disk, held *)
(* by a Refresh, served by the upstream.                                   *)
(***************************************************************************)
EXTENDS ImageProxy, FiniteSetTheorems, SequenceTheorems, WellFoundedInduction, TLAPS
---------------------------------------------------------------------------
(* Sums and folds over finite sets, as the community modules define them:  *)
(* CHOOSE a recursive function on the subsets.                             *)

\* A minimal member of a set of finite sets: no other member lies in it.
LEMMA MinimalSet ==
    ASSUME NEW S, IsFiniteSet(S), NEW B, B \subseteq SUBSET S, B # {}
    PROVE  \E m \in B : IsFiniteSet(m) /\ \A u \in SUBSET m : u # m => u \notin B
<1>1. IsWellFoundedOn(StrictSubsetOrdering(S), FiniteSubsetsOf(S))
  BY FS_StrictSubsetOrderingWellFounded
<1>2. FiniteSubsetsOf(S) = SUBSET S
  BY FS_FiniteSubsetsOfFinite
<1>3. PICK m \in B : \A u \in B : ~ (<<u, m>> \in StrictSubsetOrdering(S))
  BY <1>1, <1>2, WFMin
<1>4. ASSUME NEW u \in SUBSET m, u # m, u \in B PROVE FALSE
  <2>1. <<u, m>> \in (SUBSET S) \X (SUBSET S)
    BY <1>3, <1>4
  <2> QED  BY <1>3, <1>4, <2>1 DEF StrictSubsetOrdering
<1>5. IsFiniteSet(m)
  BY <1>3, FS_Subset
<1> QED  BY <1>3, <1>4, <1>5

\* f computes, for each set of D, the fold that takes the members out in the
\* order of pick.
FoldsBy(f, D, base, pick, step) ==
    \A s \in D : f[s] = IF s = {} THEN base ELSE step[pick[s]][f[s \ {pick[s]}]]

Picks(pick, D) == \A s \in D : s # {} => pick[s] \in s

\* The fold exists: it can be extended from the sets of n members to those of
\* n + 1.
LEMMA FoldExists ==
    ASSUME NEW S, IsFiniteSet(S), NEW V, NEW base \in V,
           NEW pick, Picks(pick, SUBSET S),
           NEW step \in [S -> [V -> V]]
    PROVE  \E f \in [SUBSET S -> V] : FoldsBy(f, SUBSET S, base, pick, step)
<1> DEFINE Upto(n) == {s \in SUBSET S : Cardinality(s) <= n}
           Works(n) == \E f \in [Upto(n) -> V] : FoldsBy(f, Upto(n), base, pick, step)
           Bad == {n \in Nat : ~Works(n)}
<1>1. Bad = {}
  <2>1. SUFFICES ASSUME Bad # {} PROVE FALSE
    OBVIOUS
  <2>2. IsWellFoundedOn(OpToRel(<, Nat), Nat) /\ Bad \subseteq Nat
    BY NatLessThanWellFounded
  <2>3. PICK n \in Bad : \A i \in Bad : <<i, n>> \notin OpToRel(<, Nat)
    <3> HIDE DEF Bad
    <3> QED  BY <2>1, <2>2, WFMin
  <2>4. n \in Nat /\ ~Works(n)
    OBVIOUS
  <2>5. \A s \in SUBSET S : /\ IsFiniteSet(s) /\ Cardinality(s) \in Nat /\ (Cardinality(s) = 0 <=> s = {})
                            /\ s # {} => Cardinality(s \ {pick[s]}) = Cardinality(s) - 1
    <3>1. \A s \in SUBSET S : IsFiniteSet(s)
      BY FS_Subset
    <3> QED  BY <3>1, FS_EmptySet, FS_CardinalityType, FS_RemoveElement DEF Picks
  <2>6. CASE n = 0
    <3> DEFINE g == [s \in Upto(0) |-> base]
    <3>1. \A s \in Upto(0) : s = {}
      <4> HIDE DEF Bad, Works
      <4>1. TAKE s \in Upto(0)
      <4>2. s \in SUBSET S /\ Cardinality(s) <= 0
        OBVIOUS
      <4>3. Cardinality(s) \in Nat /\ (Cardinality(s) = 0 <=> s = {})
        BY <2>5, <4>2
      <4> QED  BY <4>2, <4>3
    <3>2. g \in [Upto(0) -> V] /\ FoldsBy(g, Upto(0), base, pick, step)
      BY <3>1 DEF FoldsBy
    <3> QED  BY <2>4, <2>6, <3>2
  <2>7. CASE n # 0
    <3>1. n - 1 \in Nat /\ n - 1 < n
      BY <2>4, <2>7
    <3>2. Works(n - 1)
      BY <2>3, <2>4, <3>1 DEF OpToRel
    <3>3. PICK f \in [Upto(n - 1) -> V] : FoldsBy(f, Upto(n - 1), base, pick, step)
      BY <3>2
    <3> DEFINE g == [s \in Upto(n) |-> IF s \in Upto(n - 1) THEN f[s]
                                        ELSE step[pick[s]][f[s \ {pick[s]}]]]
    <3>4. ASSUME NEW s \in Upto(n), s # {}
          PROVE  s \ {pick[s]} \in Upto(n - 1) /\ s \ {pick[s]} \in Upto(n) /\ pick[s] \in S
      <4> HIDE DEF Bad, Works, g
      <4>1. s \in SUBSET S /\ Cardinality(s) <= n
        OBVIOUS
      <4>2. s \ {pick[s]} \in SUBSET S /\ pick[s] \in S
        BY <3>4, <4>1 DEF Picks
      <4>3. Cardinality(s) \in Nat /\ Cardinality(s \ {pick[s]}) = Cardinality(s) - 1
        BY <2>5, <3>4, <4>1
      <4>4. Cardinality(s) - 1 <= n - 1 /\ Cardinality(s) - 1 <= n
        BY <2>4, <4>1, <4>3
      <4> QED  BY <4>2, <4>3, <4>4
    <3>5. {} \in Upto(n - 1)
      <4> HIDE DEF Bad, Works, g
      <4>1. Cardinality({}) = 0
        BY <2>5
      <4> QED  BY <3>1, <4>1
    <3>6. g \in [Upto(n) -> V]
      <4>1. ASSUME NEW s \in Upto(n) PROVE g[s] \in V
        <5>1. CASE s \in Upto(n - 1)
          BY <5>1
        <5>2. CASE s \notin Upto(n - 1)
          <6>1. s # {}
            BY <3>5, <5>2
          <6>2. s \ {pick[s]} \in Upto(n - 1) /\ pick[s] \in S
            BY <3>4, <6>1
          <6>3. f[s \ {pick[s]}] \in V
            <7> HIDE DEF Upto
            <7> QED  BY <6>2
          <6>4. g[s] = step[pick[s]][f[s \ {pick[s]}]]
            BY <5>2
          <6>5. step[pick[s]] \in [V -> V]
            BY <6>2
          <6> HIDE DEF g, Bad, Works, Upto
          <6> QED  BY <6>3, <6>4, <6>5
        <5> QED  BY <5>1, <5>2
      <4> QED  BY <4>1
    <3>7. FoldsBy(g, Upto(n), base, pick, step)
      <4>1. ASSUME NEW s \in Upto(n)
            PROVE  g[s] = IF s = {} THEN base ELSE step[pick[s]][g[s \ {pick[s]}]]
        <5>1. CASE s = {}
          <6>1. g[s] = f[s] /\ f[s] = base
            BY <3>3, <3>5, <5>1 DEF FoldsBy
          <6> QED  BY <5>1, <6>1
        <5>2. CASE s # {}
          <6>1. s \ {pick[s]} \in Upto(n - 1) /\ s \ {pick[s]} \in Upto(n)
            BY <3>4, <5>2
          <6>2. g[s \ {pick[s]}] = f[s \ {pick[s]}]
            BY <6>1
          <6>3. g[s] = step[pick[s]][f[s \ {pick[s]}]]
            <7>1. CASE s \in Upto(n - 1)
              BY <3>3, <5>2, <7>1 DEF FoldsBy
            <7>2. CASE s \notin Upto(n - 1)
              BY <7>2
            <7> QED  BY <7>1, <7>2
          <6> QED  BY <5>2, <6>2, <6>3
        <5> QED  BY <5>1, <5>2
      <4> HIDE DEF g
      <4> QED  BY <4>1 DEF FoldsBy
    <3> HIDE DEF g
    <3> QED  BY <2>4, <3>6, <3>7
  <2> QED  BY <2>6, <2>7
<1>2. Cardinality(S) \in Nat /\ Upto(Cardinality(S)) = SUBSET S
  BY FS_Subset, FS_CardinalityType
<1>3. Works(Cardinality(S))
  <2> HIDE DEF Works
  <2> QED  BY <1>1, <1>2
<1>4. PICK f \in [Upto(Cardinality(S)) -> V] : FoldsBy(f, Upto(Cardinality(S)), base, pick, step)
  BY <1>3
<1> HIDE DEF Upto, Bad, Works
<1> QED  BY <1>2, <1>4

IntsOn(w, D) == \A x \in D : w[x] \in Int

\* The recursive function SumFunctionOnSet evaluates.
Adds(f, w, D) ==
    \A s \in SUBSET D : f[s] = IF s = {} THEN 0
                               ELSE LET x == CHOOSE y \in s : TRUE IN w[x] + f[s \ {x}]

\* SumFunctionOnSet is a fold: it adds the weights in the order it chooses.
LEMMA SumIsFold ==
    ASSUME NEW D, IsFiniteSet(D), NEW w, IntsOn(w, D)
    PROVE  \E f \in [SUBSET D -> Int] : Adds(f, w, D) /\ SumFunctionOnSet(w, D) = f[D]
<1> DEFINE pick == [s \in SUBSET D |-> CHOOSE y \in s : TRUE]
           step == [x \in D |-> [v \in Int |-> w[x] + v]]
           rule(it) == [s \in SUBSET D |-> IF s = {} THEN 0
                                           ELSE LET x == CHOOSE y \in s : TRUE IN w[x] + it[s \ {x}]]
           iter == CHOOSE it : it = rule(it)
<1>1. \A s \in SUBSET D : s # {} => pick[s] \in s /\ pick[s] = CHOOSE y \in s : TRUE
  OBVIOUS
<1>2. step \in [D -> [Int -> Int]] /\ \A x \in D, v \in Int : step[x][v] = w[x] + v
  BY DEF IntsOn
<1>3. PICK g \in [SUBSET D -> Int] : FoldsBy(g, SUBSET D, 0, pick, step)
  <2>1. 0 \in Int /\ Picks(pick, SUBSET D)
    BY <1>1 DEF Picks
  <2>2. step \in [D -> [Int -> Int]]
    BY <1>2
  <2> HIDE DEF pick, step
  <2>3. \E f \in [SUBSET D -> Int] : FoldsBy(f, SUBSET D, 0, pick, step)
    BY <2>1, <2>2, FoldExists
  <2> QED  BY <2>3
<1>4. g = rule(g)
  <2>1. ASSUME NEW s \in SUBSET D PROVE g[s] = rule(g)[s]
    <3>1. CASE s = {}
      BY <1>3, <3>1 DEF FoldsBy
    <3>2. CASE s # {}
      <4>1. pick[s] \in D /\ s \ {pick[s]} \in SUBSET D
        BY <1>1, <3>2
      <4>2. g[s] = step[pick[s]][g[s \ {pick[s]}]]
        BY <1>3, <3>2 DEF FoldsBy
      <4>3. g[s \ {pick[s]}] \in Int
        BY <1>3, <4>1
      <4>4. g[s] = w[pick[s]] + g[s \ {pick[s]}]
        BY <1>2, <4>1, <4>2, <4>3
      <4>5. rule(g)[s] = LET x == CHOOSE y \in s : TRUE IN w[x] + g[s \ {x}]
        BY <3>2
      <4> QED  BY <1>1, <3>2, <4>4, <4>5
    <3> QED  BY <3>1, <3>2
  <2> QED  BY <1>3, <2>1
<1>5. iter = rule(iter)
  <2> HIDE DEF rule
  <2> QED  BY <1>4, Zenon
<1>6. Adds(iter, w, D)
  <2> HIDE DEF iter
  <2>1. \A s \in SUBSET D : iter[s] = rule(iter)[s]
    BY <1>5
  <2> QED  BY <2>1 DEF Adds
<1>7. SumFunctionOnSet(w, D) = iter[D]
  BY DEF SumFunctionOnSet, FoldFunctionOnSet, MapThenFoldSet
<1>8. iter \in [SUBSET D -> Int]
  <2> DEFINE Bad == {s \in SUBSET D : iter[s] \notin Int}
  <2>1. Bad = {}
    <3>1. SUFFICES ASSUME Bad # {} PROVE FALSE
      OBVIOUS
    <3>2. PICK m \in Bad : \A u \in SUBSET m : u # m => u \notin Bad
      <4>1. Bad \subseteq SUBSET D
        OBVIOUS
      <4> HIDE DEF Bad
      <4> QED  BY <3>1, <4>1, MinimalSet
    <3> HIDE DEF iter
    <3>3. m \in SUBSET D /\ iter[m] \notin Int
      OBVIOUS
    <3>4. m # {}
      <4>1. {} \in SUBSET D
        OBVIOUS
      <4>2. iter[{}] = 0
        BY <1>6, <4>1 DEF Adds
      <4>3. 0 \in Int
        OBVIOUS
      <4> HIDE DEF Bad, rule, pick, step
      <4> QED  BY <3>3, <4>2, <4>3, Zenon
    <3>5. PICK x \in m : iter[m] = w[x] + iter[m \ {x}]
      BY <1>6, <3>3, <3>4 DEF Adds
    <3>6. m \ {x} \in SUBSET m /\ m \ {x} # m
      OBVIOUS
    <3>7. iter[m \ {x}] \in Int
      BY <3>2, <3>3, <3>6
    <3> QED  BY <3>3, <3>5, <3>7 DEF IntsOn
  <2>2. iter = rule(iter) /\ DOMAIN rule(iter) = SUBSET D /\ iter = [s \in SUBSET D |-> iter[s]]
    <3>1. DOMAIN rule(iter) = SUBSET D /\ rule(iter) = [s \in SUBSET D |-> rule(iter)[s]]
      OBVIOUS
    <3> HIDE DEF rule, iter
    <3> QED  BY <1>5, <3>1
  <2> HIDE DEF iter
  <2> QED  BY <2>1, <2>2
<1> HIDE DEF iter
<1> QED  BY <1>6, <1>7, <1>8

\* Two such functions agree where both are defined.
LEMMA AddsUnique ==
    ASSUME NEW D, IsFiniteSet(D), NEW w, NEW f, NEW g, NEW E \in SUBSET D, Adds(f, w, D), Adds(g, w, E)
    PROVE  f[E] = g[E]
<1> DEFINE Bad == {s \in SUBSET E : f[s] # g[s]}
<1>1. Bad = {}
  <2>1. SUFFICES ASSUME Bad # {} PROVE FALSE
    OBVIOUS
  <2>2. PICK m \in Bad : \A u \in SUBSET m : u # m => u \notin Bad
    <3>1. Bad \subseteq SUBSET D
      OBVIOUS
    <3> HIDE DEF Bad
    <3> QED  BY <2>1, <3>1, MinimalSet
  <2>3. m \in SUBSET E /\ m \in SUBSET D /\ f[m] # g[m]
    OBVIOUS
  <2>4. m # {}
    BY <2>3 DEF Adds
  <2> DEFINE x == CHOOSE y \in m : TRUE
  <2>5. f[m] = w[x] + f[m \ {x}] /\ g[m] = w[x] + g[m \ {x}] /\ x \in m
    BY <2>3, <2>4 DEF Adds
  <2>6. m \ {x} \in SUBSET m /\ m \ {x} # m
    BY <2>5
  <2> HIDE DEF x
  <2>7. f[m \ {x}] = g[m \ {x}]
    BY <2>2, <2>3, <2>6
  <2> QED  BY <2>3, <2>5, <2>7
<1> QED  BY <1>1

AddsFrom(f, w, D) == \A s \in SUBSET D : \A x \in s : f[s] = w[x] + f[s \ {x}]

\* The order in which the members are taken out does not matter.
LEMMA AddsAnyOrder ==
    ASSUME NEW D, IsFiniteSet(D), NEW w, IntsOn(w, D),
           NEW f \in [SUBSET D -> Int], Adds(f, w, D)
    PROVE  AddsFrom(f, w, D)
<1> DEFINE Bad == {s \in SUBSET D : \E x \in s : f[s] # w[x] + f[s \ {x}]}
<1>1. Bad = {}
  <2>1. SUFFICES ASSUME Bad # {} PROVE FALSE
    OBVIOUS
  <2>2. PICK m \in Bad : \A u \in SUBSET m : u # m => u \notin Bad
    <3>1. Bad \subseteq SUBSET D
      OBVIOUS
    <3> HIDE DEF Bad
    <3> QED  BY <2>1, <3>1, MinimalSet
  <2>3. m \in SUBSET D /\ \E x \in m : f[m] # w[x] + f[m \ {x}]
    OBVIOUS
  <2>4. PICK x \in m : f[m] # w[x] + f[m \ {x}]
    BY <2>3
  <2> DEFINE y == CHOOSE z \in m : TRUE
  <2>5. f[m] = w[y] + f[m \ {y}] /\ y \in m
    BY <2>3, <2>4 DEF Adds
  <2> HIDE DEF y
  <2>6. x # y
    BY <2>4, <2>5
  <2> DEFINE mx == m \ {x}
             my == m \ {y}
  <2>7. mx \in SUBSET D /\ my \in SUBSET D /\ mx \in SUBSET m /\ my \in SUBSET m /\ mx # m /\ my # m
    BY <2>3, <2>4, <2>5
  <2>8. y \in mx /\ x \in my
    BY <2>4, <2>5, <2>6
  <2>9. mx \notin Bad /\ my \notin Bad
    <3> HIDE DEF Bad
    <3> QED  BY <2>2, <2>7
  <2>10. f[mx] = w[y] + f[mx \ {y}] /\ f[my] = w[x] + f[my \ {x}]
    <3> HIDE DEF mx, my
    <3> QED  BY <2>7, <2>8, <2>9
  <2>11. mx \ {y} = my \ {x} /\ mx \ {y} \in SUBSET D
    BY <2>3
  <2>12. w[x] \in Int /\ w[y] \in Int /\ f[mx \ {y}] \in Int
    BY <2>3, <2>4, <2>5, <2>11 DEF IntsOn
  <2>13. f[m] = w[y] + f[my] /\ f[m] # w[x] + f[mx]
    BY <2>4, <2>5
  <2> HIDE DEF mx, my, Bad
  <2>14. ASSUME NEW a \in Int, NEW b \in Int, NEW c \in Int PROVE a + (b + c) = b + (a + c)
    OBVIOUS
  <2>15. w[x] + f[mx] = w[x] + (w[y] + f[mx \ {y}]) /\ f[m] = w[y] + (w[x] + f[mx \ {y}])
    BY <2>10, <2>11, <2>13
  <2> QED  BY <2>12, <2>13, <2>14, <2>15
<1>2. ASSUME NEW s \in SUBSET D, NEW x \in s PROVE f[s] = w[x] + f[s \ {x}]
  <2>1. s \notin Bad
    <3> HIDE DEF Bad
    <3> QED  BY <1>1
  <2> QED  BY <1>2, <2>1
<1> QED  BY <1>2 DEF AddsFrom

\* What the sum over the subsets of a finite set is.
LEMMA SumFacts ==
    ASSUME NEW D, IsFiniteSet(D), NEW w, IntsOn(w, D)
    PROVE  /\ SumFunctionOnSet(w, {}) = 0
           /\ \A s \in SUBSET D : SumFunctionOnSet(w, s) \in Int
           /\ \A s \in SUBSET D : \A x \in s :
                 SumFunctionOnSet(w, s) = w[x] + SumFunctionOnSet(w, s \ {x})
<1>1. PICK f \in [SUBSET D -> Int] : Adds(f, w, D) /\ SumFunctionOnSet(w, D) = f[D]
  BY SumIsFold
<1>2. ASSUME NEW s \in SUBSET D PROVE SumFunctionOnSet(w, s) = f[s]
  <2>1. IsFiniteSet(s) /\ IntsOn(w, s)
    BY <1>2, FS_Subset DEF IntsOn
  <2>2. PICK g \in [SUBSET s -> Int] : Adds(g, w, s) /\ SumFunctionOnSet(w, s) = g[s]
    BY <2>1, SumIsFold
  <2> QED  BY <1>1, <1>2, <2>2, AddsUnique
<1>3. f[{}] = 0
  BY <1>1 DEF Adds
<1>4. AddsFrom(f, w, D)
  BY <1>1, AddsAnyOrder
<1>5. \A s \in SUBSET D : \A x \in s : s \ {x} \in SUBSET D
  OBVIOUS
<1>6. {} \in SUBSET D
  OBVIOUS
<1>7. SumFunctionOnSet(w, {}) = 0
  BY <1>2, <1>3, <1>6
<1>8. \A s \in SUBSET D : SumFunctionOnSet(w, s) \in Int
  BY <1>1, <1>2
<1>9. ASSUME NEW s \in SUBSET D, NEW x \in s
      PROVE  SumFunctionOnSet(w, s) = w[x] + SumFunctionOnSet(w, s \ {x})
  BY <1>2, <1>4, <1>5 DEF AddsFrom
<1> QED  BY <1>7, <1>8, <1>9

\* One member is taken out.
LEMMA SumStep ==
    ASSUME NEW D, IsFiniteSet(D), NEW w, IntsOn(w, D), NEW x \in D
    PROVE  /\ SumFunctionOnSet(w, D) = w[x] + SumFunctionOnSet(w, D \ {x})
           /\ SumFunctionOnSet(w, D \ {x}) \in Int /\ w[x] \in Int
<1>1. D \in SUBSET D /\ D \ {x} \in SUBSET D
  OBVIOUS
<1> QED  BY <1>1, SumFacts DEF IntsOn

NatsOn(w, D) == \A x \in D : w[x] \in Nat

\* A sum of natural numbers is one.
LEMMA SumNat ==
    ASSUME NEW D, IsFiniteSet(D), NEW w, NatsOn(w, D)
    PROVE  IntsOn(w, D) /\ SumFunctionOnSet(w, D) \in Nat
<1>1. IntsOn(w, D)
  BY DEF NatsOn, IntsOn
<1> DEFINE Bad == {s \in SUBSET D : SumFunctionOnSet(w, s) \notin Nat}
<1>2. Bad = {}
  <2>1. SUFFICES ASSUME Bad # {} PROVE FALSE
    OBVIOUS
  <2>2. PICK m \in Bad : \A u \in SUBSET m : u # m => u \notin Bad
    <3>1. Bad \subseteq SUBSET D
      OBVIOUS
    <3> HIDE DEF Bad
    <3> QED  BY <2>1, <3>1, MinimalSet
  <2>3. m \in SUBSET D /\ SumFunctionOnSet(w, m) \notin Nat
    OBVIOUS
  <2>4. SumFunctionOnSet(w, {}) = 0 /\ 0 \in Nat
    BY <1>1, SumFacts
  <2>5. m # {}
    BY <2>3, <2>4, Zenon
  <2>6. PICK x : x \in m
    BY <2>5
  <2>7. SumFunctionOnSet(w, m) = w[x] + SumFunctionOnSet(w, m \ {x})
    BY <1>1, <2>3, <2>6, SumFacts
  <2>8. SumFunctionOnSet(w, m \ {x}) \in Nat
    BY <2>2, <2>3, <2>6
  <2>9. w[x] \in Nat
    BY <2>3, <2>6 DEF NatsOn
  <2> QED  BY <2>3, <2>7, <2>8, <2>9
<1> QED  BY <1>1, <1>2

\* p maps A to D, one to one; v are the weights w under the new names.
Renames(p, A, D) == p \in [A -> D] /\ \A a, b \in A : p[a] = p[b] => a = b
Img(p, A) == {p[a] : a \in A}
Carried(v, w, p, A) == \A a \in A : v[a] = w[p[a]]

\* Equal weights, also when the members are renamed one to one, give equal sums.
LEMMA SumRenamed ==
    ASSUME NEW A, NEW D, IsFiniteSet(A), IsFiniteSet(D), NEW v, NEW w, IntsOn(w, D),
           NEW p, Renames(p, A, D), Carried(v, w, p, A)
    PROVE  SumFunctionOnSet(v, A) = SumFunctionOnSet(w, Img(p, A))
<1>0. p \in [A -> D] /\ (\A a, b \in A : p[a] = p[b] => a = b) /\ \A a \in A : v[a] = w[p[a]]
  BY DEF Renames, Carried
<1>1. IntsOn(v, A)
  BY <1>0 DEF IntsOn
<1> DEFINE Bad == {s \in SUBSET A : SumFunctionOnSet(v, s) # SumFunctionOnSet(w, Img(p, s))}
<1>2. Bad = {}
  <2>1. SUFFICES ASSUME Bad # {} PROVE FALSE
    OBVIOUS
  <2>2. PICK m \in Bad : \A u \in SUBSET m : u # m => u \notin Bad
    <3>1. Bad \subseteq SUBSET A
      OBVIOUS
    <3> HIDE DEF Bad
    <3> QED  BY <2>1, <3>1, MinimalSet
  <2>3. m \in SUBSET A /\ SumFunctionOnSet(v, m) # SumFunctionOnSet(w, Img(p, m))
    OBVIOUS
  <2>4. SumFunctionOnSet(v, {}) = 0 /\ SumFunctionOnSet(w, {}) = 0
    BY <1>1, SumFacts
  <2>5. m # {}
    <3>1. Img(p, {}) = {}
      BY DEF Img
    <3> QED  BY <2>3, <2>4, <3>1
  <2>6. PICK x : x \in m
    BY <2>5
  <2>7. SumFunctionOnSet(v, m) = v[x] + SumFunctionOnSet(v, m \ {x})
    BY <1>1, <2>3, <2>6, SumFacts
  <2>8. SumFunctionOnSet(v, m \ {x}) = SumFunctionOnSet(w, Img(p, m \ {x}))
    BY <2>2, <2>3, <2>6
  <2>9. Img(p, m \ {x}) = Img(p, m) \ {p[x]} /\ p[x] \in Img(p, m) /\ Img(p, m) \in SUBSET D
    BY <1>0, <2>3, <2>6 DEF Img
  <2>10. SumFunctionOnSet(w, Img(p, m)) = w[p[x]] + SumFunctionOnSet(w, Img(p, m) \ {p[x]})
    <3>1. IsFiniteSet(Img(p, m)) /\ IntsOn(w, Img(p, m))
      BY <2>9, FS_Subset DEF IntsOn
    <3> QED  BY <2>9, <3>1, SumStep
  <2>11. v[x] = w[p[x]]
    BY <1>0, <2>3, <2>6
  <2> HIDE DEF Bad
  <2> QED  BY <2>3, <2>7, <2>8, <2>9, <2>10, <2>11
<1>3. A \notin Bad
  <2> HIDE DEF Bad
  <2> QED  BY <1>2
<1> QED  BY <1>3

\* A sum depends on the weights only.
LEMMA SumSame ==
    ASSUME NEW D, IsFiniteSet(D), NEW v, NEW w, IntsOn(w, D), \A x \in D : v[x] = w[x]
    PROVE  SumFunctionOnSet(v, D) = SumFunctionOnSet(w, D)
<1> DEFINE p == [x \in D |-> x]
<1>1. Renames(p, D, D) /\ Carried(v, w, p, D)
  BY DEF Renames, Carried
<1>2. Img(p, D) = D
  BY DEF Img
<1> HIDE DEF p
<1> QED  BY <1>1, <1>2, SumRenamed

\* The sum over two disjoint sets.
LEMMA SumSplit ==
    ASSUME NEW D, IsFiniteSet(D), NEW w, IntsOn(w, D),
           NEW A \in SUBSET D, NEW B \in SUBSET D, A \cap B = {}
    PROVE  SumFunctionOnSet(w, A \cup B) = SumFunctionOnSet(w, A) + SumFunctionOnSet(w, B)
<1> DEFINE Bad == {s \in SUBSET B : SumFunctionOnSet(w, A \cup s) # SumFunctionOnSet(w, A) + SumFunctionOnSet(w, s)}
<1>0. /\ SumFunctionOnSet(w, {}) = 0
      /\ \A s \in SUBSET D : SumFunctionOnSet(w, s) \in Int
      /\ \A s \in SUBSET D : \A x \in s : SumFunctionOnSet(w, s) = w[x] + SumFunctionOnSet(w, s \ {x})
  BY SumFacts
<1>1. Bad = {}
  <2>1. SUFFICES ASSUME Bad # {} PROVE FALSE
    OBVIOUS
  <2>2. PICK m \in Bad : \A u \in SUBSET m : u # m => u \notin Bad
    <3>1. Bad \subseteq SUBSET D
      OBVIOUS
    <3> HIDE DEF Bad
    <3> QED  BY <2>1, <3>1, MinimalSet
  <2>3. m \in SUBSET B /\ m \in SUBSET D
        /\ SumFunctionOnSet(w, A \cup m) # SumFunctionOnSet(w, A) + SumFunctionOnSet(w, m)
    OBVIOUS
  <2>4. m # {}
    <3>1. SUFFICES ASSUME m = {} PROVE FALSE
      OBVIOUS
    <3>2. A \cup m = A
      BY <3>1
    <3>3. SumFunctionOnSet(w, m) = 0 /\ SumFunctionOnSet(w, A) \in Int
      BY <1>0, <3>1
    <3>4. SumFunctionOnSet(w, A) # SumFunctionOnSet(w, A) + 0
      BY <2>3, <3>2, <3>3
    <3> QED  BY <3>3, <3>4
  <2>5. PICK x : x \in m
    BY <2>4
  <2> DEFINE mx == m \ {x}
  <2>6. mx \in SUBSET m /\ mx # m /\ mx \in SUBSET B /\ mx \in SUBSET D /\ A \cup mx \in SUBSET D
        /\ A \cup m \in SUBSET D /\ x \in A \cup m /\ (A \cup m) \ {x} = A \cup mx
    BY <2>3, <2>5
  <2>7. SumFunctionOnSet(w, m) = w[x] + SumFunctionOnSet(w, mx)
    BY <1>0, <2>3, <2>5
  <2>8. SumFunctionOnSet(w, A \cup m) = w[x] + SumFunctionOnSet(w, A \cup mx)
    <3> HIDE DEF mx
    <3> QED  BY <1>0, <2>6
  <2>9. SumFunctionOnSet(w, A \cup mx) = SumFunctionOnSet(w, A) + SumFunctionOnSet(w, mx)
    <3> HIDE DEF mx
    <3> QED  BY <2>2, <2>6
  <2>10. w[x] \in Int /\ SumFunctionOnSet(w, A) \in Int /\ SumFunctionOnSet(w, mx) \in Int
    <3>1. x \in D
      BY <2>3, <2>5
    <3> HIDE DEF mx
    <3> QED  BY <1>0, <2>6, <3>1 DEF IntsOn
  <2> HIDE DEF mx, Bad
  <2> QED  BY <2>3, <2>7, <2>8, <2>9, <2>10
<1> QED  BY <1>1

\* One weight changes.
LEMMA SumChange ==
    ASSUME NEW D, IsFiniteSet(D), NEW v, NEW w, IntsOn(v, D), IntsOn(w, D),
           NEW x \in D, \A y \in D : y # x => v[y] = w[y]
    PROVE  SumFunctionOnSet(v, D) = SumFunctionOnSet(w, D) - w[x] + v[x]
<1> DEFINE rest == D \ {x}
<1>1. rest \in SUBSET D /\ IsFiniteSet(rest) /\ IntsOn(w, rest) /\ \A y \in rest : v[y] = w[y]
  BY FS_Subset DEF IntsOn
<1>2. SumFunctionOnSet(v, D) = v[x] + SumFunctionOnSet(v, rest)
  BY SumFacts
<1>3. SumFunctionOnSet(w, D) = w[x] + SumFunctionOnSet(w, rest)
  BY SumFacts
<1>4. SumFunctionOnSet(w, rest) \in Int
  <2> HIDE DEF rest
  <2> QED  BY <1>1, SumFacts
<1>5. v[x] \in Int /\ w[x] \in Int
  BY DEF IntsOn
<1> HIDE DEF rest
<1>6. SumFunctionOnSet(v, rest) = SumFunctionOnSet(w, rest)
  BY <1>1, SumSame
<1> QED  BY <1>2, <1>3, <1>4, <1>5, <1>6

---------------------------------------------------------------------------
(* The largest and the least of a set of numbers; what Without leaves.     *)

\* The largest of a bounded set of numbers is one of them.
LEMMA MaxIsMember ==
    ASSUME NEW S, S \subseteq Nat, NEW n \in Nat, \A y \in S : y <= n, S # {}
    PROVE  Max(S) \in S
<1> DEFINE T == {b \in Nat : \A y \in S : y <= b}
<1>1. IsWellFoundedOn(OpToRel(<, Nat), Nat)
  BY NatLessThanWellFounded
<1>2. T \subseteq Nat /\ n \in T
  OBVIOUS
<1>3. PICK b \in T : \A c \in T : <<c, b>> \notin OpToRel(<, Nat)
  <2> HIDE DEF T
  <2> QED  BY <1>1, <1>2, WFMin
<1>4. b \in S
  <2>1. SUFFICES ASSUME b \notin S PROVE FALSE
    OBVIOUS
  <2>2. b \in Nat /\ \A y \in S : y < b /\ y \in Nat
    BY <2>1
  <2>5. PICK z \in S : z \in Nat /\ z < b
    BY <2>2
  <2>3. b # 0 /\ b - 1 \in Nat /\ \A y \in S : y <= b - 1
    BY <2>2, <2>5
  <2>4. b - 1 \in T /\ b - 1 < b
    BY <2>2, <2>3
  <2> QED  BY <1>3, <2>2, <2>3, <2>4 DEF OpToRel
<1>5. \E x \in S : \A y \in S : x >= y
  <2>1. b \in Nat /\ \A y \in S : y \in Nat /\ y <= b
    BY <1>3
  <2> QED  BY <1>4, <2>1
<1>6. Max(S) \in S
  BY <1>5, Zenon DEF Max
<1> QED  BY <1>6

\* The least of a set of numbers is one of them.
LEMMA MinIsMember ==
    ASSUME NEW S, S \subseteq Nat, S # {}
    PROVE  Min(S) \in S
<1>1. IsWellFoundedOn(OpToRel(<, Nat), Nat)
  BY NatLessThanWellFounded
<1>2. PICK m \in S : \A y \in S : <<y, m>> \notin OpToRel(<, Nat)
  BY <1>1, WFMin
<1>3. \A y \in S : m <= y
  <2>1. TAKE y \in S
  <2>2. y \in Nat /\ m \in Nat /\ ~(y < m)
    BY <1>2 DEF OpToRel
  <2> QED  BY <2>2
<1>4. \E x \in S : \A y \in S : x =< y
  BY <1>3
<1> QED  BY <1>4, Zenon DEF Min

\* The largest of 1..n is n.
LEMMA MaxOfPrefix ==
    ASSUME NEW n \in Nat \ {0}
    PROVE  Max(1..n) = n
<1>1. Max(1..n) = CHOOSE x \in 1..n : \A y \in 1..n : x >= y
  BY DEF Max
<1>2. \A x \in 1..n : (\A y \in 1..n : x >= y) <=> x = n
  OBVIOUS
<1>3. n \in 1..n
  OBVIOUS
<1>4. Max(1..n) \in 1..n /\ \A y \in 1..n : Max(1..n) >= y
  BY <1>2, <1>3 DEF Max
<1> QED  BY <1>2, <1>4

\* Without keeps the rest, in a sequence that lists nothing twice if q did not.
LEMMA WithoutFacts ==
    ASSUME NEW T, NEW q \in Seq(T), NEW S
    PROVE  /\ Without(q, S) \in Seq(T)
           /\ Range(Without(q, S)) = Range(q) \ S
           /\ IsInjective(q) => IsInjective(Without(q, S))
<1> DEFINE D == DOMAIN q
           pick == [s \in SUBSET D |-> Max(s)]
           step == [i \in D |-> [v \in Seq(T) |-> IF q[i] \in S THEN v ELSE Append(v, q[i])]]
           rule(it) == [s \in SUBSET D |->
                          IF s = {} THEN <<>>
                          ELSE LET x == Max(s)
                               IN IF q[x] \in S THEN it[s \ {x}] ELSE Append(it[s \ {x}], q[x])]
           iter == CHOOSE it : it = rule(it)
<1>0. IsWellFoundedOn(OpToRel(<, Nat), Nat)
  BY NatLessThanWellFounded
<1>1. Len(q) \in Nat /\ D = 1..Len(q) /\ IsFiniteSet(D) /\ \A i \in D : q[i] \in T
  <2>1. Len(q) \in Nat /\ D = 1..Len(q)
    OBVIOUS
  <2> QED  BY <2>1, FS_Interval
<1>2. Picks(pick, SUBSET D)
  <2>1. ASSUME NEW s \in SUBSET D, s # {} PROVE Max(s) \in s
    <3>1. s \subseteq Nat /\ \A y \in s : y <= Len(q)
      BY <1>1
    <3> QED  BY <1>1, <2>1, <3>1, MaxIsMember
  <2> QED  BY <2>1 DEF Picks
<1>3. step \in [D -> [Seq(T) -> Seq(T)]]
  <2>1. ASSUME NEW i \in D, NEW v \in Seq(T) PROVE (IF q[i] \in S THEN v ELSE Append(v, q[i])) \in Seq(T)
    <3>1. q[i] \in T
      BY <1>1
    <3> QED  BY <3>1, AppendProperties
  <2> QED  BY <2>1
<1>4. <<>> \in Seq(T)
  BY EmptySeq
<1>5. PICK g \in [SUBSET D -> Seq(T)] : FoldsBy(g, SUBSET D, <<>>, pick, step)
  <2> HIDE DEF pick, step, D
  <2> QED  BY <1>1, <1>2, <1>3, <1>4, FoldExists
<1>6. g = rule(g)
  <2>1. ASSUME NEW s \in SUBSET D PROVE g[s] = rule(g)[s]
    <3>1. CASE s = {}
      BY <1>5, <3>1 DEF FoldsBy
    <3>2. CASE s # {}
      <4>1. pick[s] = Max(s) /\ Max(s) \in D /\ s \ {Max(s)} \in SUBSET D
        BY <1>2, <3>2 DEF Picks
      <4>2. g[s] = step[Max(s)][g[s \ {Max(s)}]]
        BY <1>5, <3>2, <4>1 DEF FoldsBy
      <4>3. g[s \ {Max(s)}] \in Seq(T)
        BY <1>5, <4>1
      <4> DEFINE x == Max(s)
                 v == g[s \ {x}]
      <4>4. step[x][v] = IF q[x] \in S THEN v ELSE Append(v, q[x])
        <5>1. x \in D /\ v \in Seq(T)
          BY <4>1, <4>3
        <5> HIDE DEF x, v, D
        <5> QED  BY <5>1
      <4>5. rule(g)[s] = IF q[x] \in S THEN v ELSE Append(v, q[x])
        BY <3>2
      <4> QED  BY <4>2, <4>4, <4>5
    <3> QED  BY <3>1, <3>2
  <2> QED  BY <1>5, <2>1
<1>7. iter = rule(iter)
  <2> HIDE DEF rule
  <2> QED  BY <1>6, Zenon
<1>8. Without(q, S) = iter[D]
  BY DEF Without, FoldLeft, MapThenFoldSet
<1>9. \A s \in SUBSET D : iter[s] = rule(iter)[s]
  <2> HIDE DEF iter, rule
  <2> QED  BY <1>7
<1> DEFINE F(i) == iter[1..i]
<1>10. F(0) = <<>>
  <2>1. 1..0 = {} /\ {} \in SUBSET D
    OBVIOUS
  <2> HIDE DEF iter
  <2> QED  BY <1>9, <2>1
<1>11. ASSUME NEW i \in 1..Len(q)
       PROVE  F(i) = IF q[i] \in S THEN F(i - 1) ELSE Append(F(i - 1), q[i])
  <2>1. 1..i \in SUBSET D /\ 1..i # {} /\ (1..i) \ {i} = 1..(i - 1)
    <3>1. i \in Nat /\ 1 <= i /\ i <= Len(q) /\ D = 1..Len(q) /\ Len(q) \in Nat
      BY <1>1
    <3> HIDE DEF D
    <3>2. 1..i \subseteq D /\ i \in 1..i
      BY <3>1
    <3>3. \A j : j \in (1..i) \ {i} <=> j \in 1..(i - 1)
      BY <3>1
    <3> QED  BY <3>2, <3>3
  <2>2. Max(1..i) = i
    BY MaxOfPrefix
  <2> HIDE DEF iter
  <2> QED  BY <1>9, <2>1, <2>2
<1> HIDE DEF F
<1> DEFINE Kept(i) == {q[j] : j \in 1..i} \ S
           OK(i) == /\ F(i) \in Seq(T) /\ Range(F(i)) = Kept(i)
                    /\ IsInjective(q) => IsInjective(F(i))
           Bad == {i \in 0..Len(q) : ~OK(i)}
<1>12. OK(0)
  <2>1. DOMAIN F(0) = {} /\ 1..0 = {}
    BY <1>10
  <2> QED  BY <1>4, <1>10, <2>1 DEF Range, IsInjective
<1>13. ASSUME NEW i \in 1..Len(q), OK(i - 1) PROVE OK(i)
  <2>1. i \in D /\ 1..i = (1..(i - 1)) \cup {i} /\ 1..(i - 1) \subseteq D /\ i \notin 1..(i - 1)
    BY <1>1
  <2>2. Kept(i) = Kept(i - 1) \cup ({q[i]} \ S)
    BY <2>1
  <2>3. CASE q[i] \in S
    <3>1. Kept(i) = Kept(i - 1)
      BY <2>2, <2>3
    <3>2. F(i) = F(i - 1)
      BY <1>11, <2>3
    <3> HIDE DEF Kept
    <3> QED  BY <1>13, <3>1, <3>2
  <2>4. CASE q[i] \notin S
    <3> DEFINE f == F(i - 1)
               n == Len(f)
    <3>1. F(i) = Append(f, q[i])
      BY <1>11, <2>4
    <3>2. f \in Seq(T) /\ q[i] \in T /\ n \in Nat /\ DOMAIN f = 1..n
      BY <1>1, <1>13, <2>1
    <3> HIDE DEF f
    <3>3. /\ F(i) \in Seq(T) /\ Len(F(i)) = n + 1 /\ DOMAIN F(i) = 1..(n + 1)
          /\ \A j \in 1..n : F(i)[j] = f[j]
          /\ F(i)[n + 1] = q[i]
      BY <3>1, <3>2, AppendProperties
    <3>4. Range(f) = Kept(i - 1) /\ (IsInjective(q) => IsInjective(f))
      BY <1>13 DEF f
    <3> HIDE DEF n
    <3>5. Range(F(i)) = Range(f) \cup {q[i]}
      <4>1. 1..(n + 1) = (1..n) \cup {n + 1}
        BY <3>2
      <4> QED  BY <3>2, <3>3, <4>1 DEF Range
    <3>6. Kept(i) = Kept(i - 1) \cup {q[i]}
      BY <2>2, <2>4
    <3>7. ASSUME IsInjective(q) PROVE IsInjective(F(i))
      <4>1. q[i] \notin {q[j] : j \in 1..(i - 1)}
        BY <2>1, <3>7 DEF IsInjective
      <4>2. q[i] \notin Range(f)
        BY <3>4, <4>1
      <4>3. \A a \in 1..n : f[a] # q[i]
        BY <3>2, <4>2 DEF Range
      <4>4. \A a, b \in 1..n : f[a] = f[b] => a = b
        BY <3>2, <3>4, <3>7 DEF IsInjective
      <4>5. ASSUME NEW a \in 1..(n + 1), NEW b \in 1..(n + 1), F(i)[a] = F(i)[b] PROVE a = b
        <5>1. (a \in 1..n \/ a = n + 1) /\ (b \in 1..n \/ b = n + 1)
          BY <3>2
        <5> QED  BY <3>3, <4>3, <4>4, <4>5, <5>1
      <4> QED  BY <3>3, <4>5 DEF IsInjective
    <3> HIDE DEF Kept
    <3> QED  BY <3>3, <3>4, <3>5, <3>6, <3>7
  <2> QED  BY <2>3, <2>4
<1>14. Bad = {}
  <2> HIDE DEF OK
  <2>1. SUFFICES ASSUME Bad # {} PROVE FALSE
    OBVIOUS
  <2>2. Bad \subseteq Nat
    BY <1>1
  <2>3. PICK i \in Bad : \A j \in Bad : <<j, i>> \notin OpToRel(<, Nat)
    <3> HIDE DEF Bad
    <3> QED  BY <1>0, <2>1, <2>2, WFMin
  <2>4. i \in 0..Len(q) /\ ~OK(i)
    OBVIOUS
  <2>5. i # 0
    BY <1>12, <2>4
  <2>6. i \in 1..Len(q) /\ i - 1 \in 0..Len(q) /\ i - 1 \in Nat /\ i - 1 < i /\ i \in Nat
    BY <1>1, <2>4, <2>5
  <2>7. i - 1 \notin Bad
    BY <2>3, <2>6 DEF OpToRel
  <2> QED  BY <1>13, <2>4, <2>6, <2>7
<1>15. OK(Len(q))
  <2> HIDE DEF OK
  <2> QED  BY <1>1, <1>14
<1>16. F(Len(q)) = Without(q, S) /\ Kept(Len(q)) = Range(q) \ S
  BY <1>1, <1>8 DEF F, Range
<1> HIDE DEF Kept
<1> QED  BY <1>15, <1>16

---------------------------------------------------------------------------
(* The hot tier.                                                           *)

HotEntries == [key : Keys, body : Bodies, tag : Bodies]
All(q) == BytesOf(q, DOMAIN q)
Weights(q) == [i \in DOMAIN q |-> Size[q[i].body]]

\* The bytes of some entries are the sum of their weights, which are numbers.
LEMMA WeightsTyped ==
    ASSUME NEW q \in Seq(HotEntries)
    PROVE  /\ Len(q) \in Nat /\ DOMAIN q = 1..Len(q) /\ IsFiniteSet(DOMAIN q)
           /\ NatsOn(Weights(q), DOMAIN q) /\ IntsOn(Weights(q), DOMAIN q)
           /\ \A I : BytesOf(q, I) = SumFunctionOnSet(Weights(q), I)
           /\ \A i \in DOMAIN q : q[i] \in HotEntries /\ Weights(q)[i] = Size[q[i].body] /\ Weights(q)[i] \in Nat
<1>1. Len(q) \in Nat /\ DOMAIN q = 1..Len(q)
  OBVIOUS
<1>2. IsFiniteSet(DOMAIN q)
  BY <1>1, FS_Interval
<1>3. \A i \in DOMAIN q : q[i] \in HotEntries
  BY <1>1
<1>4. \A i \in DOMAIN q : Weights(q)[i] = Size[q[i].body] /\ Weights(q)[i] \in Nat
  BY <1>3, ImagesAssumption DEF Weights, HotEntries
<1>5. \A I : BytesOf(q, I) = SumFunctionOnSet(Weights(q), I)
  BY DEF BytesOf, Weights
<1> HIDE DEF Weights
<1> QED  BY <1>1, <1>2, <1>3, <1>4, <1>5 DEF NatsOn, IntsOn

\* r consists of the entries of q but for those at the positions J.
Copies(r, q, p, J) ==
    /\ Renames(p, 1..Len(r), DOMAIN q) /\ Img(p, 1..Len(r)) = DOMAIN q \ J
    /\ Carried(r, q, p, 1..Len(r))

\* An entry is put in front of q, or in front of what RemoveAt leaves of it: the
\* bytes are added, and taken off.
LEMMA BytesInFront ==
    ASSUME NEW q \in Seq(HotEntries), NEW e \in HotEntries, NEW r \in Seq(HotEntries),
           NEW J \in SUBSET DOMAIN q, NEW p, Copies(r, q, p, J)
    PROVE  All(<<e>> \o r) = Size[e.body] + All(q) - BytesOf(q, J)
<1> DEFINE f == <<e>> \o r
           n == Len(r)
           v == Weights(f)
           w == Weights(q)
           s == [i \in 2..(n + 1) |-> p[i - 1]]
<1>1. f \in Seq(HotEntries) /\ n \in Nat /\ Len(f) = n + 1 /\ DOMAIN f = 1..(n + 1) /\ f[1] = e
      /\ \A i \in 2..(n + 1) : f[i] = r[i - 1]
  <2>1. <<e>> \in Seq(HotEntries) /\ Len(<<e>>) = 1 /\ <<e>>[1] = e /\ n \in Nat
    OBVIOUS
  <2>2. f \in Seq(HotEntries) /\ Len(f) = 1 + n
        /\ \A i \in 1..(1 + n) : f[i] = IF i <= 1 THEN <<e>>[i] ELSE r[i - 1]
    BY <2>1, ConcatProperties
  <2>3. DOMAIN f = 1..Len(f)
    BY <2>2
  <2> HIDE DEF f, n
  <2> QED  BY <2>1, <2>2, <2>3
<1> HIDE DEF f
<1>2. IsFiniteSet(1..(n + 1)) /\ IntsOn(v, 1..(n + 1)) /\ IsFiniteSet(DOMAIN q) /\ IntsOn(w, DOMAIN q)
      /\ All(f) = SumFunctionOnSet(v, 1..(n + 1)) /\ All(q) = SumFunctionOnSet(w, DOMAIN q)
      /\ BytesOf(q, J) = SumFunctionOnSet(w, J)
  BY <1>1, WeightsTyped DEF All
<1>3. \A i \in 1..(n + 1) : v[i] = Size[f[i].body]
  BY <1>1, WeightsTyped
<1>4. \A i \in DOMAIN q : w[i] = Size[q[i].body]
  BY WeightsTyped
<1>5. SumFunctionOnSet(v, 1..(n + 1)) = v[1] + SumFunctionOnSet(v, 2..(n + 1))
  <2>1. 1 \in 1..(n + 1) /\ (1..(n + 1)) \ {1} = 2..(n + 1)
    BY <1>1
  <2> HIDE DEF v, n, w, s
  <2>2. SumFunctionOnSet(v, 1..(n + 1)) = v[1] + SumFunctionOnSet(v, (1..(n + 1)) \ {1})
    BY <1>2, <2>1, SumStep
  <2> QED  BY <2>1, <2>2
<1>6. Renames(s, 2..(n + 1), DOMAIN q) /\ Carried(v, w, s, 2..(n + 1))
      /\ Img(s, 2..(n + 1)) = DOMAIN q \ J
  <2>0. /\ p \in [1..n -> DOMAIN q] /\ \A a, b \in 1..n : p[a] = p[b] => a = b
        /\ {p[i] : i \in 1..n} = DOMAIN q \ J
        /\ \A i \in 1..n : r[i] = q[p[i]]
    BY DEF Copies, Renames, Img, Carried
  <2>1. \A a \in 2..(n + 1) : a - 1 \in 1..n /\ a \in 1..(n + 1) /\ s[a] = p[a - 1] /\ s[a] \in DOMAIN q /\ a \in Int
    BY <1>1, <2>0
  <2>2. ASSUME NEW a \in 2..(n + 1) PROVE v[a] = w[s[a]]
    <3>1. v[a] = Size[f[a].body] /\ f[a] = r[a - 1] /\ a - 1 \in 1..n
      BY <1>1, <1>3, <2>1
    <3>2. w[s[a]] = Size[q[s[a]].body] /\ s[a] = p[a - 1]
      BY <1>4, <2>1
    <3>3. r[a - 1] = q[p[a - 1]]
      BY <2>0, <3>1
    <3> HIDE DEF v, w, s, n
    <3> QED  BY <3>1, <3>2, <3>3
  <2>3. \A a, b \in 2..(n + 1) : s[a] = s[b] => a = b
    <3>1. TAKE a, b \in 2..(n + 1)
    <3>2. HAVE s[a] = s[b]
    <3>3. a - 1 = b - 1
      BY <2>0, <2>1, <3>2
    <3> QED  BY <2>1, <3>3
  <2>4. \A i \in 1..n : i + 1 \in 2..(n + 1) /\ s[i + 1] = p[i]
    BY <1>1
  <2>5. {s[a] : a \in 2..(n + 1)} = {p[i] : i \in 1..n}
    <3> HIDE DEF s, n
    <3> QED  BY <2>1, <2>4
  <2> QED  BY <2>0, <2>1, <2>2, <2>3, <2>5 DEF Renames, Img, Carried
<1> HIDE DEF s
<1>8. SumFunctionOnSet(v, 2..(n + 1)) = SumFunctionOnSet(w, DOMAIN q \ J)
  <2> DEFINE R == 2..(n + 1)
  <2>1. IsFiniteSet(R)
    <3>1. n + 1 \in Int /\ 2 \in Int
      BY <1>1
    <3> HIDE DEF n
    <3> QED  BY <3>1, FS_Interval
  <2>2. IsFiniteSet(DOMAIN q) /\ IntsOn(w, DOMAIN q)
    BY <1>2
  <2>3. Renames(s, R, DOMAIN q) /\ Carried(v, w, s, R) /\ Img(s, R) = DOMAIN q \ J
    BY <1>6
  <2>4. SumFunctionOnSet(v, R) = SumFunctionOnSet(w, Img(s, R))
    <3> DEFINE D == DOMAIN q
    <3>1. IsFiniteSet(D) /\ IntsOn(w, D) /\ Renames(s, R, D) /\ Carried(v, w, s, R)
      BY <2>2, <2>3
    <3> HIDE DEF v, w, n, R, D
    <3> QED  BY <2>1, <3>1, SumRenamed
  <2> QED  BY <2>3, <2>4 DEF R
<1>9. SumFunctionOnSet(w, DOMAIN q) = SumFunctionOnSet(w, DOMAIN q \ J) + SumFunctionOnSet(w, J)
  <2>1. (DOMAIN q \ J) \cap J = {} /\ (DOMAIN q \ J) \cup J = DOMAIN q /\ DOMAIN q \ J \in SUBSET DOMAIN q
    OBVIOUS
  <2> DEFINE A == DOMAIN q \ J
  <2> HIDE DEF w, A
  <2>2. A \in SUBSET DOMAIN q /\ A \cap J = {} /\ A \cup J = DOMAIN q
    BY <2>1 DEF A
  <2>3. SumFunctionOnSet(w, A \cup J) = SumFunctionOnSet(w, A) + SumFunctionOnSet(w, J)
    BY <1>2, <2>2, SumSplit, SMTT(60)
  <2> QED  BY <2>2, <2>3 DEF A
<1>10. SumFunctionOnSet(w, DOMAIN q \ J) \in Int /\ SumFunctionOnSet(w, J) \in Int
  <2>1. DOMAIN q \ J \in SUBSET DOMAIN q
    OBVIOUS
  <2> HIDE DEF w
  <2> QED  BY <1>2, <2>1, SumFacts
<1>11. v[1] = Size[e.body] /\ Size[e.body] \in Int
  BY <1>1, <1>3, ImagesAssumption DEF HotEntries
<1> HIDE DEF v, w, s, n
<1> QED  BY <1>2, <1>5, <1>8, <1>9, <1>10, <1>11 DEF f

\* RemoveAt, with where its elements come from.
LEMMA Removed ==
    ASSUME NEW q \in Seq(HotEntries), NEW j \in DOMAIN q
    PROVE  LET r == RemoveAt(q, j)
               p == [i \in 1..Len(r) |-> IF i < j THEN i ELSE i + 1]
           IN r \in Seq(HotEntries) /\ Len(r) = Len(q) - 1 /\ Copies(r, q, p, {j})
<1> DEFINE r == RemoveAt(q, j)
           a == SubSeq(q, 1, j - 1)
           b == SubSeq(q, j + 1, Len(q))
           p == [i \in 1..Len(r) |-> IF i < j THEN i ELSE i + 1]
<1>1. Len(q) \in Nat /\ DOMAIN q = 1..Len(q) /\ j \in 1..Len(q)
  OBVIOUS
<1>2. a \in Seq(HotEntries) /\ Len(a) = j - 1 /\ \A i \in 1..(j - 1) : a[i] = q[i]
  BY <1>1, SubSeqProperties
<1>3. b \in Seq(HotEntries) /\ Len(b) = Len(q) - j /\ \A i \in 1..(Len(q) - j) : b[i] = q[j + i]
  <2>1. /\ b \in Seq(HotEntries)
        /\ Len(b) = IF j + 1 <= Len(q) THEN Len(q) - (j + 1) + 1 ELSE 0
        /\ \A i \in 1..(Len(q) - (j + 1) + 1) : b[i] = q[j + 1 + i - 1]
    <3>1. j + 1 \in 1..(Len(q) + 1) /\ Len(q) \in 0..Len(q)
      BY <1>1
    <3> QED  BY <1>1, <3>1, SubSeqProperties
  <2> HIDE DEF b
  <2>2. Len(b) = Len(q) - j
    BY <1>1, <2>1
  <2>3. ASSUME NEW i \in 1..(Len(q) - j) PROVE b[i] = q[j + i]
    <3>1. i \in 1..(Len(q) - (j + 1) + 1) /\ j + 1 + i - 1 = j + i
      BY <1>1
    <3> QED  BY <2>1, <3>1
  <2> QED  BY <2>1, <2>2, <2>3
<1>4. r = a \o b
  BY DEF RemoveAt
<1> HIDE DEF a, b
<1>5. r \in Seq(HotEntries) /\ Len(r) = Len(q) - 1
      /\ \A i \in 1..(Len(q) - 1) : r[i] = IF i <= j - 1 THEN a[i] ELSE b[i - (j - 1)]
  <2>1. r \in Seq(HotEntries) /\ Len(r) = Len(a) + Len(b)
        /\ \A i \in 1..(Len(a) + Len(b)) : r[i] = IF i <= Len(a) THEN a[i] ELSE b[i - Len(a)]
    BY <1>2, <1>3, <1>4, ConcatProperties
  <2>2. Len(a) + Len(b) = Len(q) - 1 /\ Len(a) = j - 1
    BY <1>1, <1>2, <1>3
  <2> HIDE DEF r
  <2> QED  BY <2>1, <2>2
<1> HIDE DEF r
<1>6. \A i \in 1..Len(r) : p[i] = (IF i < j THEN i ELSE i + 1) /\ p[i] \in 1..Len(q) /\ p[i] # j
  BY <1>1, <1>5
<1>7. \A i \in 1..Len(r) : r[i] = q[p[i]]
  <2>1. TAKE i \in 1..Len(r)
  <2>2. CASE i < j
    BY <1>1, <1>2, <1>5, <2>2
  <2>3. CASE ~(i < j)
    <3>1. i - (j - 1) \in 1..(Len(q) - j) /\ j + (i - (j - 1)) = i + 1 /\ ~(i <= j - 1)
      BY <1>1, <1>5, <2>3
    <3>2. r[i] = b[i - (j - 1)] /\ b[i - (j - 1)] = q[j + (i - (j - 1))]
      BY <1>3, <1>5, <3>1
    <3> QED  BY <1>6, <2>3, <3>1, <3>2
  <2> QED  BY <2>2, <2>3
<1>8. {p[i] : i \in 1..Len(r)} = DOMAIN q \ {j}
  <2>1. ASSUME NEW k \in DOMAIN q \ {j} PROVE \E i \in 1..Len(r) : p[i] = k
    <3>1. CASE k < j
      BY <1>1, <1>5, <3>1
    <3>2. CASE k > j
      <4>1. k - 1 \in 1..Len(r) /\ ~(k - 1 < j) /\ (k - 1) + 1 = k
        BY <1>1, <1>5, <3>2
      <4> QED  BY <4>1
    <3> QED  BY <1>1, <3>1, <3>2
  <2> HIDE DEF p
  <2> QED  BY <1>1, <1>6, <2>1
<1>9. \A x, y \in 1..Len(r) : p[x] = p[y] => x = y
  BY <1>1, <1>5
<1>10. p \in [1..Len(r) -> DOMAIN q]
  BY <1>1, <1>6
<1> HIDE DEF p
<1>11. Copies(r, q, p, {j})
  BY <1>7, <1>8, <1>9, <1>10 DEF Copies, Renames, Img, Carried
<1> QED  BY <1>5, <1>11 DEF r, p

\* evictLocked on an exact byte count: a prefix is left, both caps hold and the
\* count is exact again.
LEMMA Evicted ==
    ASSUME NEW q \in Seq(HotEntries), EvictLocked(q, All(q))
    PROVE  /\ hot' \in Seq(HotEntries) /\ Len(hot') \in 0..Len(q) /\ Len(hot') <= HotMaxEntries
           /\ \A i \in 1..Len(hot') : hot'[i] = q[i]
           /\ hotBytes' = BytesOf(hot', DOMAIN hot') /\ hotBytes' \in Nat /\ hotBytes' <= HotMaxBytes
<1> DEFINE Left(n) == All(q) - BytesOf(q, (n + 1)..Len(q))
           N == {n \in 0..Len(q) : n = 0 \/ (Left(n) <= HotMaxBytes /\ n <= HotMaxEntries)}
           kept == Max(N)
<1>1. hot' = SubSeq(q, 1, kept) /\ hotBytes' = Left(kept)
  BY DEF EvictLocked
<1>2. Len(q) \in Nat /\ DOMAIN q = 1..Len(q)
  OBVIOUS
<1>3. kept \in N
  <2>1. N \subseteq Nat /\ (\A n \in N : n <= Len(q)) /\ 0 \in N
    <3> HIDE DEF Left
    <3> QED  BY <1>2
  <2> HIDE DEF N
  <2> QED  BY <1>2, <2>1, MaxIsMember
<1>4. kept \in 0..Len(q) /\ (kept = 0 \/ (Left(kept) <= HotMaxBytes /\ kept <= HotMaxEntries))
  <2> HIDE DEF Left, kept
  <2> QED  BY <1>3
<1> HIDE DEF N, kept
<1>5. hot' \in Seq(HotEntries) /\ Len(hot') = kept /\ \A i \in 1..kept : hot'[i] = q[i]
  <2> HIDE DEF Left
  <2>1. kept \in Nat /\ kept <= Len(q)
    BY <1>2, <1>4
  <2>2. \A i \in 1..kept : q[i] \in HotEntries
    BY <1>2, <2>1
  <2> DEFINE s == SubSeq(q, 1, kept)
  <2>3. s \in Seq(HotEntries) /\ Len(s) = (IF 1 <= kept THEN kept - 1 + 1 ELSE 0)
        /\ \A i \in 1..(kept - 1 + 1) : s[i] = q[1 + i - 1]
    BY <2>1, <2>2, SubSeqProperties
  <2> HIDE DEF s
  <2>4. Len(s) = kept /\ \A i \in 1..kept : s[i] = q[i]
    BY <2>1, <2>3
  <2> QED  BY <1>1, <2>3, <2>4 DEF s
<1> DEFINE D == 1..Len(q)
           front == 1..kept
           back == (kept + 1)..Len(q)
           w == Weights(q)
           v == Weights(hot')
<1>6. /\ IsFiniteSet(D) /\ IntsOn(w, D) /\ All(q) = SumFunctionOnSet(w, D)
      /\ BytesOf(q, back) = SumFunctionOnSet(w, back)
      /\ \A i \in D : w[i] = Size[q[i].body]
  BY <1>2, WeightsTyped DEF All
<1>7. /\ IsFiniteSet(front) /\ NatsOn(v, front) /\ DOMAIN hot' = front
      /\ BytesOf(hot', front) = SumFunctionOnSet(v, front)
      /\ \A i \in front : v[i] = Size[hot'[i].body]
  BY <1>5, WeightsTyped
<1>8. front \in SUBSET D /\ back \in SUBSET D /\ front \cap back = {} /\ front \cup back = D
  BY <1>2, <1>4
<1>9. \A i \in front : w[i] = v[i]
  <2> HIDE DEF w, v
  <2> QED  BY <1>5, <1>6, <1>7, <1>8
<1> HIDE DEF D, w, v
<1>10. SumFunctionOnSet(w, D) = SumFunctionOnSet(w, front) + SumFunctionOnSet(w, back)
  <2> HIDE DEF front, back
  <2>1. SumFunctionOnSet(w, front \cup back) = SumFunctionOnSet(w, front) + SumFunctionOnSet(w, back)
    BY <1>6, <1>8, SumSplit
  <2> QED  BY <1>8, <2>1
<1> HIDE DEF front, back
<1>11. SumFunctionOnSet(w, front) \in Int /\ SumFunctionOnSet(w, back) \in Int
  BY <1>6, <1>8, SumFacts
<1>12. SumFunctionOnSet(v, front) \in Nat /\ IntsOn(v, front)
  BY <1>7, SumNat
<1>13. SumFunctionOnSet(w, front) = SumFunctionOnSet(v, front)
  BY <1>7, <1>9, <1>12, SumSame
<1>14. Left(kept) = SumFunctionOnSet(v, front)
  <2>1. Left(kept) = All(q) - BytesOf(q, back)
    BY DEF back
  <2> HIDE DEF Left
  <2> QED  BY <1>6, <1>10, <1>11, <1>13, <2>1
<1>15. hotBytes' = BytesOf(hot', DOMAIN hot') /\ hotBytes' \in Nat
  <2> HIDE DEF Left
  <2> QED  BY <1>1, <1>7, <1>12, <1>14
<1>16. hotBytes' <= HotMaxBytes /\ kept <= HotMaxEntries
  <2>1. CASE kept = 0
    <3>1. front = {}
      BY <2>1 DEF front
    <3>2. SumFunctionOnSet(v, front) = 0
      BY <1>7, <1>12, <3>1, SumFacts
    <3> HIDE DEF Left
    <3>3. hotBytes' = 0
      BY <1>1, <1>14, <3>2
    <3> QED  BY <2>1, <3>3, HotAssumption
  <2>2. CASE kept # 0
    <3> HIDE DEF Left
    <3> QED  BY <1>1, <1>4, <2>2
  <2> QED  BY <2>1, <2>2
<1> HIDE DEF Left
<1> QED  BY <1>4, <1>5, <1>15, <1>16

---------------------------------------------------------------------------
\* The bytes of one entry.
LEMMA BytesOfOne ==
    ASSUME NEW q \in Seq(HotEntries), NEW j \in DOMAIN q
    PROVE  BytesOf(q, {j}) = Size[q[j].body] /\ Size[q[j].body] \in Nat
<1> DEFINE w == Weights(q)
<1>1. BytesOf(q, {j}) = SumFunctionOnSet(w, {j}) /\ w[j] = Size[q[j].body] /\ w[j] \in Nat
  BY WeightsTyped
<1> HIDE DEF w
<1>2. IsFiniteSet({j})
  BY FS_Singleton
<1>3. IntsOn(w, {j}) /\ j \in {j}
  BY <1>1 DEF IntsOn
<1>4. SumFunctionOnSet(w, {j}) = w[j] + SumFunctionOnSet(w, {j} \ {j})
  BY <1>2, <1>3, SumStep
<1>5. SumFunctionOnSet(w, {}) = 0 /\ {j} \ {j} = {}
  BY <1>2, <1>3, SumFacts
<1>6. w[j] + 0 = w[j]
  BY <1>1
<1>7. SumFunctionOnSet(w, {j}) = w[j]
  BY <1>4, <1>5, <1>6, Zenon
<1> QED  BY <1>1, <1>7, Zenon

HotInv == HotTypeOK /\ HotBounded

\* What the invariant says of the entries.
LEMMA HotFacts ==
    ASSUME HotInv
    PROVE  /\ hot \in Seq(HotEntries) /\ DOMAIN hot = 1..Len(hot) /\ Len(hot) \in Nat
           /\ \A i \in DOMAIN hot : hot[i] \in HotEntries
           /\ hotBytes = All(hot) /\ hotBytes \in Nat
           /\ \A i, j \in DOMAIN hot : hot[i].key = hot[j].key => i = j
<1>1. hot \in Seq(HotEntries)
  BY DEF HotInv, HotTypeOK, HotEntries
<1>2. DOMAIN hot = 1..Len(hot) /\ Len(hot) \in Nat /\ \A i \in DOMAIN hot : hot[i] \in HotEntries
  BY <1>1
<1>3. hotBytes = All(hot) /\ hotBytes \in Nat /\ \A i, j \in DOMAIN hot : hot[i].key = hot[j].key => i = j
  BY DEF HotInv, HotTypeOK, HotBounded, All
<1> QED  BY <1>1, <1>2, <1>3

\* An entry of another key in front of a copy of the tier: keys are listed once.
LEMMA KeysOnce ==
    ASSUME HotInv, NEW e \in HotEntries, NEW r \in Seq(HotEntries), NEW J, NEW p, Copies(r, hot, p, J),
           \A i \in 1..Len(r) : hot[p[i]].key # e.key
    PROVE  LET f == <<e>> \o r
           IN /\ f \in Seq(HotEntries) /\ Len(f) = Len(r) + 1
              /\ \A i, j \in 1..Len(f) : f[i].key = f[j].key => i = j
              /\ \A i \in 1..Len(f) : \/ f[i] = e
                                      \/ \E m \in DOMAIN hot : f[i] = hot[m] /\ hot[m].key # e.key
<1> DEFINE f == <<e>> \o r
           n == Len(r)
<1>1. f \in Seq(HotEntries) /\ n \in Nat /\ Len(f) = n + 1 /\ f[1] = e
      /\ \A i \in 2..(n + 1) : f[i] = r[i - 1]
  <2>1. <<e>> \in Seq(HotEntries) /\ Len(<<e>>) = 1 /\ <<e>>[1] = e /\ n \in Nat
    OBVIOUS
  <2>2. f \in Seq(HotEntries) /\ Len(f) = 1 + n
        /\ \A i \in 1..(1 + n) : f[i] = IF i <= 1 THEN <<e>>[i] ELSE r[i - 1]
    BY <2>1, ConcatProperties
  <2> HIDE DEF f, n
  <2> QED  BY <2>1, <2>2
<1>2. /\ p \in [1..n -> DOMAIN hot] /\ \A a, b \in 1..n : p[a] = p[b] => a = b
      /\ \A i \in 1..n : r[i] = hot[p[i]]
  BY DEF Copies, Renames, Carried
<1> HIDE DEF f
<1>3. \A i \in 2..(n + 1) : i - 1 \in 1..n /\ f[i] = hot[p[i - 1]] /\ p[i - 1] \in DOMAIN hot
                            /\ hot[p[i - 1]].key # e.key
  <2>1. \A i \in 2..(n + 1) : i - 1 \in 1..n
    BY <1>1
  <2> QED  BY <1>1, <1>2, <2>1
<1>4. \A i \in 1..(n + 1) : i = 1 \/ i \in 2..(n + 1)
  BY <1>1
<1>5. ASSUME NEW i \in 1..(n + 1), NEW j \in 1..(n + 1), f[i].key = f[j].key PROVE i = j
  <2>1. CASE i = 1 \/ j = 1
    BY <1>1, <1>3, <1>4, <1>5, <2>1
  <2>2. CASE i \in 2..(n + 1) /\ j \in 2..(n + 1)
    <3>1. p[i - 1] = p[j - 1]
      BY <1>3, <1>5, <2>2, HotFacts
    <3>2. i - 1 = j - 1
      BY <1>2, <1>3, <2>2, <3>1
    <3> QED  BY <2>2, <3>2
  <2> QED  BY <1>4, <2>1, <2>2
<1>6. ASSUME NEW i \in 1..(n + 1)
      PROVE  f[i] = e \/ \E m \in DOMAIN hot : f[i] = hot[m] /\ hot[m].key # e.key
  BY <1>1, <1>3, <1>4
<1> QED  BY <1>1, <1>5, <1>6 DEF f

\* What Put does to the tier: it stays within its caps, its count stays exact;
\* k's entry becomes the new one, or goes.
LEMMA HotPutFacts ==
    ASSUME HotInv, NEW k \in Keys, NEW b \in Bodies, NEW t \in Bodies, HotPut(k, b, t)
    PROVE  /\ HotInv'
           /\ \/ hot' = hot /\ (HotMaxEntries = 0 \/ Size[b] > HotMaxBytes)
              \/ \A i \in DOMAIN hot' :
                    \/ hot'[i] = [key |-> k, body |-> b, tag |-> t]
                    \/ \E m \in DOMAIN hot : hot'[i] = hot[m] /\ hot[m].key # k
<1> DEFINE new == [key |-> k, body |-> b, tag |-> t]
<1>0. new \in HotEntries /\ new.key = k /\ new.body = b
  BY DEF HotEntries
<1>1. CASE HotMaxEntries = 0 \/ Size[b] > HotMaxBytes
  BY <1>1 DEF HotPut, hotVars, HotInv, HotTypeOK, HotBounded
<1>2. ASSUME NEW r \in Seq(HotEntries), NEW J \in SUBSET DOMAIN hot, NEW p, Copies(r, hot, p, J),
             \A i \in 1..Len(r) : hot[p[i]].key # k,
             EvictLocked(<<new>> \o r, Size[b] + All(hot) - BytesOf(hot, J))
      PROVE  /\ HotInv'
             /\ \A i \in DOMAIN hot' :
                    \/ hot'[i] = new
                    \/ \E m \in DOMAIN hot : hot'[i] = hot[m] /\ hot[m].key # k
  <2> DEFINE f == <<new>> \o r
  <2>1. hot \in Seq(HotEntries)
    BY HotFacts
  <2> HIDE DEF new
  <2>2. All(f) = Size[b] + All(hot) - BytesOf(hot, J)
    BY <1>0, <1>2, <2>1, BytesInFront
  <2>3. /\ f \in Seq(HotEntries) /\ Len(f) = Len(r) + 1
        /\ \A i, j \in 1..Len(f) : f[i].key = f[j].key => i = j
        /\ \A i \in 1..Len(f) : \/ f[i] = new
                                \/ \E m \in DOMAIN hot : f[i] = hot[m] /\ hot[m].key # k
    BY <1>0, <1>2, KeysOnce, SMTT(60)
  <2>4. EvictLocked(f, All(f))
    <3>1. EvictLocked(f, Size[b] + All(hot) - BytesOf(hot, J))
      BY <1>2
    <3> QED  BY <2>2, <3>1
  <2> HIDE DEF f
  <2>5. /\ hot' \in Seq(HotEntries) /\ Len(hot') \in 0..Len(f) /\ Len(hot') <= HotMaxEntries
        /\ \A i \in 1..Len(hot') : hot'[i] = f[i]
        /\ hotBytes' = BytesOf(hot', DOMAIN hot') /\ hotBytes' \in Nat /\ hotBytes' <= HotMaxBytes
    BY <2>3, <2>4, Evicted
  <2>6. DOMAIN hot' = 1..Len(hot') /\ Len(f) \in Nat /\ \A i \in 1..Len(hot') : i \in 1..Len(f)
    BY <2>3, <2>5
  <2>7. \A i, j \in DOMAIN hot' : hot'[i].key = hot'[j].key => i = j
    BY <2>3, <2>5, <2>6
  <2>8. HotInv'
    BY <2>5, <2>7 DEF HotInv, HotTypeOK, HotBounded, HotEntries, BytesOf
  <2>9. ASSUME NEW i \in DOMAIN hot'
        PROVE  hot'[i] = new \/ \E m \in DOMAIN hot : hot'[i] = hot[m] /\ hot[m].key # k
    BY <2>3, <2>5, <2>6
  <2> QED  BY <2>8, <2>9
<1>3. CASE ~(HotMaxEntries = 0 \/ Size[b] > HotMaxBytes) /\ HotHas(k)
  <2> DEFINE j == HotAt(k)
             r == RemoveAt(hot, j)
             p == [i \in 1..Len(r) |-> IF i < j THEN i ELSE i + 1]
  <2>1. j \in DOMAIN hot /\ hot[j].key = k
    BY <1>3 DEF HotHas, HotAt
  <2> HIDE DEF j
  <2>2. hot \in Seq(HotEntries) /\ hotBytes = All(hot) /\ hotBytes \in Nat
        /\ \A m, n \in DOMAIN hot : hot[m].key = hot[n].key => m = n
    BY HotFacts
  <2>3. r \in Seq(HotEntries) /\ Copies(r, hot, p, {j})
    BY <2>1, <2>2, Removed
  <2> HIDE DEF r, p
  <2>4. \A i \in 1..Len(r) : p[i] \in DOMAIN hot /\ p[i] # j
    BY <2>3 DEF Copies, Renames, Img
  <2>5. \A i \in 1..Len(r) : hot[p[i]].key # k
    BY <2>1, <2>2, <2>4
  <2>6. BytesOf(hot, {j}) = Size[hot[j].body] /\ Size[hot[j].body] \in Nat /\ Size[b] \in Nat
    BY <2>1, <2>2, BytesOfOne, ImagesAssumption
  <2>7. EvictLocked(<<new>> \o r, hotBytes - Size[hot[j].body] + Size[b])
    BY <1>3 DEF HotPut, HotEntry, j, r
  <2>8. hotBytes - Size[hot[j].body] + Size[b] = Size[b] + All(hot) - BytesOf(hot, {j})
    BY <2>2, <2>6
  <2>9. EvictLocked(<<new>> \o r, Size[b] + All(hot) - BytesOf(hot, {j}))
    <3> HIDE DEF new
    <3> QED  BY <2>7, <2>8
  <2>10. {j} \in SUBSET DOMAIN hot
    BY <2>1
  <2> HIDE DEF new
  <2> QED  BY <1>2, <2>3, <2>5, <2>9, <2>10 DEF new
<1>4. CASE ~(HotMaxEntries = 0 \/ Size[b] > HotMaxBytes) /\ ~HotHas(k)
  <2> DEFINE p == [i \in 1..Len(hot) |-> i]
  <2>1. hot \in Seq(HotEntries) /\ hotBytes = All(hot) /\ hotBytes \in Nat /\ DOMAIN hot = 1..Len(hot)
    BY HotFacts
  <2>2. Copies(hot, hot, p, {})
    <3>1. Renames(p, 1..Len(hot), DOMAIN hot) /\ Carried(hot, hot, p, 1..Len(hot))
      BY <2>1 DEF Renames, Carried
    <3>2. Img(p, 1..Len(hot)) = DOMAIN hot \ {}
      BY <2>1 DEF Img
    <3> QED  BY <3>1, <3>2 DEF Copies
  <2>3. \A i \in 1..Len(hot) : hot[p[i]].key # k
    BY <1>4, <2>1 DEF HotHas
  <2>4. BytesOf(hot, {}) = 0
    <3>1. /\ BytesOf(hot, {}) = SumFunctionOnSet(Weights(hot), {}) /\ IsFiniteSet(DOMAIN hot)
          /\ IntsOn(Weights(hot), DOMAIN hot)
      BY <2>1, WeightsTyped
    <3> QED  BY <3>1, SumFacts
  <2>5. EvictLocked(<<new>> \o hot, hotBytes + Size[b]) /\ Size[b] \in Nat
    BY <1>4, ImagesAssumption DEF HotPut
  <2>6. hotBytes + Size[b] = Size[b] + All(hot) - BytesOf(hot, {})
    BY <2>1, <2>4, <2>5
  <2>7. EvictLocked(<<new>> \o hot, Size[b] + All(hot) - BytesOf(hot, {}))
    <3> HIDE DEF new
    <3> QED  BY <2>5, <2>6
  <2>8. {} \in SUBSET DOMAIN hot
    OBVIOUS
  <2> HIDE DEF new, p
  <2> QED  BY <1>2, <2>1, <2>2, <2>3, <2>7, <2>8 DEF new
<1> QED  BY <1>1, <1>3, <1>4

\* A hit moves an entry to the front, and nothing else.
LEMMA HotTouchFacts ==
    ASSUME HotInv, NEW k \in Keys, HotHas(k), HotTouch(k)
    PROVE  /\ HotInv'
           /\ \A i \in DOMAIN hot' : \E m \in DOMAIN hot : hot'[i] = hot[m]
           /\ HotAt(k) \in DOMAIN hot /\ hot[HotAt(k)].key = k /\ HotEntry(k) \in HotEntries
<1> DEFINE j == HotAt(k)
           r == RemoveAt(hot, j)
           p == [i \in 1..Len(r) |-> IF i < j THEN i ELSE i + 1]
           e == hot[j]
           f == <<e>> \o r
<1>1. j \in DOMAIN hot /\ hot[j].key = k
  BY DEF HotHas, HotAt
<1>2. HotEntry(k) = e /\ hot' = f /\ hotBytes' = hotBytes
  BY DEF HotTouch, HotEntry
<1> HIDE DEF j
<1>3. hot \in Seq(HotEntries) /\ hotBytes = All(hot) /\ hotBytes \in Nat /\ e \in HotEntries
      /\ \A m, n \in DOMAIN hot : hot[m].key = hot[n].key => m = n
  BY <1>1, HotFacts
<1>4. r \in Seq(HotEntries) /\ Len(r) = Len(hot) - 1 /\ Copies(r, hot, p, {j})
  BY <1>1, <1>3, Removed
<1> HIDE DEF r, p
<1>5. \A i \in 1..Len(r) : p[i] \in DOMAIN hot /\ p[i] # j
  BY <1>4 DEF Copies, Renames, Img
<1>6. \A i \in 1..Len(r) : hot[p[i]].key # e.key
  BY <1>1, <1>3, <1>5
<1>7. BytesOf(hot, {j}) = Size[e.body] /\ Size[e.body] \in Nat
  BY <1>1, <1>3, BytesOfOne
<1>8. {j} \in SUBSET DOMAIN hot
  BY <1>1
<1> HIDE DEF e
<1>9. All(f) = Size[e.body] + All(hot) - BytesOf(hot, {j})
  BY <1>3, <1>4, <1>8, BytesInFront
<1>10. All(f) = hotBytes
  BY <1>3, <1>7, <1>9
<1>11. /\ f \in Seq(HotEntries) /\ Len(f) = Len(r) + 1
       /\ \A i, m \in 1..Len(f) : f[i].key = f[m].key => i = m
       /\ \A i \in 1..Len(f) : \/ f[i] = e
                               \/ \E m \in DOMAIN hot : f[i] = hot[m] /\ hot[m].key # e.key
  BY <1>3, <1>4, <1>6, KeysOnce
<1> HIDE DEF f
<1>12. DOMAIN f = 1..Len(f) /\ Len(f) = Len(hot)
  BY <1>3, <1>4, <1>11
<1>13. HotInv'
  <2>1. hotBytes <= HotMaxBytes /\ Len(hot) <= HotMaxEntries
    BY DEF HotInv, HotBounded
  <2> QED  BY <1>2, <1>3, <1>10, <1>11, <1>12, <2>1 DEF HotInv, HotTypeOK, HotBounded, HotEntries, All, BytesOf
<1>14. ASSUME NEW i \in DOMAIN hot' PROVE \E m \in DOMAIN hot : hot'[i] = hot[m]
  BY <1>1, <1>2, <1>11, <1>12 DEF e
<1> QED  BY <1>1, <1>2, <1>3, <1>13, <1>14 DEF j

---------------------------------------------------------------------------
(* The inductive invariant.                                                *)

\* A copy of the index: each key with an entry is in the recency order, once.
Listed(e) == {k \in Keys : e[k] # NoEntry}
Lists(q, e) == IsInjective(q) /\ Range(q) = Listed(e)
ManifestOK(m) == m \in Manifests /\ Lists(m.recency, m.entries)
Lengths(e) == [k \in Keys |-> e[k].len]
DiskInv ==
    /\ DiskTypeOK
    /\ bytes = SumFunctionOnSet(Lengths(entries), Keys)
    /\ Lists(recency, entries)
    /\ ManifestOK(manifest)

Storing == {"bin", "json", "register", "evict", "copy", "manifest", "hot", "mark", "announce"}
Stored == Storing \ {"bin"}
Shown == {"mark", "announce"}
Found == {"read", "touch", "manifest", "warm"}
Held == Found \ {"read"}

RefOK(r) ==
    /\ r \in [pc : RefPcs, by : Getters \cup {"none"}, body : Versions, man : Manifests]
    /\ ManifestOK(r.man)
    /\ r.pc \in Storing => r.body \in Bodies
GetOK(c) ==
    /\ c \in [pc : GetPcs, key : Keys \cup {"none"}, ent : Entries, body : Versions,
              man : Manifests, floor : Versions]
    /\ ManifestOK(c.man)
    /\ c.pc # "idle" => c.key \in Keys
    /\ c.pc \in Found => c.ent # NoEntry
    /\ c.pc \in Held => c.body \in Bodies
Answers == [key : Keys \cup {"none"}, body : Versions, tag : Versions,
            floor : Versions, err : {"none", "upstream", "empty"}]
States == [etag : Tagged \cup {None}, hash : Versions, failing : BOOLEAN, ok : BOOLEAN]
DataOK ==
    /\ world \in [Keys -> Bodies]
    /\ st \in [Keys -> States]
    /\ async \in [Keys -> Nat]
    /\ poll \in [Keys -> {"timer", "refresh", "off"}]
    /\ answer \in [Getters -> Answers]
    /\ announced \in [Keys -> Versions]
    /\ raced \in [Keys -> BOOLEAN]
    /\ gets \in 0..MaxGets
    /\ crashes \in 0..MaxCrashes
RefsOK(f) == f = [k \in Keys |-> f[k]] /\ \A k \in Keys : RefOK(f[k])
GetsOK(f) == f = [g \in Getters |-> f[g]] /\ \A g \in Getters : GetOK(f[g])
\* The Get that called a Refresh waits for it.
Waits(r, f) == \A k \in Keys : r[k].by # "none" => f[r[k].by].pc = "wait" /\ f[r[k].by].key = k
ProxyInv == DataOK /\ RefsOK(ref) /\ GetsOK(get) /\ Waits(ref, get)

\* The hash kept of the stored body and the last announcement, while there was no
\* crash: they differ only between markSuccess and onInvalidate.
HashOf(k) ==
    LET pc == ref[k].pc b == ref[k].body IN
    /\ pc = "announce" => st[k].hash = b /\ announced[k] # b
    /\ pc # "announce" => st[k].hash = announced[k]
    /\ pc \in Storing \ {"announce"} => b # announced[k]
HashInv == crashes = 0 => \A k \in Keys : HashOf(k)

\* What the upstream had, what a Refresh stores, what is on disk and what was
\* announced lie in this order.
Versioned(k) ==
    /\ announced[k] <= world[k]
    /\ ref[k].pc \in Storing => announced[k] <= ref[k].body /\ ref[k].body <= world[k]
    /\ bin[k] <= world[k]
    /\ bin[k] # None => announced[k] <= bin[k]
    /\ ref[k].pc \in Stored => bin[k] \in {None, ref[k].body}
Excused(k) == raced[k] \/ \E b \in 1..world[k] : Size[b] > HotMaxBytes
\* b is no older than the last announcement of k, or than the one that comes.
Recent(k, b) == announced[k] <= b /\ (ref[k].pc \in Shown => ref[k].body <= b)
HeldRecent(g) ==
    LET c == get[g] IN
    /\ c.pc # "idle" => c.floor <= announced[c.key]
    /\ c.pc \in Held /\ ~raced[c.key] => Recent(c.key, c.body)
HotRecent == \A i \in DOMAIN hot : ~Excused(hot[i].key) => Recent(hot[i].key, hot[i].body)
AnswerRecent(g) ==
    LET a == answer[g] IN a.key # "none" /\ a.err = "none" => a.body >= a.floor \/ Excused(a.key)
RecentInv ==
    /\ \A k \in Keys : Versioned(k)
    /\ \A g \in Getters : HeldRecent(g)
    /\ HotRecent
    /\ \A g \in Getters : AnswerRecent(g)

Inv == HotInv /\ DiskInv /\ ProxyInv

---------------------------------------------------------------------------
(* The disk store.                                                         *)

\* A key becomes the most recent.
LEMMA MostRecent ==
    ASSUME NEW q \in Seq(Keys), IsInjective(q), NEW k \in Keys
    PROVE  LET f == Append(Without(q, {k}), k)
           IN f \in Seq(Keys) /\ IsInjective(f) /\ Range(f) = Range(q) \cup {k}
<1> DEFINE r == Without(q, {k})
           f == Append(r, k)
           n == Len(r)
<1>1. r \in Seq(Keys) /\ Range(r) = Range(q) \ {k} /\ IsInjective(r)
  BY WithoutFacts
<1> HIDE DEF r
<1>2. n \in Nat /\ DOMAIN r = 1..n
  BY <1>1
<1>3. f \in Seq(Keys) /\ Len(f) = n + 1 /\ f[n + 1] = k /\ \A i \in 1..n : f[i] = r[i]
  BY <1>1, AppendProperties
<1> HIDE DEF f, n
<1>4. DOMAIN f = 1..(n + 1) /\ 1..(n + 1) = (1..n) \cup {n + 1}
  BY <1>2, <1>3
<1>5. \A i \in 1..n : r[i] # k
  BY <1>1, <1>2 DEF Range
<1>6. Range(f) = Range(r) \cup {k}
  BY <1>2, <1>3, <1>4 DEF Range
<1>7. IsInjective(f)
  <2>1. \A a, b \in 1..n : r[a] = r[b] => a = b
    BY <1>1, <1>2 DEF IsInjective
  <2>2. ASSUME NEW a \in 1..(n + 1), NEW b \in 1..(n + 1), f[a] = f[b] PROVE a = b
    <3>1. (a \in 1..n \/ a = n + 1) /\ (b \in 1..n \/ b = n + 1)
      BY <1>4
    <3> QED  BY <1>3, <1>5, <2>1, <2>2, <3>1
  <2> QED  BY <1>4, <2>2 DEF IsInjective
<1>8. f \in Seq(Keys) /\ IsInjective(f) /\ Range(f) = Range(q) \cup {k}
  BY <1>1, <1>3, <1>6, <1>7
<1> QED  BY <1>8 DEF f, r

\* The lengths of an index are numbers; a key with no entry has length 0.
LEMMA LengthsTyped ==
    ASSUME NEW e \in [Keys -> Entries]
    PROVE  IsFiniteSet(Keys) /\ NatsOn(Lengths(e), Keys) /\ IntsOn(Lengths(e), Keys)
           /\ \A k \in Keys : Lengths(e)[k] = e[k].len /\ (e[k] = NoEntry => e[k].len = 0)
<1>1. \A k \in Keys : Lengths(e)[k] = e[k].len /\ e[k].len \in Nat /\ (e[k] = NoEntry => e[k].len = 0)
  BY DEF Lengths, Entries, NoEntry, None
<1> QED  BY <1>1, ImagesAssumption DEF NatsOn, IntsOn

\* An index of which Put replaced an entry.
LEMMA RegisterFacts ==
    ASSUME DiskInv, NEW k \in Keys, NEW b \in Bodies, Register(k, b)
    PROVE  DiskInv'
<1> DEFINE new == [tag |-> b, len |-> Size[b]]
<1>1. new \in Entries /\ new # NoEntry /\ Size[b] \in Nat
  BY ImagesAssumption DEF Entries, NoEntry, None, Bodies
<1>2. entries \in [Keys -> Entries] /\ recency \in Seq(Keys) /\ bytes = SumFunctionOnSet(Lengths(entries), Keys)
      /\ Lists(recency, entries)
  BY DEF DiskInv, DiskTypeOK
<1>3. entries' = [entries EXCEPT ![k] = new] /\ bytes' = bytes - entries[k].len + Size[b]
      /\ recency' = Append(Without(recency, {k}), k) /\ UNCHANGED <<bin, json, manifest>>
  BY DEF Register
<1>4. entries' \in [Keys -> Entries] /\ entries'[k] = new /\ \A j \in Keys : j # k => entries'[j] = entries[j]
  BY <1>1, <1>2, <1>3
<1>5. recency' \in Seq(Keys) /\ IsInjective(recency') /\ Range(recency') = Range(recency) \cup {k}
  BY <1>2, <1>3, MostRecent DEF Lists
<1>6. Lists(recency', entries')
  <2>1. Listed(entries') = Listed(entries) \cup {k}
    <3> HIDE DEF new
    <3> QED  BY <1>1, <1>4 DEF Listed
  <2> QED  BY <1>2, <1>5, <2>1 DEF Lists
<1>7. bytes' = SumFunctionOnSet(Lengths(entries'), Keys) /\ bytes' \in Nat
  <2> DEFINE v == Lengths(entries')
             w == Lengths(entries)
  <2>1. IsFiniteSet(Keys) /\ IntsOn(v, Keys) /\ IntsOn(w, Keys) /\ NatsOn(v, Keys)
        /\ v[k] = Size[b] /\ w[k] = entries[k].len /\ \A j \in Keys : j # k => v[j] = w[j]
    <3>1. /\ IsFiniteSet(Keys) /\ IntsOn(v, Keys) /\ IntsOn(w, Keys) /\ NatsOn(v, Keys)
          /\ (\A j \in Keys : v[j] = entries'[j].len) /\ (\A j \in Keys : w[j] = entries[j].len)
      BY <1>2, <1>4, LengthsTyped
    <3>2. new.len = Size[b]
      OBVIOUS
    <3> HIDE DEF v, w, new
    <3> QED  BY <1>4, <3>1, <3>2
  <2> HIDE DEF v, w
  <2>2. SumFunctionOnSet(v, Keys) = SumFunctionOnSet(w, Keys) - w[k] + v[k]
    BY <2>1, SumChange
  <2>3. SumFunctionOnSet(v, Keys) \in Nat
    BY <2>1, SumNat
  <2>4. bytes = SumFunctionOnSet(w, Keys)
    BY <1>2 DEF w
  <2>5. bytes' = SumFunctionOnSet(v, Keys)
    BY <1>3, <2>1, <2>2, <2>4
  <2> QED  BY <2>3, <2>5 DEF v
<1> QED  BY <1>3, <1>4, <1>5, <1>6, <1>7 DEF DiskInv, DiskTypeOK, ManifestOK

\* The sum of weights that are all zero.
LEMMA SumZero ==
    ASSUME NEW D, IsFiniteSet(D), NEW w, \A x \in D : w[x] = 0
    PROVE  SumFunctionOnSet(w, D) = 0
<1>1. IntsOn(w, D)
  BY DEF IntsOn
<1> DEFINE Bad == {s \in SUBSET D : SumFunctionOnSet(w, s) # 0}
<1>2. Bad = {}
  <2>1. SUFFICES ASSUME Bad # {} PROVE FALSE
    OBVIOUS
  <2>2. PICK m \in Bad : \A u \in SUBSET m : u # m => u \notin Bad
    <3>1. Bad \subseteq SUBSET D
      OBVIOUS
    <3> HIDE DEF Bad
    <3> QED  BY <2>1, <3>1, MinimalSet
  <2>3. m \in SUBSET D /\ SumFunctionOnSet(w, m) # 0
    OBVIOUS
  <2>4. m # {}
    BY <1>1, <2>3, SumFacts
  <2>5. PICK x : x \in m
    BY <2>4
  <2>6. SumFunctionOnSet(w, m) = w[x] + SumFunctionOnSet(w, m \ {x})
    BY <1>1, <2>3, <2>5, SumFacts
  <2>7. SumFunctionOnSet(w, m \ {x}) = 0 /\ w[x] = 0
    BY <2>2, <2>3, <2>5
  <2> QED  BY <2>3, <2>6, <2>7
<1> QED  BY <1>2

\* The lengths of an index of which only the entries of A are left.
LEMMA LengthsLeft ==
    ASSUME NEW e \in [Keys -> Entries], NEW A \in SUBSET Keys, \A k \in Keys \ A : e[k] = NoEntry
    PROVE  SumFunctionOnSet(Lengths(e), Keys) = SumFunctionOnSet(Lengths(e), A)
           /\ SumFunctionOnSet(Lengths(e), Keys) \in Nat
<1> DEFINE w == Lengths(e)
           B == Keys \ A
<1>1. IsFiniteSet(Keys) /\ NatsOn(w, Keys) /\ IntsOn(w, Keys) /\ \A k \in B : w[k] = 0
  BY LengthsTyped
<1>2. B \in SUBSET Keys /\ A \cap B = {} /\ A \cup B = Keys
  OBVIOUS
<1> HIDE DEF w, B
<1>3. IsFiniteSet(B)
  BY <1>1, <1>2, FS_Subset
<1>4. SumFunctionOnSet(w, B) = 0
  BY <1>1, <1>3, SumZero
<1>5. SumFunctionOnSet(w, A \cup B) = SumFunctionOnSet(w, A) + SumFunctionOnSet(w, B)
  BY <1>1, <1>2, SumSplit
<1>6. SumFunctionOnSet(w, A) \in Int /\ SumFunctionOnSet(w, Keys) \in Nat
  BY <1>1, SumFacts, SumNat
<1>7. SumFunctionOnSet(w, A) + 0 = SumFunctionOnSet(w, A)
  BY <1>6
<1>8. SumFunctionOnSet(w, Keys) = SumFunctionOnSet(w, A)
  BY <1>2, <1>4, <1>5, <1>7, Zenon
<1> QED  BY <1>6, <1>8 DEF w

\* evictIfOverCap leaves the accounting exact and no other file than before.
LEMMA EvictFacts ==
    ASSUME DiskInv, EvictIfOverCap
    PROVE  DiskInv' /\ \A k \in Keys : bin'[k] \in {None, bin[k]}
<1> DEFINE V == Victims
           A == Keys \ V
           w == Lengths(entries)
           v == Lengths(entries')
<1>1. /\ entries \in [Keys -> Entries] /\ recency \in Seq(Keys) /\ bytes = SumFunctionOnSet(w, Keys)
      /\ Lists(recency, entries) /\ bin \in [Keys -> Bodies \cup {None}] /\ json \in [Keys -> BOOLEAN]
  BY DEF DiskInv, DiskTypeOK
<1>2. /\ bytes' = bytes - Freed(V)
      /\ entries' = [k \in Keys |-> IF k \in V THEN NoEntry ELSE entries[k]]
      /\ recency' = Without(recency, V)
      /\ bin' = [k \in Keys |-> IF k \in V THEN None ELSE bin[k]]
      /\ json' = [k \in Keys |-> json[k] /\ k \notin V]
      /\ UNCHANGED manifest
  BY DEF EvictIfOverCap
<1>3. V \subseteq Keys
  <2> DEFINE N == {n \in 0..Len(recency) : bytes - Freed(Oldest(n)) <= DiskMaxBytes} \cup {Len(recency)}
  <2>1. Len(recency) \in Nat /\ \A i \in 1..Len(recency) : recency[i] \in Keys
    BY <1>1
  <2>2. N \subseteq 0..Len(recency) /\ N \subseteq Nat /\ N # {}
    BY <2>1
  <2>3. V = Oldest(Min(N))
    BY DEF Victims
  <2> HIDE DEF N, V
  <2>4. Min(N) \in 0..Len(recency)
    BY <2>2, MinIsMember
  <2> QED  BY <2>1, <2>3, <2>4 DEF Oldest
<1> HIDE DEF V
<1>4. NoEntry \in Entries
  BY DEF Entries
<1>5. entries' \in [Keys -> Entries] /\ bin' \in [Keys -> Bodies \cup {None}] /\ json' \in [Keys -> BOOLEAN]
      /\ (\A k \in A : entries'[k] = entries[k]) /\ (\A k \in V : entries'[k] = NoEntry)
      /\ \A k \in Keys : bin'[k] \in {None, bin[k]}
  <2> HIDE DEF NoEntry
  <2>1. entries' \in [Keys -> Entries] /\ (\A k \in A : entries'[k] = entries[k]) /\ (\A k \in V : entries'[k] = NoEntry)
    BY <1>1, <1>2, <1>3, <1>4
  <2>2. bin' \in [Keys -> Bodies \cup {None}] /\ \A k \in Keys : bin'[k] \in {None, bin[k]}
    BY <1>1, <1>2
  <2>3. json' \in [Keys -> BOOLEAN]
    BY <1>2
  <2> QED  BY <2>1, <2>2, <2>3
<1>6. recency' \in Seq(Keys) /\ Lists(recency', entries')
  <2>1. recency' \in Seq(Keys) /\ Range(recency') = Range(recency) \ V /\ IsInjective(recency')
    BY <1>1, <1>2, WithoutFacts DEF Lists
  <2>2. Listed(entries') = Listed(entries) \ V
    BY <1>3, <1>5 DEF Listed
  <2> QED  BY <1>1, <2>1, <2>2 DEF Lists
<1>7. bytes' = SumFunctionOnSet(v, Keys) /\ bytes' \in Nat
  <2>1. /\ IsFiniteSet(Keys) /\ IntsOn(w, Keys) /\ IntsOn(v, Keys)
        /\ (\A k \in Keys : w[k] = entries[k].len) /\ (\A k \in Keys : v[k] = entries'[k].len)
    BY <1>1, <1>5, LengthsTyped
  <2>2. A \in SUBSET Keys /\ IsFiniteSet(A) /\ A \cap V = {} /\ A \cup V = Keys /\ V \in SUBSET Keys
    BY <1>3, <2>1, FS_Subset
  <2>3. SumFunctionOnSet(v, Keys) = SumFunctionOnSet(v, A) /\ SumFunctionOnSet(v, Keys) \in Nat
    <3>1. \A k \in Keys \ A : entries'[k] = NoEntry
      BY <1>5
    <3> HIDE DEF A, NoEntry
    <3> QED  BY <1>5, <2>2, <3>1, LengthsLeft
  <2>4. IntsOn(w, A) /\ \A k \in A : v[k] = w[k]
    <3> HIDE DEF v, w
    <3> QED  BY <1>5, <2>1, <2>2 DEF IntsOn
  <2>5. Freed(V) = SumFunctionOnSet(w, V)
    BY DEF Freed, Lengths
  <2> HIDE DEF v, w, A
  <2>6. SumFunctionOnSet(v, A) = SumFunctionOnSet(w, A)
    BY <2>2, <2>4, SumSame
  <2>7. SumFunctionOnSet(w, A \cup V) = SumFunctionOnSet(w, A) + SumFunctionOnSet(w, V)
    BY <2>1, <2>2, SumSplit
  <2>8. SumFunctionOnSet(w, A) \in Int /\ SumFunctionOnSet(w, V) \in Int
    BY <2>1, <2>2, SumFacts
  <2>9. bytes = SumFunctionOnSet(w, A) + SumFunctionOnSet(w, V)
    BY <1>1, <2>2, <2>7
  <2>10. bytes' = SumFunctionOnSet(w, A)
    BY <1>2, <2>5, <2>8, <2>9
  <2> QED  BY <2>3, <2>6, <2>10
<1>8. ManifestOK(manifest')
  BY <1>2 DEF DiskInv
<1> QED  BY <1>5, <1>6, <1>7, <1>8 DEF DiskInv, DiskTypeOK, ManifestOK

\* NewDiskStore: what it reads from any manifest that was written is exact.
LEMMA LoadFacts ==
    ASSUME DiskInv, LoadManifest
    PROVE  DiskInv'
<1> DEFINE A == Loadable
           v == Lengths(entries')
           w == [k \in A |-> Size[bin[k]]]
           m == manifest
<1>1. /\ bin \in [Keys -> Bodies \cup {None}] /\ json \in [Keys -> BOOLEAN]
      /\ ManifestOK(m) /\ UNCHANGED <<bin, json, manifest>>
  BY DEF DiskInv, DiskTypeOK, LoadManifest
<1>2. m.entries \in [Keys -> Entries] /\ m.recency \in Seq(Keys) /\ Lists(m.recency, m.entries)
  BY <1>1 DEF ManifestOK, Manifests
<1>3. /\ entries' = [k \in Keys |-> IF k \in A THEN [m.entries[k] EXCEPT !.len = Size[bin[k]]] ELSE NoEntry]
      /\ bytes' = SumFunctionOnSet(w, A)
      /\ recency' = Without(m.recency, Keys \ A)
  <2>1. bytes' = SumFunction(w) /\ DOMAIN w = A
    BY DEF LoadManifest
  <2> QED  BY <2>1 DEF LoadManifest, SumFunction
<1>4. A \subseteq Listed(m.entries) /\ A \in SUBSET Keys /\ \A k \in A : bin[k] \in Bodies
  BY <1>1 DEF Loadable, Listed
<1> HIDE DEF A
<1>5. ASSUME NEW k \in A
      PROVE  entries'[k] \in Entries /\ entries'[k] # NoEntry /\ entries'[k].len = Size[bin[k]] /\ Size[bin[k]] \in Nat
  <2>1. m.entries[k] \in [tag : Bodies, len : Nat]
    BY <1>2, <1>4 DEF Listed, Entries
  <2>2. Size[bin[k]] \in Nat
    BY <1>4, ImagesAssumption
  <2> DEFINE e == [m.entries[k] EXCEPT !.len = Size[bin[k]]]
  <2>3. e \in [tag : Bodies, len : Nat] /\ e.len = Size[bin[k]] /\ e.tag \in Bodies
    BY <2>1, <2>2
  <2>4. entries'[k] = e
    BY <1>3, <1>4
  <2>5. NoEntry.tag = 0 /\ 0 \notin Bodies
    BY DEF NoEntry, None, Bodies
  <2> HIDE DEF e, NoEntry
  <2> QED  BY <2>2, <2>3, <2>4, <2>5 DEF Entries
<1>6. (\A k \in Keys \ A : entries'[k] = NoEntry) /\ NoEntry \in Entries /\ entries' \in [Keys -> Entries]
  <2>1. \A k \in Keys \ A : entries'[k] = NoEntry
    BY <1>3
  <2>2. NoEntry \in Entries
    BY DEF Entries
  <2>3. \A k \in Keys : entries'[k] \in Entries
    <3> HIDE DEF NoEntry
    <3> QED  BY <1>5, <2>1, <2>2
  <2>4. entries' = [k \in Keys |-> entries'[k]]
    BY <1>3
  <2> QED  BY <2>1, <2>2, <2>3, <2>4
<1>7. recency' \in Seq(Keys) /\ Lists(recency', entries')
  <2>1. recency' \in Seq(Keys) /\ Range(recency') = Range(m.recency) \ (Keys \ A) /\ IsInjective(recency')
    BY <1>2, <1>3, WithoutFacts DEF Lists
  <2>2. Range(recency') = A
    BY <1>2, <1>4, <2>1 DEF Lists, Listed
  <2>3. Listed(entries') = A
    <3> HIDE DEF NoEntry
    <3> QED  BY <1>4, <1>5, <1>6 DEF Listed
  <2> QED  BY <2>1, <2>2, <2>3 DEF Lists
<1>8. bytes' = SumFunctionOnSet(v, Keys) /\ bytes' \in Nat
  <2>1. /\ IsFiniteSet(A) /\ IntsOn(v, A) /\ \A k \in A : w[k] = v[k]
    <3>1. IsFiniteSet(Keys) /\ IntsOn(v, Keys) /\ \A k \in Keys : v[k] = entries'[k].len
      BY <1>6, LengthsTyped
    <3>2. IsFiniteSet(A)
      BY <1>4, <3>1, FS_Subset
    <3>3. \A k \in A : w[k] = Size[bin[k]]
      OBVIOUS
    <3> HIDE DEF v, w
    <3> QED  BY <1>4, <1>5, <3>1, <3>2, <3>3 DEF IntsOn
  <2>2. SumFunctionOnSet(v, Keys) = SumFunctionOnSet(v, A) /\ SumFunctionOnSet(v, Keys) \in Nat
    BY <1>4, <1>6, LengthsLeft
  <2> HIDE DEF v, w
  <2>3. SumFunctionOnSet(w, A) = SumFunctionOnSet(v, A)
    BY <2>1, SumSame
  <2> QED  BY <1>3, <2>2, <2>3
<1> QED  BY <1>1, <1>6, <1>7, <1>8 DEF DiskInv, DiskTypeOK, ManifestOK

\* LastAccess, and what a manifest copied then would hold.
LEMMA TouchFacts ==
    ASSUME DiskInv, NEW k \in Keys, NEW e, e # NoEntry, Touch(k, e)
    PROVE  DiskInv' /\ ManifestOK([entries |-> entries, recency |-> recency'])
<1>1. entries \in [Keys -> Entries] /\ recency \in Seq(Keys) /\ Lists(recency, entries)
  BY DEF DiskInv, DiskTypeOK
<1>2. UNCHANGED <<entries, bytes, bin, json, manifest>>
  BY DEF Touch
<1>3. recency' \in Seq(Keys) /\ Lists(recency', entries)
  <2>1. CASE entries[k] = e
    <3>1. recency' = Append(Without(recency, {k}), k)
      BY <2>1 DEF Touch
    <3>2. recency' \in Seq(Keys) /\ IsInjective(recency') /\ Range(recency') = Range(recency) \cup {k}
      BY <1>1, <3>1, MostRecent DEF Lists
    <3>3. k \in Listed(entries)
      BY <2>1 DEF Listed
    <3> QED  BY <1>1, <3>2, <3>3 DEF Lists
  <2>2. CASE entries[k] # e
    BY <1>1, <2>2 DEF Touch
  <2> QED  BY <2>1, <2>2
<1> DEFINE c == [entries |-> entries, recency |-> recency']
<1>4. c \in Manifests /\ c.entries = entries /\ c.recency = recency'
  BY <1>1, <1>3 DEF Manifests
<1> HIDE DEF c
<1>5. ManifestOK(c)
  BY <1>3, <1>4 DEF ManifestOK
<1> QED  BY <1>2, <1>3, <1>5 DEF DiskInv, DiskTypeOK, c, ManifestOK

\* The invariant of the store is what the cap needs.
LEMMA DiskExact ==
    ASSUME DiskInv
    PROVE  DiskIndexExact
<1>1. recency \in Seq(Keys) /\ Len(recency) \in Nat /\ DOMAIN recency = 1..Len(recency)
  BY DEF DiskInv, DiskTypeOK
<1>2. Oldest(Len(recency)) = Range(recency)
  BY <1>1 DEF Oldest, Range
<1>3. Range(recency) = {k \in Keys : entries[k] # NoEntry} /\ IsInjective(recency)
  BY DEF DiskInv, Lists, Listed
<1>4. recency \in Bijection(1..Len(recency), Range(recency))
  BY <1>1, <1>3 DEF Bijection, Injection, Surjection, Range, IsInjective
<1>5. Cardinality(Range(recency)) = Len(recency)
  BY <1>1, <1>4, FS_CountingElements DEF ExistsBijection
<1>6. bytes = Freed(Keys)
  BY DEF DiskInv, Freed, Lengths
<1> QED  BY <1>2, <1>3, <1>5, <1>6 DEF DiskIndexExact

---------------------------------------------------------------------------
(* The processes: every Refresh and every Get.                             *)

\* The manifests a process may hold.
LEMMA ManifestsOK == ManifestOK(NoManifest) /\ (DiskInv => ManifestOK(Snapshot))
<1>1. NoEntry \in Entries /\ <<>> \in Seq(Keys)
  BY DEF Entries
<1>2. NoManifest \in Manifests /\ Lists(NoManifest.recency, NoManifest.entries)
  <2>1. NoManifest \in Manifests
    <3> HIDE DEF NoEntry
    <3> QED  BY <1>1 DEF NoManifest, Manifests
  <2>2. Listed(NoManifest.entries) = {}
    BY DEF Listed, NoManifest
  <2>3. NoManifest.recency = <<>> /\ Range(<<>>) = {} /\ IsInjective(<<>>)
    BY DEF NoManifest, Range, IsInjective
  <2> QED  BY <2>1, <2>2, <2>3 DEF Lists
<1>3. ASSUME DiskInv PROVE ManifestOK(Snapshot)
  BY <1>3 DEF DiskInv, DiskTypeOK, Snapshot, ManifestOK, Manifests
<1> QED  BY <1>2, <1>3 DEF ManifestOK

\* A Refresh of which one record is replaced.
LEMMA RefTo ==
    ASSUME RefsOK(ref), NEW k \in Keys, NEW r, RefOK(r), ref' = [ref EXCEPT ![k] = r]
    PROVE  RefsOK(ref') /\ ref'[k] = r /\ \A j \in Keys : j # k => ref'[j] = ref[j]
BY DEF RefsOK

\* The same of a Get.
LEMMA GetTo ==
    ASSUME GetsOK(get), NEW g \in Getters, NEW c, GetOK(c), get' = [get EXCEPT ![g] = c]
    PROVE  GetsOK(get') /\ get'[g] = c /\ \A j \in Getters : j # g => get'[j] = get[j]
BY DEF GetsOK

\* The fields of a Refresh.
LEMMA RefFields ==
    ASSUME RefsOK(ref), NEW k \in Keys
    PROVE  /\ ref[k].pc \in RefPcs /\ ref[k].by \in Getters \cup {"none"} /\ ref[k].body \in Versions
           /\ ManifestOK(ref[k].man) /\ ref[k].man \in Manifests
           /\ ref[k].pc \in Storing => ref[k].body \in Bodies
           /\ ref[k] = [pc |-> ref[k].pc, by |-> ref[k].by, body |-> ref[k].body, man |-> ref[k].man]
           /\ ref = [j \in Keys |-> ref[j]]
BY DEF RefsOK, RefOK

\* The fields of a Get.
LEMMA GetFields ==
    ASSUME GetsOK(get), NEW g \in Getters
    PROVE  /\ get[g].pc \in GetPcs /\ get[g].key \in Keys \cup {"none"} /\ get[g].ent \in Entries
           /\ get[g].body \in Versions /\ get[g].floor \in Versions
           /\ ManifestOK(get[g].man) /\ get[g].man \in Manifests
           /\ get[g].pc # "idle" => get[g].key \in Keys
           /\ get[g].pc \in Found => get[g].ent # NoEntry /\ get[g].ent.tag \in Bodies
           /\ get[g].pc \in Held => get[g].body \in Bodies
           /\ get[g] = [pc |-> get[g].pc, key |-> get[g].key, ent |-> get[g].ent, body |-> get[g].body,
                        man |-> get[g].man, floor |-> get[g].floor]
           /\ get = [h \in Getters |-> get[h]]
<1>1. GetOK(get[g]) /\ get = [h \in Getters |-> get[h]]
  BY DEF GetsOK
<1>2. ASSUME NEW e \in Entries, e # NoEntry PROVE e.tag \in Bodies
  BY <1>2 DEF Entries
<1> QED  BY <1>1, <1>2 DEF GetOK

\* A Refresh goes on to another step.
LEMMA RefMoves ==
    ASSUME RefsOK(ref), NEW k \in Keys, NEW pc \in RefPcs, pc \in Storing => ref[k].body \in Bodies,
           RefPc(k, pc)
    PROVE  /\ RefsOK(ref')
           /\ ref'[k].pc = pc /\ ref'[k].body = ref[k].body /\ ref'[k].by = ref[k].by
           /\ \A j \in Keys : j # k => ref'[j] = ref[j]
           /\ \A j \in Keys : ref'[j].by = ref[j].by
<1> DEFINE r == [ref[k] EXCEPT !.pc = pc]
<1>0. ref[k] = [pc |-> ref[k].pc, by |-> ref[k].by, body |-> ref[k].body, man |-> ref[k].man]
  BY RefFields
<1>1. r = [pc |-> pc, by |-> ref[k].by, body |-> ref[k].body, man |-> ref[k].man]
  BY <1>0
<1>2. RefOK(r)
  BY <1>1, RefFields DEF RefOK
<1>3. ref' = [ref EXCEPT ![k] = r]
  BY RefFields DEF RefPc
<1> HIDE DEF r
<1>4. RefsOK(ref') /\ ref'[k] = r /\ \A j \in Keys : j # k => ref'[j] = ref[j]
  BY <1>2, <1>3, RefTo
<1> QED  BY <1>1, <1>4

\* A Refresh returns.
LEMMA Returns ==
    ASSUME ProxyInv, NEW k \in Keys, NEW err \in BOOLEAN, Return(k, err)
    PROVE  /\ RefsOK(ref') /\ GetsOK(get') /\ Waits(ref', get')
           /\ ref'[k] = IdleRef /\ \A j \in Keys : j # k => ref'[j] = ref[j]
           /\ \A g \in Getters : \/ get'[g] = get[g]
                                 \/ /\ get[g].pc = "wait" /\ get'[g].pc \in {"failed", "again"}
                                    /\ get'[g].key = get[g].key /\ get'[g].floor = get[g].floor
<1> DEFINE to == IF err THEN "failed" ELSE "again"
<1>1. RefsOK(ref) /\ GetsOK(get) /\ Waits(ref, get)
  BY DEF ProxyInv
<1>2. /\ ref' = [ref EXCEPT ![k] = IdleRef]
      /\ get' = [g \in Getters |-> IF g = ref[k].by THEN [get[g] EXCEPT !.pc = to] ELSE get[g]]
  BY DEF Return
<1>3. to \in {"failed", "again"}
  OBVIOUS
<1> HIDE DEF to
<1>4. RefOK(IdleRef)
  BY ManifestsOK DEF RefOK, IdleRef, RefPcs, Versions, Storing, ManifestOK
<1>5. RefsOK(ref') /\ ref'[k] = IdleRef /\ \A j \in Keys : j # k => ref'[j] = ref[j]
  BY <1>1, <1>2, <1>4, RefTo
<1>6. ASSUME NEW g \in Getters, g = ref[k].by
      PROVE  /\ get[g].pc = "wait" /\ get[g].key = k
             /\ get'[g] = [pc |-> to, key |-> get[g].key, ent |-> get[g].ent, body |-> get[g].body,
                           man |-> get[g].man, floor |-> get[g].floor]
             /\ get'[g].pc = to /\ get'[g].key = get[g].key /\ get'[g].floor = get[g].floor
             /\ GetOK(get'[g])
  <2>1. g # "none"
    BY ProxyAssumption
  <2>2. get[g].pc = "wait" /\ get[g].key = k
    BY <1>1, <1>6, <2>1 DEF Waits
  <2>3. get'[g] = [get[g] EXCEPT !.pc = to]
    BY <1>2, <1>6
  <2>4. get'[g] = [pc |-> to, key |-> get[g].key, ent |-> get[g].ent, body |-> get[g].body,
                   man |-> get[g].man, floor |-> get[g].floor]
    <3>1. get[g] = [pc |-> get[g].pc, key |-> get[g].key, ent |-> get[g].ent, body |-> get[g].body,
                    man |-> get[g].man, floor |-> get[g].floor]
      BY <1>1, GetFields
    <3> QED  BY <2>3, <3>1
  <2>5. GetOK(get'[g])
    <3>1. GetOK(get[g])
      BY <1>1 DEF GetsOK
    <3>2. get'[g].pc = to /\ get'[g].key = get[g].key /\ get'[g].man = get[g].man
          /\ get'[g] \in [pc : GetPcs, key : Keys \cup {"none"}, ent : Entries, body : Versions,
                         man : Manifests, floor : Versions]
      BY <1>3, <2>4, <3>1 DEF GetOK, GetPcs
    <3> QED  BY <1>3, <2>2, <3>1, <3>2 DEF GetOK, Found, Held
  <2> QED  BY <2>2, <2>4, <2>5
<1>7. \A g \in Getters : g # ref[k].by => get'[g] = get[g]
  BY <1>2
<1>8. GetsOK(get')
  <2>1. get' = [g \in Getters |-> get'[g]]
    BY <1>2
  <2> QED  BY <1>1, <1>6, <1>7, <2>1 DEF GetsOK
<1>9. Waits(ref', get')
  <2>1. SUFFICES ASSUME NEW j \in Keys, ref'[j].by # "none"
                 PROVE  get'[ref'[j].by].pc = "wait" /\ get'[ref'[j].by].key = j
    BY DEF Waits
  <2>2. j # k
    BY <1>5, <2>1 DEF IdleRef
  <2>3. ref'[j] = ref[j] /\ ref[j].by \in Getters
    BY <1>1, <1>5, <2>1, <2>2, RefFields
  <2>4. get[ref[j].by].pc = "wait" /\ get[ref[j].by].key = j
    BY <1>1, <2>1, <2>3 DEF Waits
  <2>5. ref[j].by # ref[k].by
    BY <1>1, <1>6, <2>2, <2>3, <2>4
  <2> QED  BY <1>7, <2>3, <2>4, <2>5
<1>10. \A g \in Getters : \/ get'[g] = get[g]
                          \/ /\ get[g].pc = "wait" /\ get'[g].pc \in {"failed", "again"}
                             /\ get'[g].key = get[g].key /\ get'[g].floor = get[g].floor
  <2> TAKE g \in Getters
  <2>1. CASE g = ref[k].by
    <3>1. get'[g].pc = to /\ get'[g].key = get[g].key /\ get'[g].floor = get[g].floor /\ get[g].pc = "wait"
      BY <1>6, <2>1
    <3> QED  BY <1>3, <3>1
  <2>2. CASE g # ref[k].by
    BY <1>7, <2>2
  <2> QED  BY <2>1, <2>2
<1> QED  BY <1>5, <1>8, <1>9, <1>10

\* The empty tier.
LEMMA NothingHot ==
    (hot = <<>> /\ hotBytes = 0 => HotInv) /\ (hot' = <<>> /\ hotBytes' = 0 => HotInv')
<1>1. BytesOf(<<>>, DOMAIN <<>>) = 0
  <2> DEFINE w == [i \in DOMAIN <<>> |-> Size[<<>>[i].body]]
  <2>1. DOMAIN <<>> = {} /\ IsFiniteSet({}) /\ \A x \in {} : w[x] = 0
    BY FS_EmptySet
  <2> HIDE DEF w
  <2>2. SumFunctionOnSet(w, {}) = 0
    BY <2>1, SumZero
  <2> QED  BY <2>1, <2>2 DEF BytesOf, w
<1>2. HotMaxBytes \in Nat /\ HotMaxEntries \in Nat
  BY HotAssumption
<1>3. <<>> \in Seq([key : Keys, body : Bodies, tag : Bodies]) /\ Len(<<>>) = 0 /\ DOMAIN <<>> = {}
  OBVIOUS
<1>4. ASSUME hot = <<>>, hotBytes = 0 PROVE HotInv
  <2>1. hotBytes = BytesOf(hot, DOMAIN hot)
    BY <1>1, <1>4, Zenon
  <2>2. HotTypeOK
    BY <1>3, <1>4 DEF HotTypeOK
  <2>3. hotBytes <= HotMaxBytes /\ Len(hot) <= HotMaxEntries
    BY <1>2, <1>3, <1>4
  <2>4. \A i, j \in DOMAIN hot : hot[i].key = hot[j].key => i = j
    BY <1>3, <1>4
  <2> QED  BY <2>1, <2>2, <2>3, <2>4 DEF HotInv, HotBounded
<1>5. ASSUME hot' = <<>>, hotBytes' = 0 PROVE HotInv'
  <2>1. (hotBytes = BytesOf(hot, DOMAIN hot))'
    BY <1>1, <1>5, Zenon DEF BytesOf
  <2>2. HotTypeOK'
    BY <1>3, <1>5 DEF HotTypeOK
  <2>3. hotBytes' <= HotMaxBytes /\ Len(hot') <= HotMaxEntries
    BY <1>2, <1>3, <1>5
  <2>4. \A i, j \in DOMAIN hot' : hot'[i].key = hot'[j].key => i = j
    BY <1>3, <1>5
  <2> QED  BY <2>1, <2>2, <2>3, <2>4 DEF HotInv, HotBounded
<1> QED  BY <1>4, <1>5

\* No process runs.
LEMMA NoProcess ==
    LET r == [k \in Keys |-> IdleRef]
        f == [g \in Getters |-> IdleGet]
    IN RefsOK(r) /\ GetsOK(f) /\ Waits(r, f)
<1>1. RefOK(IdleRef) /\ IdleRef.by = "none"
  BY ManifestsOK DEF RefOK, IdleRef, RefPcs, Versions, Storing, ManifestOK
<1>2. GetOK(IdleGet)
  BY ManifestsOK DEF GetOK, IdleGet, GetPcs, Versions, Entries, Found, Held, ManifestOK
<1> QED  BY <1>1, <1>2 DEF RefsOK, GetsOK, Waits

---------------------------------------------------------------------------
(* The invariant holds and every step keeps it.                            *)

\* A process that starts has an empty tier, an empty store, and nothing runs.
LEMMA InitInv == Init => Inv
<1> SUFFICES ASSUME Init PROVE Inv
  OBVIOUS
<1>1. /\ hot = <<>> /\ hotBytes = 0 /\ DiskInit
      /\ world = [k \in Keys |-> 1] /\ st = [k \in Keys |-> NoState]
      /\ ref = [k \in Keys |-> IdleRef] /\ async = [k \in Keys |-> 0] /\ poll = Pollers
      /\ get = [g \in Getters |-> IdleGet] /\ answer = [g \in Getters |-> NoAnswer]
      /\ announced = [k \in Keys |-> None] /\ raced = [k \in Keys |-> FALSE]
      /\ gets = 0 /\ crashes = 0
  BY DEF Init, HotInit
<1>2. HotInv
  BY <1>1, NothingHot
<1>3. DiskInv
  <2>1. /\ entries = [k \in Keys |-> NoEntry] /\ bytes = 0 /\ recency = <<>>
        /\ bin = [k \in Keys |-> None] /\ json = [k \in Keys |-> FALSE] /\ manifest = Snapshot
    BY <1>1 DEF DiskInit
  <2>2. manifest = NoManifest
    BY <2>1 DEF Snapshot, NoManifest
  <2>3. ManifestOK(manifest) /\ manifest \in Manifests /\ Lists(recency, entries)
        /\ entries \in [Keys -> Entries] /\ recency \in Seq(Keys)
    <3>1. manifest.entries = entries /\ manifest.recency = recency
      BY <2>1 DEF Snapshot
    <3> QED  BY <2>2, <3>1, ManifestsOK DEF ManifestOK, Manifests
  <2>4. bytes = SumFunctionOnSet(Lengths(entries), Keys)
    <3>1. \A k \in Keys : Lengths(entries)[k] = 0
      BY <2>1 DEF Lengths, NoEntry
    <3> QED  BY <2>1, <3>1, SumZero, ImagesAssumption
  <2>5. DiskTypeOK
    BY <2>1, <2>3 DEF DiskTypeOK, None
  <2> QED  BY <2>3, <2>4, <2>5 DEF DiskInv
<1>4. DataOK
  <2>1. 1 \in Bodies /\ MaxGets \in Nat /\ MaxCrashes \in Nat
    BY ImagesAssumption, ProxyAssumption DEF Bodies
  <2>2. NoState \in States
    BY DEF NoState, States, Versions
  <2>3. NoAnswer \in Answers
    BY DEF NoAnswer, Answers, Versions
  <2>4. Pollers \in [Keys -> {"timer", "refresh", "off"}]
    BY DEF Pollers
  <2> HIDE DEF NoState, NoAnswer
  <2> QED  BY <1>1, <2>1, <2>2, <2>3, <2>4 DEF DataOK, Versions
<1>5. ProxyInv
  BY <1>1, <1>4, NoProcess DEF ProxyInv
<1> QED  BY <1>2, <1>3, <1>5 DEF Inv

\* Memory: a Put or a Get of the tier, or a crash.
LEMMA HotStep ==
    ASSUME Inv, [Next]_vars
    PROVE  HotInv'
<1>1. HotInv /\ ProxyInv
  BY DEF Inv
<1>2. ASSUME UNCHANGED hotVars PROVE HotInv'
  BY <1>1, <1>2 DEF hotVars, HotInv, HotTypeOK, HotBounded, BytesOf
<1>3. ASSUME NEW k \in Keys, RefreshHot(k) PROVE HotInv'
  <2>1. ref[k].body \in Bodies
    BY <1>1, <1>3, RefFields DEF ProxyInv, RefreshHot, Storing
  <2>2. HotPut(k, ref[k].body, ref[k].body)
    BY <1>3 DEF RefreshHot
  <2> QED  BY <1>1, <2>1, <2>2, HotPutFacts
<1>4. ASSUME NEW g \in Getters, NEW k \in Keys, GetHit(g, k) PROVE HotInv'
  <2>1. HotHas(k) /\ HotTouch(k)
    BY <1>4 DEF GetHit
  <2> QED  BY <1>1, <2>1, HotTouchFacts
<1>5. ASSUME NEW g \in Getters, GetWarm(g) PROVE HotInv'
  <2>1. get[g].key \in Keys /\ get[g].body \in Bodies /\ get[g].ent.tag \in Bodies
    <3>1. get[g].pc = "warm" /\ GetsOK(get)
      BY <1>1, <1>5 DEF GetWarm, ProxyInv
    <3> QED  BY <3>1, GetFields DEF Found, Held
  <2>2. HotPut(get[g].key, get[g].body, get[g].ent.tag)
    BY <1>5 DEF GetWarm
  <2> QED  BY <1>1, <2>1, <2>2, HotPutFacts
<1>6. ASSUME NEW g \in Getters, GetAgain(g) PROVE HotInv'
  <2>1. get[g].key \in Keys
    <3>1. get[g].pc = "again" /\ GetsOK(get)
      BY <1>1, <1>6 DEF GetAgain, ProxyInv
    <3> QED  BY <3>1, GetFields
  <2>2. CASE HotHas(get[g].key)
    <3>1. HotTouch(get[g].key)
      BY <1>6, <2>2 DEF GetAgain
    <3> QED  BY <1>1, <2>1, <2>2, <3>1, HotTouchFacts
  <2>3. CASE ~HotHas(get[g].key)
    BY <1>2, <1>6, <2>3 DEF GetAgain
  <2> QED  BY <2>2, <2>3
<1>7. ASSUME Crash PROVE HotInv'
  <2>1. hot' = <<>> /\ hotBytes' = 0
    BY <1>7 DEF Crash
  <2> QED  BY <2>1, NothingHot
<1>8. ASSUME NEW k \in Keys, Change(k) \/ StatsGet(k) PROVE HotInv'
  BY <1>2, <1>8 DEF Change, StatsGet
<1>9. ASSUME NEW k \in Keys, Refresh(k), ~RefreshHot(k) PROVE HotInv'
  BY <1>2, <1>9 DEF Refresh, Put, RefreshAsync, RefreshFails, RefreshUnchanged, RefreshChanged, PutFails,
     PutBin, PutJson, PutRegister, PutEvict, PutCopy, PutManifest, RefreshMark, Announce
<1>10. ASSUME NEW g \in Getters, GetStep(g), ~GetWarm(g), ~GetAgain(g) PROVE HotInv'
  BY <1>2, <1>10 DEF GetStep, GetLookup, GetRead, GetTouch, GetManifest, GetRefresh, GetFailed
<1>11. ASSUME NEW g \in Getters, NEW k \in Keys, GetMiss(g, k) PROVE HotInv'
  BY <1>2, <1>11 DEF GetMiss
<1>12. ASSUME UNCHANGED vars PROVE HotInv'
  BY <1>2, <1>12 DEF vars
<1> QED  BY <1>3, <1>4, <1>5, <1>6, <1>7, <1>8, <1>9, <1>10, <1>11, <1>12 DEF Next

\* The disk: Put, Get and Stats of the store, its evictions, and a restart.
LEMMA DiskStep ==
    ASSUME Inv, [Next]_vars
    PROVE  DiskInv'
<1>1. DiskInv /\ ProxyInv /\ DiskTypeOK /\ ManifestOK(manifest)
  BY DEF Inv, DiskInv
<1>2. ASSUME UNCHANGED diskVars PROVE DiskInv'
  BY <1>1, <1>2 DEF diskVars, DiskInv, DiskTypeOK, ManifestOK, Lists, Listed, Lengths
<1>3. ASSUME UNCHANGED index, manifest' \in Manifests, ManifestOK(manifest'),
             bin' \in [Keys -> Bodies \cup {None}], json' \in [Keys -> BOOLEAN]
      PROVE  DiskInv'
  BY <1>1, <1>3 DEF index, DiskInv, DiskTypeOK, ManifestOK, Lists, Listed, Lengths
<1>4. ASSUME NEW k \in Keys, PutBin(k) PROVE DiskInv'
  <2>1. ref[k].body \in Bodies
    BY <1>1, <1>4, RefFields DEF ProxyInv, PutBin, Storing
  <2>2. UNCHANGED index /\ manifest' = manifest /\ json' = json /\ bin' \in [Keys -> Bodies \cup {None}]
    BY <1>1, <1>4, <2>1 DEF PutBin, WriteBin, DiskTypeOK
  <2> QED  BY <1>1, <1>3, <2>2 DEF DiskTypeOK
<1>5. ASSUME NEW k \in Keys, PutJson(k) PROVE DiskInv'
  <2>1. UNCHANGED index /\ manifest' = manifest /\ bin' = bin /\ json' \in [Keys -> BOOLEAN]
    BY <1>1, <1>5 DEF PutJson, WriteJson, DiskTypeOK
  <2> QED  BY <1>1, <1>3, <2>1 DEF DiskTypeOK
<1>6. ASSUME NEW k \in Keys, PutRegister(k) PROVE DiskInv'
  <2>1. ref[k].body \in Bodies
    BY <1>1, <1>6, RefFields DEF ProxyInv, PutRegister, Storing
  <2>2. Register(k, ref[k].body)
    BY <1>6 DEF PutRegister
  <2> QED  BY <1>1, <2>1, <2>2, RegisterFacts
<1>7. ASSUME NEW k \in Keys, PutEvict(k) PROVE DiskInv'
  BY <1>1, <1>7, EvictFacts DEF PutEvict
<1>8. ASSUME NEW m, ManifestOK(m), WriteManifest(m) PROVE DiskInv'
  BY <1>1, <1>3, <1>8 DEF WriteManifest, ManifestOK, DiskTypeOK
<1>9. ASSUME NEW k \in Keys, PutManifest(k) PROVE DiskInv'
  BY <1>1, <1>8, <1>9, RefFields DEF ProxyInv, PutManifest
<1>10. ASSUME NEW g \in Getters, GetManifest(g) PROVE DiskInv'
  BY <1>1, <1>8, <1>10, GetFields DEF ProxyInv, GetManifest
<1>11. ASSUME NEW g \in Getters, GetTouch(g) PROVE DiskInv'
  <2>1. get[g].key \in Keys /\ get[g].ent # NoEntry
    <3>1. get[g].pc = "touch" /\ GetsOK(get)
      BY <1>1, <1>11 DEF GetTouch, ProxyInv
    <3> QED  BY <3>1, GetFields DEF Found
  <2>2. Touch(get[g].key, get[g].ent)
    BY <1>11 DEF GetTouch
  <2> QED  BY <1>1, <2>1, <2>2, TouchFacts
<1>12. ASSUME NEW k \in Keys, StatsGet(k) PROVE DiskInv'
  <2>1. entries[k] # NoEntry /\ recency' = Append(Without(recency, {k}), k)
        /\ manifest' = [entries |-> entries, recency |-> recency'] /\ UNCHANGED <<entries, bytes, bin, json>>
    BY <1>12 DEF StatsGet
  <2>2. recency \in Seq(Keys) /\ Lists(recency, entries) /\ entries \in [Keys -> Entries] /\ k \in Listed(entries)
    BY <1>1, <2>1 DEF DiskInv, DiskTypeOK, Listed
  <2>3. recency' \in Seq(Keys) /\ IsInjective(recency') /\ Range(recency') = Range(recency) \cup {k}
    BY <2>1, <2>2, MostRecent DEF Lists
  <2>4. Lists(recency', entries)
    BY <2>2, <2>3 DEF Lists
  <2>5. manifest' \in Manifests /\ manifest'.entries = entries /\ manifest'.recency = recency'
    BY <2>1, <2>2, <2>3 DEF Manifests
  <2>6. ManifestOK(manifest')
    BY <2>4, <2>5 DEF ManifestOK
  <2> QED  BY <1>1, <2>1, <2>3, <2>4, <2>5, <2>6 DEF DiskInv, DiskTypeOK, ManifestOK
<1>13. ASSUME Crash PROVE DiskInv'
  BY <1>1, <1>13, LoadFacts DEF Crash
<1>14. ASSUME NEW k \in Keys, Change(k) PROVE DiskInv'
  BY <1>2, <1>14 DEF Change
<1>15. ASSUME NEW k \in Keys, Refresh(k),
              ~(PutBin(k) \/ PutJson(k) \/ PutRegister(k) \/ PutEvict(k) \/ PutManifest(k))
       PROVE  DiskInv'
  BY <1>2, <1>15 DEF Refresh, Put, RefreshAsync, RefreshFails, RefreshUnchanged, RefreshChanged, PutFails,
     PutCopy, RefreshHot, RefreshMark, Announce
<1>16. ASSUME NEW g \in Getters, GetStep(g), ~GetTouch(g), ~GetManifest(g) PROVE DiskInv'
  BY <1>2, <1>16 DEF GetStep, GetLookup, GetRead, GetWarm, GetRefresh, GetFailed, GetAgain
<1>17. ASSUME NEW g \in Getters, NEW k \in Keys, GetMiss(g, k) \/ GetHit(g, k) PROVE DiskInv'
  BY <1>2, <1>17 DEF GetMiss, GetHit
<1>18. ASSUME UNCHANGED vars PROVE DiskInv'
  BY <1>2, <1>18 DEF vars
<1> QED  BY <1>4, <1>5, <1>6, <1>7, <1>9, <1>10, <1>11, <1>12, <1>13, <1>14, <1>15, <1>16, <1>17, <1>18 DEF Next

\* What a Get returns has its type.
LEMMA Answered ==
    ASSUME DataOK, NEW g \in Getters, NEW a \in Answers, answer' = [answer EXCEPT ![g] = a]
    PROVE  answer' \in [Getters -> Answers]
BY DEF DataOK

\* A Get that is served.
LEMMA Served ==
    ASSUME DataOK, NEW g \in Getters, NEW k \in Keys, NEW b \in Bodies, NEW t \in Bodies,
           NEW floor \in Versions, Serve(g, k, b, t, floor)
    PROVE  answer' \in [Getters -> Answers] /\ async' \in [Keys -> Nat]
<1>1. [key |-> k, body |-> b, tag |-> t, floor |-> floor, err |-> "none"] \in Answers
  BY DEF Answers, Versions
<1>2. answer' \in [Getters -> Answers]
  BY <1>1, Answered DEF Serve
<1>3. async' \in [Keys -> Nat]
  BY DEF Serve, DataOK
<1> QED  BY <1>2, <1>3

\* The versions, the answers and the counters.
LEMMA DataStep ==
    ASSUME Inv, [Next]_vars
    PROVE  DataOK'
<1> DEFINE StOK == st \in [Keys -> States]
<1>1. HotInv /\ DataOK /\ RefsOK(ref) /\ GetsOK(get)
  BY DEF Inv, ProxyInv
<1>2. /\ world \in [Keys -> Bodies] /\ st \in [Keys -> States] /\ async \in [Keys -> Nat]
      /\ poll \in [Keys -> {"timer", "refresh", "off"}]
      /\ answer \in [Getters -> Answers] /\ announced \in [Keys -> Versions]
      /\ raced \in [Keys -> BOOLEAN] /\ gets \in 0..MaxGets /\ crashes \in 0..MaxCrashes
      /\ MaxGets \in Nat /\ MaxCrashes \in Nat
  BY <1>1, ProxyAssumption DEF DataOK
<1>3. NoAnswer \in Answers /\ NoState \in States
  BY DEF NoAnswer, Answers, Versions, NoState, States
<1> HIDE DEF NoAnswer, NoState
<1>4. \A k \in Keys : world[k] \in Bodies /\ ETagOf(world[k]) \in Tagged \cup {None}
                      /\ ETagOf(ref[k].body) \in Tagged \cup {None}
  BY <1>2 DEF ETagOf
<1>5. ASSUME NEW k \in Keys, Reschedule(k) PROVE poll' \in [Keys -> {"timer", "refresh", "off"}]
  BY <1>2, <1>5 DEF Reschedule
<1>6. ASSUME NEW k \in Keys, Fail(k) PROVE st' \in [Keys -> States]
  <2>1. [st[k] EXCEPT !.failing = TRUE] \in States
    BY <1>2 DEF States
  <2>2. st' = [st EXCEPT ![k] = [st[k] EXCEPT !.failing = TRUE]]
    BY <1>6, <1>2 DEF Fail
  <2> QED  BY <1>2, <2>1, <2>2
<1>7. ASSUME NEW k \in Keys, Change(k) PROVE DataOK'
  <2>1. world[k] + 1 \in Bodies
    BY <1>2, <1>7, ImagesAssumption DEF Change, Bodies
  <2>2. world' \in [Keys -> Bodies]
    BY <1>2, <1>7, <2>1 DEF Change
  <2> QED  BY <1>2, <1>7, <2>2 DEF Change, proxyVars, DataOK
<1>8. ASSUME NEW k \in Keys, RefreshAsync(k) PROVE DataOK'
  <2>1. async' \in [Keys -> Nat] /\ poll' \in [Keys -> {"timer", "refresh", "off"}]
    BY <1>2, <1>8 DEF RefreshAsync
  <2> QED  BY <1>2, <1>8, <2>1 DEF RefreshAsync, DataOK
<1>9. ASSUME NEW k \in Keys, RefreshFails(k) \/ PutFails(k) PROVE DataOK'
  <2>1. poll' \in [Keys -> {"timer", "refresh", "off"}]
    BY <1>2, <1>5, <1>9 DEF RefreshFails, PutFails
  <2> QED  BY <1>2, <1>6, <1>9, <2>1 DEF RefreshFails, PutFails, DataOK
<1>10. ASSUME NEW k \in Keys, RefreshUnchanged(k) PROVE DataOK'
  <2>1. [st[k] EXCEPT !.etag = ETagOf(world[k]), !.failing = FALSE, !.ok = TRUE] \in States
    BY <1>2, <1>4, ZenonT(60) DEF States
  <2>2. st' \in [Keys -> States]
    BY <1>2, <1>10, <2>1 DEF RefreshUnchanged
  <2>3. poll' \in [Keys -> {"timer", "refresh", "off"}]
    BY <1>5, <1>10 DEF RefreshUnchanged
  <2> QED  BY <1>2, <1>10, <2>2, <2>3 DEF RefreshUnchanged, DataOK
<1>11. ASSUME NEW k \in Keys, RefreshMark(k) PROVE DataOK'
  <2>1. ref[k].body \in Versions
    BY <1>1, RefFields
  <2>2. [etag |-> ETagOf(ref[k].body), hash |-> ref[k].body, failing |-> FALSE, ok |-> TRUE] \in States
    BY <1>4, <2>1 DEF States
  <2>3. st' \in [Keys -> States]
    BY <1>2, <1>11, <2>2 DEF RefreshMark
  <2> QED  BY <1>2, <1>11, <2>3 DEF RefreshMark, DataOK
<1>12. ASSUME NEW k \in Keys, RefreshHot(k) PROVE DataOK'
  <2>1. raced' \in [Keys -> BOOLEAN]
    <3>1. (raced[k] \/ Holding(k)) \in BOOLEAN
      OBVIOUS
    <3>2. raced' = [raced EXCEPT ![k] = raced[k] \/ Holding(k)]
      BY <1>2, <1>12 DEF RefreshHot
    <3> QED  BY <1>2, <3>1, <3>2
  <2> QED  BY <1>2, <1>12, <2>1 DEF RefreshHot, DataOK
<1>13. ASSUME NEW k \in Keys, Announce(k) PROVE DataOK'
  <2>1. ref[k].body \in Versions
    BY <1>1, RefFields
  <2>2. announced' \in [Keys -> Versions]
    BY <1>2, <1>13, <2>1 DEF Announce
  <2>3. poll' \in [Keys -> {"timer", "refresh", "off"}]
    BY <1>5, <1>13 DEF Announce
  <2> QED  BY <1>2, <1>13, <2>2, <2>3 DEF Announce, DataOK
<1>14. ASSUME NEW g \in Getters, NEW k \in Keys, GetHit(g, k) PROVE DataOK'
  <2>1. HotEntry(k).body \in Bodies /\ HotEntry(k).tag \in Bodies
    BY <1>1, <1>14, HotTouchFacts DEF GetHit, HotEntries
  <2>2. Serve(g, k, HotEntry(k).body, HotEntry(k).tag, announced[k]) /\ announced[k] \in Versions
    BY <1>2, <1>14 DEF GetHit
  <2>3. answer' \in [Getters -> Answers] /\ async' \in [Keys -> Nat]
    BY <1>1, <2>1, <2>2, Served
  <2>4. gets' \in 0..MaxGets
    BY <1>2, <1>14 DEF GetHit
  <2> QED  BY <1>2, <1>14, <2>3, <2>4 DEF GetHit, DataOK
<1>15. ASSUME NEW g \in Getters, NEW k \in Keys, GetMiss(g, k) PROVE DataOK'
  <2>1. gets' \in 0..MaxGets /\ answer' \in [Getters -> Answers]
    BY <1>2, <1>3, <1>15 DEF GetMiss
  <2> QED  BY <1>2, <1>15, <2>1 DEF GetMiss, DataOK
<1>16. ASSUME NEW g \in Getters, GetWarm(g) PROVE DataOK'
  <2>1. get[g].key \in Keys /\ get[g].body \in Bodies /\ get[g].ent.tag \in Bodies /\ get[g].floor \in Versions
    <3>1. get[g].pc = "warm"
      BY <1>16 DEF GetWarm
    <3> QED  BY <1>1, <3>1, GetFields DEF Found, Held
  <2>2. Serve(g, get[g].key, get[g].body, get[g].ent.tag, get[g].floor)
    BY <1>16 DEF GetWarm
  <2>3. answer' \in [Getters -> Answers] /\ async' \in [Keys -> Nat]
    BY <1>1, <2>1, <2>2, Served
  <2> QED  BY <1>2, <1>16, <2>3 DEF GetWarm, DataOK
<1>17. ASSUME NEW g \in Getters, NEW err \in {"upstream", "empty"}, Answer502(g, err)
       PROVE  answer' \in [Getters -> Answers]
  <2>1. get[g].key \in Keys \cup {"none"}
    BY <1>1, GetFields
  <2>2. [NoAnswer EXCEPT !.key = get[g].key, !.err = err] \in Answers
    BY <2>1 DEF NoAnswer, Answers, Versions
  <2> QED  BY <1>1, <1>17, <2>2, Answered DEF Answer502
<1>18. ASSUME NEW g \in Getters, GetFailed(g) PROVE DataOK'
  <2>1. answer' \in [Getters -> Answers]
    BY <1>17, <1>18 DEF GetFailed
  <2> QED  BY <1>2, <1>18, <2>1 DEF GetFailed, DataOK
<1>19. ASSUME NEW g \in Getters, GetAgain(g) PROVE DataOK'
  <2>1. get[g].key \in Keys /\ get[g].floor \in Versions
    <3>1. get[g].pc = "again"
      BY <1>19 DEF GetAgain
    <3> QED  BY <1>1, <3>1, GetFields
  <2>2. ASSUME HotHas(get[g].key) PROVE answer' \in [Getters -> Answers]
    <3> DEFINE k == get[g].key
               a == [key |-> k, body |-> HotEntry(k).body, tag |-> HotEntry(k).tag,
                     floor |-> get[g].floor, err |-> "none"]
    <3>1. HotTouch(k) /\ answer' = [answer EXCEPT ![g] = a]
      BY <1>19, <2>2 DEF GetAgain
    <3>2. HotEntry(k).body \in Bodies /\ HotEntry(k).tag \in Bodies
      BY <1>1, <2>1, <2>2, <3>1, HotTouchFacts DEF HotEntries
    <3>3. a \in Answers
      BY <2>1, <3>2 DEF Answers, Versions
    <3> HIDE DEF a
    <3> QED  BY <1>1, <3>1, <3>3, Answered
  <2>3. ASSUME ~HotHas(get[g].key) PROVE answer' \in [Getters -> Answers]
    BY <1>17, <1>19, <2>3 DEF GetAgain
  <2>4. answer' \in [Getters -> Answers]
    BY <2>2, <2>3
  <2> QED  BY <1>2, <1>19, <2>4 DEF GetAgain, DataOK
<1>20. ASSUME Crash PROVE DataOK'
  <2>1. crashes' \in 0..MaxCrashes
    BY <1>2, <1>20 DEF Crash
  <2>2. st' \in [Keys -> States] /\ async' \in [Keys -> Nat] /\ answer' \in [Getters -> Answers]
    BY <1>3, <1>20 DEF Crash
  <2>3. poll' \in [Keys -> {"timer", "refresh", "off"}]
    BY <1>20 DEF Crash, Pollers
  <2> QED  BY <1>2, <1>20, <2>1, <2>2, <2>3 DEF Crash, DataOK
<1>21. ASSUME NEW k \in Keys,
              RefreshChanged(k) \/ PutBin(k) \/ PutJson(k) \/ PutRegister(k) \/ PutEvict(k) \/ PutCopy(k)
              \/ PutManifest(k) \/ StatsGet(k)
       PROVE  DataOK'
  BY <1>2, <1>21 DEF RefreshChanged, PutBin, PutJson, PutRegister, PutEvict, PutCopy, PutManifest, StatsGet,
     proxyVars, DataOK
<1>22. ASSUME NEW g \in Getters,
              GetLookup(g) \/ GetRead(g) \/ GetTouch(g) \/ GetManifest(g) \/ GetRefresh(g)
       PROVE  DataOK'
  BY <1>2, <1>22 DEF GetLookup, GetRead, GetTouch, GetManifest, GetRefresh, DataOK
<1>23. ASSUME UNCHANGED vars PROVE DataOK'
  BY <1>2, <1>23 DEF vars, proxyVars, DataOK
<1> QED
  BY <1>7, <1>8, <1>9, <1>10, <1>11, <1>12, <1>13, <1>14, <1>15, <1>16, <1>18, <1>19, <1>20, <1>21, <1>22, <1>23
  DEF Next, Refresh, Put, GetStep

\* A step of a Get that waits for no Refresh.
LEMMA GetMoves ==
    ASSUME ProxyInv, NEW g \in Getters, get[g].pc # "wait", ref' = ref,
           NEW c, GetOK(c), get' = [get EXCEPT ![g] = c]
    PROVE  RefsOK(ref') /\ GetsOK(get') /\ Waits(ref', get')
<1>1. RefsOK(ref) /\ GetsOK(get) /\ Waits(ref, get)
  BY DEF ProxyInv
<1>2. GetsOK(get') /\ \A j \in Getters : j # g => get'[j] = get[j]
  BY <1>1, GetTo
<1>3. \A k \in Keys : ref[k].by # "none" => ref[k].by \in Getters /\ ref[k].by # g
  <2> TAKE k \in Keys
  <2>1. ref[k].by \in Getters \cup {"none"}
    BY <1>1, RefFields
  <2> QED  BY <1>1, <2>1 DEF Waits
<1>4. Waits(ref', get')
  BY <1>1, <1>2, <1>3 DEF Waits
<1> QED  BY <1>1, <1>2, <1>4

\* Where a Refresh and a Get can be: their manifests, bodies and keys, and the
\* Get that waits for a Refresh.
LEMMA ProcStep ==
    ASSUME Inv, [Next]_vars
    PROVE  RefsOK(ref') /\ GetsOK(get') /\ Waits(ref', get')
<1> DEFINE Goal == RefsOK(ref') /\ GetsOK(get') /\ Waits(ref', get')
<1>1. ProxyInv /\ RefsOK(ref) /\ GetsOK(get) /\ Waits(ref, get) /\ DataOK /\ DiskInv
  BY DEF Inv, ProxyInv
<1>2. ASSUME UNCHANGED <<ref, get>> PROVE Goal
  BY <1>1, <1>2
<1>3. ASSUME RefsOK(ref'), get' = get, \A j \in Keys : ref'[j].by = ref[j].by PROVE Goal
  BY <1>1, <1>3 DEF Waits
<1>4. ASSUME NEW k \in Keys, RefreshAsync(k) PROVE Goal
  <2>1. RefPc(k, "sent") /\ get' = get
    BY <1>4 DEF RefreshAsync
  <2>2. RefsOK(ref') /\ \A j \in Keys : ref'[j].by = ref[j].by
    BY <1>1, <2>1, RefMoves DEF RefPcs, Storing
  <2> QED  BY <1>3, <2>1, <2>2
<1>5. ASSUME NEW k \in Keys, RefreshFails(k) \/ RefreshUnchanged(k) \/ PutFails(k) \/ Announce(k) PROVE Goal
  <2>1. \E err \in BOOLEAN : Return(k, err)
    BY <1>5 DEF RefreshFails, RefreshUnchanged, PutFails, Announce
  <2> QED  BY <1>1, <2>1, Returns
<1>6. ASSUME NEW k \in Keys, RefreshChanged(k) PROVE Goal
  <2> DEFINE r == [ref[k] EXCEPT !.pc = "bin", !.body = world[k]]
  <2>2. ref' = [ref EXCEPT ![k] = r] /\ get' = get
    BY <1>1, <1>6 DEF RefreshChanged, RefsOK
  <2>3. world[k] \in Bodies
    BY <1>1 DEF DataOK
  <2>4. RefOK(ref[k])
    BY <1>1 DEF RefsOK
  <2>5. r.pc = "bin" /\ r.body = world[k] /\ r.man = ref[k].man /\ r.by = ref[k].by
        /\ r \in [pc : RefPcs, by : Getters \cup {"none"}, body : Versions, man : Manifests]
    BY <2>3, <2>4 DEF RefOK, RefPcs, Versions
  <2> HIDE DEF r
  <2>6. RefOK(r)
    BY <2>3, <2>4, <2>5 DEF RefOK
  <2>7. RefsOK(ref') /\ \A j \in Keys : ref'[j].by = ref[j].by
    <3>1. RefsOK(ref') /\ ref'[k] = r /\ \A j \in Keys : j # k => ref'[j] = ref[j]
      BY <1>1, <2>2, <2>5, <2>6, RefTo
    <3> QED  BY <2>5, <3>1
  <2> QED  BY <1>3, <2>2, <2>7
<1>7. ASSUME NEW k \in Keys, NEW pc \in Storing, ref[k].pc \in Storing, RefPc(k, pc), get' = get PROVE Goal
  <2>1. pc \in RefPcs /\ ref[k].body \in Bodies
    BY <1>1, <1>7, RefFields DEF Storing, RefPcs
  <2>2. RefsOK(ref') /\ \A j \in Keys : ref'[j].by = ref[j].by
    BY <1>1, <1>7, <2>1, RefMoves
  <2> QED  BY <1>3, <1>7, <2>2
<1>8. ASSUME NEW k \in Keys, PutBin(k) \/ PutJson(k) \/ PutRegister(k) \/ PutEvict(k) \/ RefreshHot(k)
                             \/ RefreshMark(k)
      PROVE  Goal
  <2>1. \E pc \in Storing : ref[k].pc \in Storing /\ RefPc(k, pc) /\ get' = get
    BY <1>8 DEF PutBin, PutJson, PutRegister, PutEvict, RefreshHot, RefreshMark, Storing
  <2> QED  BY <1>7, <2>1
<1>9. ASSUME NEW k \in Keys, NEW pc \in {"manifest", "hot"}, NEW m, ManifestOK(m), ref[k].pc \in Storing,
             ref' = [ref EXCEPT ![k].pc = pc, ![k].man = m], get' = get
      PROVE  Goal
  <2> DEFINE r == [ref[k] EXCEPT !.pc = pc, !.man = m]
  <2>2. ref' = [ref EXCEPT ![k] = r]
    BY <1>1, <1>9 DEF RefsOK
  <2>3. RefOK(ref[k])
    BY <1>1 DEF RefsOK
  <2>4. r.pc = pc /\ r.body = ref[k].body /\ r.man = m /\ r.by = ref[k].by
        /\ r \in [pc : RefPcs, by : Getters \cup {"none"}, body : Versions, man : Manifests]
    BY <1>9, <2>3 DEF RefOK, RefPcs, ManifestOK
  <2> HIDE DEF r
  <2>5. RefOK(r)
    BY <1>9, <2>3, <2>4 DEF RefOK
  <2>6. RefsOK(ref') /\ \A j \in Keys : ref'[j].by = ref[j].by
    <3>1. RefsOK(ref') /\ ref'[k] = r /\ \A j \in Keys : j # k => ref'[j] = ref[j]
      BY <1>1, <2>2, <2>4, <2>5, RefTo
    <3> QED  BY <2>4, <3>1
  <2> QED  BY <1>3, <1>9, <2>6
<1>10. ASSUME NEW k \in Keys, PutCopy(k) \/ PutManifest(k) PROVE Goal
  <2>1. ManifestOK(Snapshot) /\ ManifestOK(NoManifest)
    BY <1>1, ManifestsOK
  <2> QED  BY <1>9, <1>10, <2>1 DEF PutCopy, PutManifest, Storing
<1>11. ASSUME NEW g \in Getters, get[g].pc # "wait", ref' = ref, NEW c, GetOK(c), get' = [get EXCEPT ![g] = c]
       PROVE  Goal
  BY <1>1, <1>11, GetMoves
<1>12. GetOK(IdleGet)
  <2>1. GetsOK([g \in Getters |-> IdleGet])
    BY NoProcess
  <2> QED
    BY ManifestsOK DEF GetOK, IdleGet, GetPcs, Versions, Entries, Found, Held, ManifestOK
<1>13. ASSUME NEW g \in Getters, GetWarm(g) \/ GetFailed(g) \/ GetAgain(g) \/ \E k \in Keys : GetHit(g, k)
       PROVE  Goal
  <2>1. get[g].pc # "wait" /\ ref' = ref /\ get' = [get EXCEPT ![g] = IdleGet]
    BY <1>13 DEF GetWarm, GetFailed, GetAgain, GetHit, Serve, Answer502
  <2> QED  BY <1>11, <1>12, <2>1
<1>14. ASSUME NEW g \in Getters, NEW k \in Keys, GetMiss(g, k) PROVE Goal
  <2> DEFINE c == [IdleGet EXCEPT !.pc = "lookup", !.key = k, !.floor = announced[k]]
  <2>1. get[g].pc # "wait" /\ ref' = ref /\ get' = [get EXCEPT ![g] = c]
    BY <1>14 DEF GetMiss
  <2>2. announced[k] \in Versions
    BY <1>1 DEF DataOK
  <2>3. GetOK(c)
    <3>1. c.pc = "lookup" /\ c.key = k /\ c.man = IdleGet.man
          /\ c \in [pc : GetPcs, key : Keys \cup {"none"}, ent : Entries, body : Versions,
                    man : Manifests, floor : Versions]
      BY <1>12, <2>2 DEF GetOK, IdleGet, GetPcs
    <3> HIDE DEF c
    <3> QED  BY <1>12, <3>1 DEF GetOK, Found, Held
  <2> HIDE DEF c
  <2> QED  BY <1>11, <2>1, <2>3
<1>15. \A g \in Getters : GetOK(get[g])
  BY <1>1 DEF GetsOK
<1>16. ASSUME NEW g \in Getters, GetLookup(g) PROVE Goal
  <2> DEFINE e == entries[get[g].key]
             c == [get[g] EXCEPT !.pc = IF e = NoEntry THEN "refresh" ELSE "read", !.ent = e]
  <2>1. get[g].pc = "lookup" /\ ref' = ref /\ get' = [get EXCEPT ![g] = c]
    BY <1>1, <1>16 DEF GetLookup, GetsOK
  <2>2. get[g].key \in Keys
    BY <1>15, <2>1 DEF GetOK
  <2>3. e \in Entries
    BY <1>1, <2>2 DEF DiskInv, DiskTypeOK
  <2>4. GetOK(c)
    <3> HIDE DEF NoEntry, e
    <3>1. c.pc \in {"refresh", "read"} /\ (c.pc = "read" => c.ent # NoEntry) /\ c.key = get[g].key /\ c.man = get[g].man
          /\ c \in [pc : GetPcs, key : Keys \cup {"none"}, ent : Entries, body : Versions,
                    man : Manifests, floor : Versions]
      BY <1>15, <2>3 DEF GetOK, GetPcs
    <3> HIDE DEF c
    <3> QED  BY <1>15, <2>2, <3>1 DEF GetOK, Found, Held
  <2> HIDE DEF c
  <2> QED  BY <1>11, <2>1, <2>4
<1>17. ASSUME NEW g \in Getters, GetRead(g) PROVE Goal
  <2> DEFINE b == bin[get[g].key]
             none == [get[g] EXCEPT !.pc = "refresh", !.ent = NoEntry]
             c == [get[g] EXCEPT !.pc = "touch", !.body = b]
  <2>1. get[g].pc = "read" /\ ref' = ref /\ get' = [get EXCEPT ![g] = IF b = None THEN none ELSE c]
    BY <1>1, <1>17 DEF GetRead, GetsOK
  <2>2. get[g].key \in Keys /\ get[g].ent # NoEntry
    BY <1>15, <2>1 DEF GetOK, Found
  <2>3. b \in Bodies \cup {None} /\ NoEntry \in Entries
    BY <1>1, <2>2 DEF DiskInv, DiskTypeOK, Entries
  <2>4. GetOK(none)
    <3> HIDE DEF NoEntry, b
    <3>1. none.pc = "refresh" /\ none.key = get[g].key /\ none.man = get[g].man
          /\ none \in [pc : GetPcs, key : Keys \cup {"none"}, ent : Entries, body : Versions,
                       man : Manifests, floor : Versions]
      BY <1>15, <2>3 DEF GetOK, GetPcs
    <3> HIDE DEF none
    <3> QED  BY <1>15, <2>2, <3>1 DEF GetOK, Found, Held
  <2>5. ASSUME b # None PROVE GetOK(c)
    <3> HIDE DEF NoEntry, b
    <3>1. c.pc = "touch" /\ c.key = get[g].key /\ c.man = get[g].man /\ c.ent = get[g].ent /\ c.body \in Bodies
          /\ c \in [pc : GetPcs, key : Keys \cup {"none"}, ent : Entries, body : Versions,
                    man : Manifests, floor : Versions]
      BY <1>15, <2>3, <2>5 DEF GetOK, GetPcs, Versions
    <3> HIDE DEF c
    <3> QED  BY <1>15, <2>2, <3>1 DEF GetOK, Found, Held
  <2> HIDE DEF c, none, b
  <2>6. GetOK(IF b = None THEN none ELSE c)
    BY <2>4, <2>5
  <2> QED  BY <1>11, <2>1, <2>6
<1>18. ASSUME NEW g \in Getters, NEW pc \in {"manifest", "warm"}, NEW m, ManifestOK(m), get[g].pc \in Held,
              ref' = ref, get' = [get EXCEPT ![g].pc = pc, ![g].man = m]
       PROVE  Goal
  <2> DEFINE c == [get[g] EXCEPT !.pc = pc, !.man = m]
  <2>1. get[g].pc # "wait" /\ ref' = ref /\ get' = [get EXCEPT ![g] = c]
    BY <1>1, <1>18 DEF GetsOK, Held, Found
  <2>2. get[g].key \in Keys /\ get[g].ent # NoEntry /\ get[g].body \in Bodies
    BY <1>15, <1>18 DEF GetOK, Found, Held
  <2>3. GetOK(c)
    <3> HIDE DEF NoEntry
    <3>1. c.pc = pc /\ c.key = get[g].key /\ c.man = m /\ c.ent = get[g].ent /\ c.body = get[g].body
          /\ c \in [pc : GetPcs, key : Keys \cup {"none"}, ent : Entries, body : Versions,
                    man : Manifests, floor : Versions]
      BY <1>15, <1>18 DEF GetOK, GetPcs, ManifestOK
    <3> HIDE DEF c
    <3> QED  BY <1>15, <1>18, <2>2, <3>1 DEF GetOK, Found, Held
  <2> HIDE DEF c
  <2> QED  BY <1>11, <2>1, <2>3
<1>19. ASSUME NEW g \in Getters, GetTouch(g) PROVE Goal
  <2>1. get[g].pc = "touch" /\ Touch(get[g].key, get[g].ent) /\ ref' = ref
        /\ get' = [get EXCEPT ![g].pc = "manifest", ![g].man = [entries |-> entries, recency |-> recency']]
    BY <1>19 DEF GetTouch
  <2>2. get[g].key \in Keys /\ get[g].ent # NoEntry
    BY <1>15, <2>1 DEF GetOK, Found
  <2>3. ManifestOK([entries |-> entries, recency |-> recency'])
    BY <1>1, <2>1, <2>2, TouchFacts
  <2> QED  BY <1>18, <2>1, <2>3 DEF Held, Found
<1>20. ASSUME NEW g \in Getters, GetManifest(g) PROVE Goal
  <2>1. ManifestOK(NoManifest)
    BY ManifestsOK
  <2> QED  BY <1>18, <1>20, <2>1 DEF GetManifest, Held, Found
<1>21. ASSUME NEW g \in Getters, GetRefresh(g) PROVE Goal
  <2> DEFINE k == get[g].key
             c == [get[g] EXCEPT !.pc = "wait"]
             r == [ref[k] EXCEPT !.pc = "sent", !.by = g]
  <2>1. get[g].pc = "refresh" /\ ref[k].pc = "idle" /\ get' = [get EXCEPT ![g] = c]
        /\ ref' = [ref EXCEPT ![k] = r]
    BY <1>1, <1>21 DEF GetRefresh, GetPc, GetsOK, RefsOK
  <2>2. k \in Keys
    BY <1>15, <2>1 DEF GetOK
  <2>3. GetOK(c) /\ c.pc = "wait" /\ c.key = k
    <3>1. c.pc = "wait" /\ c.key = get[g].key /\ c.man = get[g].man
          /\ c \in [pc : GetPcs, key : Keys \cup {"none"}, ent : Entries, body : Versions,
                    man : Manifests, floor : Versions]
      BY <1>15 DEF GetOK, GetPcs
    <3> HIDE DEF c
    <3> QED  BY <1>15, <2>2, <3>1 DEF GetOK, Found, Held
  <2>4. RefOK(r) /\ r.by = g
    <3>1. RefOK(ref[k])
      BY <1>1, <2>2 DEF RefsOK
    <3>2. r.pc = "sent" /\ r.by = g /\ r.man = ref[k].man
          /\ r \in [pc : RefPcs, by : Getters \cup {"none"}, body : Versions, man : Manifests]
      BY <3>1 DEF RefOK, RefPcs
    <3> HIDE DEF r
    <3> QED  BY <3>1, <3>2 DEF RefOK, Storing
  <2> HIDE DEF c, r, k
  <2>5. GetsOK(get') /\ get'[g] = c /\ \A j \in Getters : j # g => get'[j] = get[j]
    BY <1>1, <2>1, <2>3, GetTo
  <2>6. RefsOK(ref') /\ ref'[k] = r /\ \A j \in Keys : j # k => ref'[j] = ref[j]
    BY <1>1, <2>1, <2>2, <2>4, RefTo
  <2>7. \A j \in Keys : ref[j].by # "none" => ref[j].by \in Getters /\ ref[j].by # g
    BY <1>1, <2>1, RefFields DEF Waits
  <2>8. Waits(ref', get')
    BY <1>1, <2>3, <2>4, <2>5, <2>6, <2>7 DEF Waits
  <2> QED  BY <2>5, <2>6, <2>8
<1>22. ASSUME Crash PROVE Goal
  BY <1>22, NoProcess DEF Crash
<1>23. ASSUME NEW k \in Keys, Change(k) \/ StatsGet(k) PROVE Goal
  BY <1>2, <1>23 DEF Change, StatsGet, proxyVars
<1>24. ASSUME UNCHANGED vars PROVE Goal
  BY <1>2, <1>24 DEF vars, proxyVars
<1> QED
  BY <1>4, <1>5, <1>6, <1>8, <1>10, <1>13, <1>14, <1>16, <1>17, <1>19, <1>20, <1>21, <1>22, <1>23, <1>24
  DEF Next, Refresh, Put, GetStep

\* No interleaving of Gets, Refreshes, pollers and crashes breaks the accounting of
\* the tiers or the shape of the state.
LEMMA InvStep == Inv /\ [Next]_vars => Inv'
BY HotStep, DiskStep, DataStep, ProcStep DEF Inv, ProxyInv

\* The types of a state are part of the invariant.
LEMMA InvTyped == Inv => TypeOK
<1> SUFFICES ASSUME Inv PROVE TypeOK
  OBVIOUS
<1>1. HotTypeOK /\ DiskTypeOK /\ DataOK /\ RefsOK(ref) /\ GetsOK(get)
  BY DEF Inv, HotInv, DiskInv, ProxyInv
<1>2. ref \in [Keys -> [pc : RefPcs, by : Getters \cup {"none"}, body : Versions, man : Manifests]]
  BY <1>1 DEF RefsOK, RefOK
<1>3. get \in [Getters -> [pc : GetPcs, key : Keys \cup {"none"}, ent : Entries, body : Versions,
                           man : Manifests, floor : Versions]]
  BY <1>1 DEF GetsOK, GetOK
<1> QED  BY <1>1, <1>2, <1>3 DEF TypeOK, DataOK, States, Answers

\* Every state of the proxy has its type: among others no Put, copy or eviction
\* leaves an entry, a manifest or an answer of another shape.
THEOREM ProxyTypeCorrect == Spec => []TypeOK
<1>1. Init => Inv
  BY InitInv
<1>2. Inv /\ [Next]_vars => Inv'
  BY InvStep
<1>3. Inv => TypeOK
  BY InvTyped
<1> QED  BY <1>1, <1>2, <1>3, PTL DEF Spec

\* The accounting of both tiers is exact, for any keys, sizes, caps and number of
\* Gets and crashes: the hot tier's byte count is that of its images, both its caps
\* hold and it lists a key once; the disk's count is the sum of its entries' lengths
\* and its recency order lists each entry once, so evictions free what they say.
THEOREM Tiers == Spec => []TiersExact
<1>1. Init => Inv
  BY InitInv
<1>2. Inv /\ [Next]_vars => Inv'
  BY InvStep
<1>3. Inv => TiersExact
  BY DiskExact DEF Inv, HotInv, TiersExact
<1> QED  BY <1>1, <1>2, <1>3, PTL DEF Spec

---------------------------------------------------------------------------
(* Announcements.                                                          *)

\* Until a crash the hash a Refresh compares with is that of the last announcement,
\* but between markSuccess and onInvalidate.
LEMMA HashStep ==
    ASSUME Inv, HashInv, [Next]_vars
    PROVE  HashInv'
<1>1. RefsOK(ref) /\ GetsOK(get) /\ DataOK /\ ProxyInv
  BY DEF Inv, ProxyInv
<1>2. SUFFICES ASSUME crashes' = 0, NEW j \in Keys PROVE HashOf(j)'
  BY DEF HashInv
<1>3. ~Crash
  BY <1>1, <1>2 DEF Crash, DataOK
<1>4. crashes = 0
  <2>1. ASSUME NEW k \in Keys, Change(k) \/ StatsGet(k) PROVE crashes' = crashes
    BY <2>1 DEF Change, StatsGet
  <2>2. ASSUME NEW k \in Keys, Refresh(k) PROVE crashes' = crashes
    BY <2>2 DEF Refresh, Put, RefreshAsync, RefreshFails, RefreshUnchanged, RefreshChanged, PutFails, PutBin,
       PutJson, PutRegister, PutEvict, PutCopy, PutManifest, RefreshHot, RefreshMark, Announce
  <2>3. ASSUME NEW g \in Getters, GetStep(g) PROVE crashes' = crashes
    BY <2>3 DEF GetStep, GetLookup, GetRead, GetTouch, GetManifest, GetWarm, GetRefresh, GetFailed, GetAgain
  <2>4. ASSUME NEW g \in Getters, NEW k \in Keys, GetHit(g, k) \/ GetMiss(g, k) PROVE crashes' = crashes
    BY <2>4 DEF GetHit, GetMiss
  <2>5. ASSUME UNCHANGED vars PROVE crashes' = crashes
    BY <2>5 DEF vars
  <2>6. crashes' = crashes
    BY <1>3, <2>1, <2>2, <2>3, <2>4, <2>5 DEF Next
  <2> QED  BY <1>2, <2>6
<1>5. HashOf(j)
  BY <1>4 DEF HashInv
<1>6. ASSUME ref'[j].pc = ref[j].pc, ref'[j].body = ref[j].body, st'[j].hash = st[j].hash,
             announced'[j] = announced[j]
      PROVE  HashOf(j)'
  BY <1>5, <1>6 DEF HashOf
<1>7. ASSUME UNCHANGED <<ref, st, announced>> PROVE HashOf(j)'
  BY <1>6, <1>7
<1>8. ASSUME NEW k \in Keys, RefreshAsync(k) PROVE HashOf(j)'
  <2>1. ref[k].pc = "idle" /\ RefPc(k, "sent") /\ UNCHANGED <<st, announced>>
    BY <1>8 DEF RefreshAsync
  <2>2. ref'[k].pc = "sent" /\ \A i \in Keys : i # k => ref'[i] = ref[i]
    BY <1>1, <2>1, RefMoves DEF RefPcs, Storing
  <2>3. CASE j = k
    BY <1>5, <2>1, <2>2, <2>3 DEF HashOf, Storing
  <2>4. CASE j # k
    BY <1>6, <2>1, <2>2, <2>4
  <2> QED  BY <2>3, <2>4
<1>9. ASSUME NEW k \in Keys, NEW err \in BOOLEAN, Return(k, err), ref[k].pc # "announce",
             st'[k].hash = st[k].hash, \A i \in Keys : i # k => st'[i] = st[i], announced' = announced
      PROVE  HashOf(j)'
  <2>1. ref'[k] = IdleRef /\ \A i \in Keys : i # k => ref'[i] = ref[i]
    BY <1>1, <1>9, Returns
  <2>2. CASE j = k
    <3>1. ref'[j].pc = "idle"
      BY <2>1, <2>2 DEF IdleRef
    <3> QED  BY <1>5, <1>9, <2>2, <3>1 DEF HashOf, Storing
  <2>3. CASE j # k
    BY <1>6, <1>9, <2>1, <2>3
  <2> QED  BY <2>2, <2>3
<1>10. ASSUME NEW k \in Keys, RefreshFails(k) \/ PutFails(k) \/ RefreshUnchanged(k) PROVE HashOf(j)'
  <2>1. ref[k].pc # "announce" /\ announced' = announced /\ \E err \in BOOLEAN : Return(k, err)
    BY <1>10 DEF RefreshFails, PutFails, RefreshUnchanged
  <2>2. st \in [Keys -> States]
    BY <1>1 DEF DataOK
  <2>3. st'[k].hash = st[k].hash /\ \A i \in Keys : i # k => st'[i] = st[i]
    BY <1>10, <2>2 DEF RefreshFails, PutFails, RefreshUnchanged, Fail, States
  <2> QED  BY <1>9, <2>1, <2>3
<1>11. ASSUME NEW k \in Keys, RefreshChanged(k) PROVE HashOf(j)'
  <2>1. ref[k].pc = "sent" /\ st[k].hash # world[k] /\ UNCHANGED <<st, announced>>
        /\ ref'[k].pc = "bin" /\ ref'[k].body = world[k] /\ \A i \in Keys : i # k => ref'[i] = ref[i]
    BY <1>1, <1>11 DEF RefreshChanged, RefsOK, RefOK
  <2>2. CASE j = k
    BY <1>5, <2>1, <2>2 DEF HashOf, Storing
  <2>3. CASE j # k
    BY <1>6, <2>1, <2>3
  <2> QED  BY <2>2, <2>3
<1>12. ASSUME NEW k \in Keys, ref'[k].pc \in Storing \ {"announce"}, ref[k].pc \in Storing \ {"announce"},
              ref'[k].body = ref[k].body, \A i \in Keys : i # k => ref'[i] = ref[i], UNCHANGED <<st, announced>>
       PROVE  HashOf(j)'
  <2>1. CASE j = k
    BY <1>5, <1>12, <2>1 DEF HashOf
  <2>2. CASE j # k
    BY <1>6, <1>12, <2>2
  <2> QED  BY <2>1, <2>2
<1>13. ASSUME NEW k \in Keys, PutBin(k) \/ PutJson(k) \/ PutRegister(k) \/ PutEvict(k) \/ PutCopy(k)
                              \/ PutManifest(k) \/ RefreshHot(k)
       PROVE  HashOf(j)'
  <2>1. UNCHANGED <<st, announced>> /\ ref[k].pc \in Storing \ {"announce"}
    BY <1>13 DEF PutBin, PutJson, PutRegister, PutEvict, PutCopy, PutManifest, RefreshHot, Storing
  <2>2. ref'[k].pc \in Storing \ {"announce"} /\ ref'[k].body = ref[k].body
        /\ \A i \in Keys : i # k => ref'[i] = ref[i]
    BY <1>1, <1>13 DEF RefPc, RefsOK, RefOK, PutBin, PutJson, PutRegister, PutEvict, PutCopy, PutManifest,
       RefreshHot, Storing
  <2> QED  BY <1>12, <2>1, <2>2
<1>14. ASSUME NEW k \in Keys, RefreshMark(k) PROVE HashOf(j)'
  <2>1. ref[k].pc = "mark" /\ RefPc(k, "announce") /\ announced' = announced
    BY <1>14 DEF RefreshMark
  <2>2. ref'[k].pc = "announce" /\ ref'[k].body = ref[k].body /\ \A i \in Keys : i # k => ref'[i] = ref[i]
    BY <1>1, <2>1, RefMoves, RefFields DEF RefPcs, Storing
  <2>3. st'[k].hash = ref[k].body /\ \A i \in Keys : i # k => st'[i] = st[i]
    BY <1>1, <1>14 DEF RefreshMark, DataOK
  <2>4. CASE j = k
    BY <1>5, <2>1, <2>2, <2>3, <2>4 DEF HashOf, Storing
  <2>5. CASE j # k
    BY <1>6, <2>1, <2>2, <2>3, <2>5
  <2> QED  BY <2>4, <2>5
<1>15. ASSUME NEW k \in Keys, Announce(k) PROVE HashOf(j)'
  <2>1. ref[k].pc = "announce" /\ Return(k, FALSE) /\ st' = st
    BY <1>15 DEF Announce
  <2>2. announced'[k] = ref[k].body /\ \A i \in Keys : i # k => announced'[i] = announced[i]
    BY <1>1, <1>15 DEF Announce, DataOK
  <2>3. ref'[k] = IdleRef /\ \A i \in Keys : i # k => ref'[i] = ref[i]
    BY <1>1, <2>1, Returns
  <2>4. CASE j = k
    <3>1. ref'[j].pc = "idle"
      BY <2>3, <2>4 DEF IdleRef
    <3> QED  BY <1>5, <2>1, <2>2, <2>4, <3>1 DEF HashOf, Storing
  <2>5. CASE j # k
    BY <1>6, <2>1, <2>2, <2>3, <2>5
  <2> QED  BY <2>4, <2>5
<1>16. ASSUME NEW g \in Getters, GetRefresh(g) PROVE HashOf(j)'
  <2> DEFINE k == get[g].key
  <2>1. k \in Keys /\ ref[k].pc = "idle" /\ UNCHANGED <<st, announced>>
    <3>1. get[g].pc = "refresh"
      BY <1>16 DEF GetRefresh
    <3> QED  BY <1>1, <1>16, <3>1, GetFields DEF GetRefresh
  <2>2. ref'[k].pc = "sent" /\ \A i \in Keys : i # k => ref'[i] = ref[i]
    BY <1>1, <1>16, <2>1 DEF GetRefresh, RefsOK, RefOK
  <2>3. CASE j = k
    BY <1>5, <2>1, <2>2, <2>3 DEF HashOf, Storing
  <2>4. CASE j # k
    BY <1>6, <2>1, <2>2, <2>4
  <2> QED  BY <2>3, <2>4
<1>17. ASSUME NEW g \in Getters, GetStep(g), ~GetRefresh(g) PROVE HashOf(j)'
  BY <1>7, <1>17 DEF GetStep, GetLookup, GetRead, GetTouch, GetManifest, GetWarm, GetFailed, GetAgain
<1>18. ASSUME NEW g \in Getters, NEW k \in Keys, GetHit(g, k) \/ GetMiss(g, k) PROVE HashOf(j)'
  BY <1>7, <1>18 DEF GetHit, GetMiss
<1>19. ASSUME NEW k \in Keys, Change(k) \/ StatsGet(k) PROVE HashOf(j)'
  BY <1>7, <1>19 DEF Change, StatsGet, proxyVars
<1>20. ASSUME UNCHANGED vars PROVE HashOf(j)'
  BY <1>7, <1>20 DEF vars, proxyVars
<1> QED
  BY <1>3, <1>8, <1>10, <1>11, <1>13, <1>14, <1>15, <1>16, <1>17, <1>18, <1>19, <1>20 DEF Next, Refresh, Put

\* image.invalidate tells of a change: until the process restarts no version is
\* announced twice in a row, whatever fails between a Put and its announcement.
THEOREM AnnouncesOnlyChanges == Spec => AnnouncesChanges
<1>1. Init => Inv /\ HashInv
  <2>1. ASSUME Init PROVE HashInv
    <3>1. /\ ref = [k \in Keys |-> IdleRef] /\ st = [k \in Keys |-> NoState]
          /\ announced = [k \in Keys |-> None]
      BY <2>1 DEF Init
    <3> QED  BY <3>1 DEF HashInv, HashOf, IdleRef, NoState, Storing
  <2> QED  BY <2>1, InitInv
<1>2. Inv /\ HashInv /\ [Next]_vars => Inv' /\ HashInv'
  BY InvStep, HashStep
<1>3. Inv /\ HashInv /\ [Next]_vars
      => [\A k \in Keys : Announce(k) /\ crashes = 0 => announced'[k] # announced[k]]_vars
  <2> SUFFICES ASSUME Inv, HashInv, NEW k \in Keys, Announce(k), crashes = 0
               PROVE  announced'[k] # announced[k]
    OBVIOUS
  <2>1. announced \in [Keys -> Versions]
    BY DEF Inv, ProxyInv, DataOK
  <2>2. announced'[k] = ref[k].body /\ ref[k].pc = "announce"
    BY <2>1 DEF Announce
  <2> QED  BY <2>2 DEF HashInv, HashOf
<1> QED  BY <1>1, <1>2, <1>3, PTL DEF Spec, AnnouncesChanges

---------------------------------------------------------------------------
(* Reloads: what a step does to one key, seen from its announcements.      *)

\* Nothing new is stored, shown or announced; a Refresh starts to store what the
\* upstream has, has replaced the file, has put it into memory, has announced it.
Kept(j) ==
    /\ announced'[j] = announced[j] /\ bin'[j] \in {None, bin[j]} /\ world[j] <= world'[j]
    /\ ref'[j].pc \in Storing => ref[j].pc \in Storing /\ ref'[j].body = ref[j].body
    /\ ref'[j].pc \in Stored => ref[j].pc \in Stored
    /\ ref'[j].pc \in Shown => ref[j].pc \in Shown
Begun(j) ==
    /\ announced'[j] = announced[j] /\ bin'[j] = bin[j] /\ world'[j] = world[j]
    /\ ref'[j].pc = "bin" /\ ref'[j].body = world[j]
Written(j) ==
    /\ announced'[j] = announced[j] /\ bin'[j] = ref[j].body /\ world'[j] = world[j]
    /\ ref[j].pc = "bin" /\ ref'[j].pc = "json" /\ ref'[j].body = ref[j].body
Heated(j) ==
    /\ announced'[j] = announced[j] /\ bin'[j] = bin[j] /\ world'[j] = world[j]
    /\ ref[j].pc = "hot" /\ ref'[j].pc = "mark" /\ ref'[j].body = ref[j].body
    /\ Holding(j) => raced'[j]
Told(j) ==
    /\ announced'[j] = ref[j].body /\ bin'[j] = bin[j] /\ world'[j] = world[j]
    /\ ref[j].pc = "announce" /\ ref'[j].pc = "idle"
KeyStep(j) == Kept(j) \/ Begun(j) \/ Written(j) \/ Heated(j) \/ Told(j)

\* A step does one of these to a key.
LEMMA KeySteps ==
    ASSUME Inv, [Next]_vars, NEW j \in Keys
    PROVE  KeyStep(j) /\ (raced[j] => raced'[j]) /\ world[j] <= world'[j]
<1> DEFINE Goal == KeyStep(j) /\ (raced[j] => raced'[j]) /\ world[j] <= world'[j]
<1>1. RefsOK(ref) /\ GetsOK(get) /\ DataOK /\ DiskInv /\ ProxyInv
  BY DEF Inv, ProxyInv
<1>2. world[j] <= world[j] /\ bin[j] \in {None, bin[j]} /\ world[j] \in Nat
      /\ announced = [k \in Keys |-> announced[k]] /\ st = [k \in Keys |-> st[k]]
      /\ world = [k \in Keys |-> world[k]] /\ raced = [k \in Keys |-> raced[k]] /\ bin = [k \in Keys |-> bin[k]]
  BY <1>1 DEF DataOK, Bodies, DiskInv, DiskTypeOK
<1>3. ASSUME ref'[j] = ref[j] \/ ref'[j].pc \in {"idle", "sent"},
             announced'[j] = announced[j], bin'[j] \in {None, bin[j]}, world' = world, raced'[j] = raced[j]
      PROVE  Goal
  BY <1>2, <1>3 DEF KeyStep, Kept, Storing, Stored, Shown
<1>4. ASSUME UNCHANGED <<ref, announced, bin, world, raced>> PROVE Goal
  BY <1>2, <1>3, <1>4
<1>5. ASSUME NEW k \in Keys, Change(k) PROVE Goal
  <2>1. UNCHANGED <<ref, announced, bin, raced>> /\ world[j] <= world'[j]
    BY <1>2, <1>5 DEF Change, diskVars, proxyVars
  <2> QED  BY <1>2, <2>1 DEF KeyStep, Kept
<1>6. ASSUME NEW k \in Keys, RefreshAsync(k) PROVE Goal
  <2>1. RefPc(k, "sent") /\ UNCHANGED <<announced, bin, world, raced>>
    BY <1>6 DEF RefreshAsync, diskVars
  <2>2. ref'[k].pc = "sent" /\ \A i \in Keys : i # k => ref'[i] = ref[i]
    BY <1>1, <2>1, RefMoves DEF RefPcs, Storing
  <2> QED  BY <1>2, <1>3, <2>1, <2>2
<1>7. ASSUME NEW k \in Keys, RefreshFails(k) \/ RefreshUnchanged(k) \/ PutFails(k) PROVE Goal
  <2>1. UNCHANGED <<announced, bin, world, raced>> /\ \E err \in BOOLEAN : Return(k, err)
    BY <1>7 DEF RefreshFails, RefreshUnchanged, PutFails, diskVars
  <2>2. ref'[k] = IdleRef /\ \A i \in Keys : i # k => ref'[i] = ref[i]
    BY <1>1, <2>1, Returns
  <2>3. ref'[k].pc = "idle"
    BY <2>2 DEF IdleRef
  <2> QED  BY <1>2, <1>3, <2>1, <2>2, <2>3
<1>8. ASSUME NEW k \in Keys, RefreshChanged(k) PROVE Goal
  <2>1. UNCHANGED <<announced, bin, world, raced>> /\ ref'[k].pc = "bin" /\ ref'[k].body = world[k]
        /\ \A i \in Keys : i # k => ref'[i] = ref[i]
    BY <1>1, <1>8 DEF RefreshChanged, RefsOK, RefOK, diskVars
  <2>2. CASE j = k
    BY <1>2, <2>1, <2>2 DEF KeyStep, Begun
  <2>3. CASE j # k
    BY <1>2, <1>3, <2>1, <2>3
  <2> QED  BY <2>2, <2>3
<1>9. ASSUME NEW k \in Keys, PutBin(k) PROVE Goal
  <2>1. UNCHANGED <<announced, world, raced>> /\ ref[k].pc = "bin" /\ RefPc(k, "json")
        /\ bin' = [bin EXCEPT ![k] = ref[k].body]
    BY <1>9 DEF PutBin, WriteBin
  <2>2. ref'[k].pc = "json" /\ ref'[k].body = ref[k].body /\ \A i \in Keys : i # k => ref'[i] = ref[i]
    BY <1>1, <2>1 DEF RefPc, RefsOK, RefOK
  <2>3. bin'[k] = ref[k].body /\ \A i \in Keys : i # k => bin'[i] = bin[i]
    BY <1>2, <2>1
  <2>4. CASE j = k
    BY <1>2, <2>1, <2>2, <2>3, <2>4 DEF KeyStep, Written
  <2>5. CASE j # k
    BY <1>2, <1>3, <2>1, <2>2, <2>3, <2>5
  <2> QED  BY <2>4, <2>5
<1>10. ASSUME NEW k \in Keys, bin'[j] \in {None, bin[j]}, UNCHANGED <<announced, world, raced>>,
              ref'[k].body = ref[k].body, \A i \in Keys : i # k => ref'[i] = ref[i],
              ref[k].pc \in Stored, ref'[k].pc \in Stored, ref'[k].pc \in Shown => ref[k].pc \in Shown
       PROVE  Goal
  <2>1. CASE j = k
    BY <1>2, <1>10, <2>1 DEF KeyStep, Kept, Stored
  <2>2. CASE j # k
    BY <1>2, <1>3, <1>10, <2>2
  <2> QED  BY <2>1, <2>2
<1>11. ASSUME NEW k \in Keys, PutJson(k) \/ PutRegister(k) \/ PutEvict(k) \/ PutCopy(k) \/ PutManifest(k)
                              \/ RefreshMark(k)
       PROVE  Goal
  <2>1. bin'[j] \in {None, bin[j]}
    <3>1. CASE PutEvict(k)
      BY <1>1, <3>1, EvictFacts DEF PutEvict
    <3>2. CASE ~PutEvict(k)
      BY <1>2, <1>11, <3>2 DEF PutJson, WriteJson, PutRegister, Register, PutCopy, PutManifest, WriteManifest,
         RefreshMark, diskVars
    <3> QED  BY <3>1, <3>2
  <2>2. UNCHANGED <<announced, world, raced>>
    BY <1>11 DEF PutJson, PutRegister, PutEvict, PutCopy, PutManifest, RefreshMark
  <2>3. ref'[k].body = ref[k].body /\ (\A i \in Keys : i # k => ref'[i] = ref[i])
        /\ ref[k].pc \in Stored /\ ref'[k].pc \in Stored /\ (ref'[k].pc \in Shown => ref[k].pc \in Shown)
    BY <1>1, <1>11 DEF RefPc, RefsOK, RefOK, PutJson, PutRegister, PutEvict, PutCopy, PutManifest, RefreshMark,
       Stored, Storing, Shown
  <2> QED  BY <1>10, <2>1, <2>2, <2>3
<1>12. ASSUME NEW k \in Keys, RefreshHot(k) PROVE Goal
  <2>1. UNCHANGED <<announced, world, bin>> /\ ref[k].pc = "hot" /\ RefPc(k, "mark")
        /\ raced' = [raced EXCEPT ![k] = raced[k] \/ Holding(k)]
    BY <1>2, <1>12 DEF RefreshHot, diskVars
  <2>2. ref'[k].pc = "mark" /\ ref'[k].body = ref[k].body /\ \A i \in Keys : i # k => ref'[i] = ref[i]
    BY <1>1, <2>1 DEF RefPc, RefsOK, RefOK
  <2>3. (raced'[k] <=> raced[k] \/ Holding(k)) /\ \A i \in Keys : i # k => raced'[i] = raced[i]
    BY <1>2, <2>1
  <2>4. CASE j = k
    BY <1>2, <2>1, <2>2, <2>3, <2>4 DEF KeyStep, Heated
  <2>5. CASE j # k
    BY <1>2, <1>3, <2>1, <2>2, <2>3, <2>5
  <2> QED  BY <2>4, <2>5
<1>13. ASSUME NEW k \in Keys, Announce(k) PROVE Goal
  <2>1. ref[k].pc = "announce" /\ Return(k, FALSE) /\ UNCHANGED <<world, bin, raced>>
    BY <1>13 DEF Announce, diskVars
  <2>2. announced'[k] = ref[k].body /\ \A i \in Keys : i # k => announced'[i] = announced[i]
    BY <1>2, <1>13 DEF Announce
  <2>3. ref'[k] = IdleRef /\ \A i \in Keys : i # k => ref'[i] = ref[i]
    BY <1>1, <2>1, Returns
  <2>4. ref'[k].pc = "idle"
    BY <2>3 DEF IdleRef
  <2>5. CASE j = k
    BY <1>2, <2>1, <2>2, <2>4, <2>5 DEF KeyStep, Told
  <2>6. CASE j # k
    BY <1>2, <1>3, <2>1, <2>2, <2>3, <2>6
  <2> QED  BY <2>5, <2>6
<1>14. ASSUME NEW g \in Getters, GetRefresh(g) PROVE Goal
  <2>1. get[g].key \in Keys /\ UNCHANGED <<announced, bin, world, raced>>
    <3>1. get[g].pc = "refresh"
      BY <1>14 DEF GetRefresh
    <3> QED  BY <1>1, <1>14, <3>1, GetFields DEF GetRefresh, diskVars
  <2>2. ref'[get[g].key].pc = "sent" /\ \A i \in Keys : i # get[g].key => ref'[i] = ref[i]
    BY <1>1, <1>14, <2>1 DEF GetRefresh, RefsOK, RefOK
  <2> QED  BY <1>2, <1>3, <2>1, <2>2
<1>15. ASSUME NEW g \in Getters, GetStep(g), ~GetRefresh(g) PROVE Goal
  BY <1>4, <1>15 DEF GetStep, GetLookup, GetRead, GetTouch, Touch, GetManifest, WriteManifest, GetWarm,
     GetFailed, GetAgain, diskVars
<1>16. ASSUME NEW g \in Getters, NEW k \in Keys, GetHit(g, k) \/ GetMiss(g, k) PROVE Goal
  BY <1>4, <1>16 DEF GetHit, GetMiss, diskVars
<1>17. ASSUME NEW k \in Keys, StatsGet(k) PROVE Goal
  BY <1>4, <1>17 DEF StatsGet, proxyVars
<1>18. ASSUME Crash PROVE Goal
  <2>1. ref'[j].pc = "idle" /\ UNCHANGED <<announced, bin, world, raced>>
    BY <1>18 DEF Crash, LoadManifest, IdleRef
  <2> QED  BY <1>2, <1>3, <2>1
<1>19. ASSUME UNCHANGED vars PROVE Goal
  BY <1>4, <1>19 DEF vars, diskVars, proxyVars
<1> QED
  BY <1>5, <1>6, <1>7, <1>8, <1>9, <1>11, <1>12, <1>13, <1>14, <1>15, <1>16, <1>17, <1>18, <1>19
  DEF Next, Refresh, Put

\* The versions of a key stay in order.
LEMMA VersionedStep ==
    ASSUME Inv, [Next]_vars, NEW j \in Keys, Versioned(j)
    PROVE  Versioned(j)' /\ announced[j] <= announced'[j]
<1>1. Inv'
  BY InvStep
<1>2. /\ ref[j].body \in Nat /\ world[j] \in Nat /\ announced[j] \in Nat /\ bin[j] \in Nat
      /\ ref'[j].body \in Nat /\ world'[j] \in Nat /\ announced'[j] \in Nat /\ bin'[j] \in Nat
      /\ (ref[j].pc \in Storing => ref[j].body # None) /\ (ref[j].pc \in RefPcs)
  <2>1. Versions \subseteq Nat /\ Bodies \subseteq Nat /\ None \notin Bodies /\ None \in Nat
    BY DEF Versions, Bodies, None
  <2>2. DataOK /\ DiskTypeOK /\ RefsOK(ref) /\ DataOK' /\ DiskTypeOK' /\ RefsOK(ref')
    BY <1>1 DEF Inv, ProxyInv, DiskInv
  <2>3. RefOK(ref[j]) /\ RefOK(ref'[j])
    BY <2>2 DEF RefsOK
  <2>4. ref[j].body \in Versions /\ ref'[j].body \in Versions /\ ref[j].pc \in RefPcs
        /\ (ref[j].pc \in Storing => ref[j].body \in Bodies)
    BY <2>3 DEF RefOK
  <2>5. world[j] \in Bodies /\ announced[j] \in Versions /\ world'[j] \in Bodies /\ announced'[j] \in Versions
    BY <2>2 DEF DataOK
  <2>6. bin[j] \in Versions /\ bin'[j] \in Versions
    BY <2>2 DEF DiskTypeOK, Versions
  <2> QED  BY <2>1, <2>4, <2>5, <2>6
<1>3. KeyStep(j)
  BY KeySteps
<1>4. CASE Kept(j)
  BY <1>2, <1>4 DEF Kept, Versioned, Storing, Stored, None
<1>5. CASE Begun(j)
  BY <1>2, <1>5 DEF Begun, Versioned, Storing, Stored, None
<1>6. CASE Written(j)
  BY <1>2, <1>6 DEF Written, Versioned, Storing, Stored, None
<1>7. CASE Heated(j)
  BY <1>2, <1>7 DEF Heated, Versioned, Storing, Stored, None
<1>8. CASE Told(j)
  BY <1>2, <1>8 DEF Told, Versioned, Storing, Stored, None
<1> QED  BY <1>3, <1>4, <1>5, <1>6, <1>7, <1>8 DEF KeyStep

\* b is still recent after a step.
StillRecent(j, b) == announced'[j] <= b /\ (ref'[j].pc \in Shown => ref'[j].body <= b)

\* An image that is recent stays recent, but when memory is given a newer one.
LEMMA StaysRecent ==
    ASSUME NEW j \in Keys, NEW b, Recent(j, b), KeyStep(j), ~Heated(j)
    PROVE  StillRecent(j, b)
BY DEF Recent, StillRecent, KeyStep, Kept, Begun, Written, Told, Storing, Shown

\* An older image is still excused after a step.
StillExcused(j) == raced'[j] \/ \E b \in 1..world'[j] : Size[b] > HotMaxBytes

\* What excuses an older image excuses it for good.
LEMMA StaysExcused ==
    ASSUME Inv, [Next]_vars, NEW j \in Keys, Excused(j)
    PROVE  StillExcused(j)
<1>1. (raced[j] => raced'[j]) /\ world[j] <= world'[j]
  BY KeySteps
<1>2. world[j] \in Nat /\ world'[j] \in Nat
  BY InvStep DEF Inv, ProxyInv, DataOK, Bodies
<1> QED  BY <1>1, <1>2 DEF Excused, StillExcused

\* A Get: what it holds is recent unless a Refresh raced with it.
LEMMA HeldStep ==
    ASSUME Inv, RecentInv, [Next]_vars, NEW g \in Getters
    PROVE  HeldRecent(g)'
<1>1. /\ RefsOK(ref) /\ GetsOK(get) /\ DataOK /\ DiskInv /\ ProxyInv
      /\ (\A k \in Keys : Versioned(k)) /\ HeldRecent(g)
  BY DEF Inv, ProxyInv, RecentInv
<1>2. \A k \in Keys : announced[k] \in Nat /\ announced'[k] \in Nat
  BY <1>1, InvStep DEF Inv, ProxyInv, DataOK, Versions, Bodies, None
<1>3. get[g].floor \in Nat /\ (get[g].pc # "idle" => get[g].key \in Keys) /\ GetOK(get[g])
      /\ get[g].pc \in GetPcs
  <2>1. Versions \subseteq Nat
    BY DEF Versions, Bodies, None
  <2> QED  BY <1>1, <2>1, GetFields DEF GetsOK
<1>4. ASSUME get'[g].key = get[g].key, get'[g].floor = get[g].floor, get'[g].pc # "idle" => get[g].pc # "idle",
             get'[g].pc \in Held => get[g].pc \in Held /\ get'[g].body = get[g].body
      PROVE  HeldRecent(g)'
  <2> SUFFICES ASSUME get'[g].pc # "idle"
               PROVE  /\ get'[g].floor <= announced'[get'[g].key]
                      /\ get'[g].pc \in Held /\ ~raced'[get'[g].key] => StillRecent(get'[g].key, get'[g].body)
    BY DEF HeldRecent, Recent, StillRecent, Held, Found
  <2> DEFINE k == get[g].key
             b == get[g].body
  <2>1. k \in Keys /\ get'[g].key = k /\ get[g].pc # "idle"
    BY <1>3, <1>4
  <2>2. get[g].floor <= announced[k] /\ announced[k] <= announced'[k] /\ get'[g].floor = get[g].floor
    BY <1>1, <1>4, <2>1, VersionedStep DEF HeldRecent
  <2>3. KeyStep(k) /\ (raced[k] => raced'[k])
    BY <2>1, KeySteps
  <2>4. ASSUME get'[g].pc \in Held, ~raced'[k] PROVE StillRecent(k, b)
    <3>1. get[g].pc \in Held /\ ~raced[k]
      BY <1>4, <2>3, <2>4
    <3>2. Recent(k, b)
      BY <1>1, <2>1, <3>1 DEF HeldRecent
    <3>3. Holding(k)
      BY <3>1 DEF Holding, Held, Found
    <3>4. ~Heated(k)
      BY <2>4, <3>3 DEF Heated
    <3> HIDE DEF k, b
    <3> QED  BY <2>1, <2>3, <3>2, <3>4, StaysRecent
  <2>5. ASSUME get'[g].pc \in Held PROVE get'[g].body = b
    BY <1>4, <2>5
  <2>6. get[g].floor <= announced'[k]
    BY <1>2, <1>3, <2>1, <2>2
  <2> HIDE DEF k, b
  <2> QED  BY <2>1, <2>2, <2>4, <2>5, <2>6
<1>5. ASSUME get'[g] = get[g] PROVE HeldRecent(g)'
  BY <1>4, <1>5
<1>6. ASSUME get'[g].pc = "idle" PROVE HeldRecent(g)'
  BY <1>6 DEF HeldRecent, Held, Found
<1>7. get = [h \in Getters |-> get[h]]
  BY <1>1 DEF GetsOK
<1>8. ASSUME NEW k \in Keys, RefreshFails(k) \/ RefreshUnchanged(k) \/ PutFails(k) \/ Announce(k)
      PROVE  HeldRecent(g)'
  <2>1. \E err \in BOOLEAN : Return(k, err)
    BY <1>8 DEF RefreshFails, RefreshUnchanged, PutFails, Announce
  <2>2. \/ get'[g] = get[g]
        \/ /\ get[g].pc = "wait" /\ get'[g].pc \in {"failed", "again"}
           /\ get'[g].key = get[g].key /\ get'[g].floor = get[g].floor
    BY <1>1, <2>1, Returns
  <2> QED  BY <1>4, <1>5, <2>2 DEF Held, Found
<1>9. ASSUME NEW k \in Keys, Refresh(k), ~(RefreshFails(k) \/ RefreshUnchanged(k) \/ PutFails(k) \/ Announce(k))
      PROVE  HeldRecent(g)'
  BY <1>5, <1>9 DEF Refresh, Put, RefreshAsync, RefreshChanged, PutBin, PutJson, PutRegister, PutEvict,
     PutCopy, PutManifest, RefreshHot, RefreshMark
<1>10. ASSUME NEW h \in Getters, h # g, GetStep(h) \/ \E k \in Keys : GetHit(h, k) \/ GetMiss(h, k)
       PROVE  HeldRecent(g)'
  <2>1. ASSUME NEW c, get' = [get EXCEPT ![h] = c] PROVE get'[g] = get[g]
    BY <1>7, <1>10, <2>1
  <2>2. ASSUME GetWarm(h) \/ GetFailed(h) \/ GetAgain(h) \/ \E k \in Keys : GetHit(h, k) \/ GetMiss(h, k)
        PROVE  get'[g] = get[g]
    <3>1. \E c : get' = [get EXCEPT ![h] = c]
      <4>1. ASSUME GetWarm(h) \/ GetFailed(h) \/ GetAgain(h) \/ \E k \in Keys : GetHit(h, k)
            PROVE  get' = [get EXCEPT ![h] = IdleGet]
        BY <4>1 DEF GetWarm, GetFailed, GetAgain, GetHit, Serve, Answer502
      <4>2. ASSUME NEW k \in Keys, GetMiss(h, k) PROVE \E c : get' = [get EXCEPT ![h] = c]
        BY <4>2 DEF GetMiss
      <4> QED  BY <2>2, <4>1, <4>2
    <3> QED  BY <2>1, <3>1
  <2>3. ASSUME GetLookup(h) \/ GetRead(h) \/ GetTouch(h) \/ GetManifest(h) \/ GetRefresh(h)
        PROVE  get'[g] = get[g]
    BY <1>7, <1>10, <2>3 DEF GetLookup, GetRead, GetTouch, GetManifest, GetRefresh, GetPc
  <2>4. get'[g] = get[g]
    BY <1>10, <2>2, <2>3 DEF GetStep
  <2> QED  BY <1>5, <2>4
<1>11. ASSUME GetWarm(g) \/ GetFailed(g) \/ GetAgain(g) \/ \E k \in Keys : GetHit(g, k) PROVE HeldRecent(g)'
  <2>1. get'[g] = IdleGet
    BY <1>7, <1>11 DEF GetWarm, GetFailed, GetAgain, GetHit, Serve, Answer502
  <2> QED  BY <1>6, <2>1 DEF IdleGet
<1>12. ASSUME NEW k \in Keys, GetMiss(g, k) PROVE HeldRecent(g)'
  <2>1. get'[g].pc = "lookup" /\ get'[g].key = k /\ get'[g].floor = announced[k] /\ announced' = announced
    BY <1>7, <1>12 DEF GetMiss, IdleGet
  <2> QED  BY <1>2, <2>1 DEF HeldRecent, Held, Found
<1>13. ASSUME GetLookup(g) \/ GetTouch(g) \/ GetManifest(g) \/ GetRefresh(g) PROVE HeldRecent(g)'
  <2>1. /\ get'[g].key = get[g].key /\ get'[g].floor = get[g].floor /\ get[g].pc # "idle"
        /\ get'[g].pc \in Held => get[g].pc \in Held /\ get'[g].body = get[g].body
    BY <1>3, <1>7, <1>13 DEF GetLookup, GetTouch, GetManifest, GetRefresh, GetPc, GetOK, Held, Found
  <2> QED  BY <1>4, <2>1
<1>14. ASSUME GetRead(g) PROVE HeldRecent(g)'
  <2> DEFINE k == get[g].key
             b == bin[k]
  <2>1. get[g].pc = "read" /\ k \in Keys
    BY <1>3, <1>14 DEF GetRead
  <2>2. CASE b = None
    <3>1. get'[g].key = get[g].key /\ get'[g].floor = get[g].floor /\ get'[g].pc = "refresh"
      BY <1>3, <1>7, <1>14, <2>2 DEF GetRead, GetOK
    <3> QED  BY <1>4, <2>1, <3>1 DEF Held, Found
  <2>3. CASE b # None
    <3>1. /\ get'[g].key = k /\ get'[g].floor = get[g].floor /\ get'[g].pc = "touch" /\ get'[g].body = b
          /\ UNCHANGED <<ref, announced>>
      BY <1>3, <1>7, <1>14, <2>3 DEF GetRead, GetOK
    <3>2. Versioned(k) /\ get[g].floor <= announced[k]
      BY <1>1, <2>1 DEF HeldRecent
    <3>3. announced[k] <= b /\ (ref[k].pc \in Shown => b = ref[k].body)
      BY <2>3, <3>2 DEF Versioned, Stored, Storing, Shown
    <3>4. b \in Nat
      BY <1>1, <2>1 DEF DiskInv, DiskTypeOK, Bodies, None
    <3> HIDE DEF k, b
    <3>5. ref[k].pc \in Shown => ref[k].body <= b
      BY <3>3, <3>4
    <3> QED  BY <3>1, <3>2, <3>3, <3>5 DEF HeldRecent, Recent
  <2> QED  BY <2>2, <2>3
<1>15. ASSUME NEW k \in Keys, Change(k) \/ StatsGet(k) PROVE HeldRecent(g)'
  BY <1>5, <1>15 DEF Change, StatsGet, proxyVars
<1>16. ASSUME Crash PROVE HeldRecent(g)'
  <2>1. get'[g].pc = "idle"
    BY <1>16 DEF Crash, IdleGet
  <2> QED  BY <1>6, <2>1
<1>17. ASSUME UNCHANGED vars PROVE HeldRecent(g)'
  BY <1>5, <1>17 DEF vars, proxyVars
<1> QED
  BY <1>8, <1>9, <1>10, <1>11, <1>12, <1>13, <1>14, <1>15, <1>16, <1>17 DEF Next, GetStep

\* Memory: what it holds of a key is recent unless something excuses it.
LEMMA HotRecentStep ==
    ASSUME Inv, RecentInv, [Next]_vars
    PROVE  HotRecent'
<1>1. /\ HotInv /\ RefsOK(ref) /\ GetsOK(get) /\ DataOK /\ ProxyInv /\ HotRecent
      /\ (\A k \in Keys : Versioned(k)) /\ (\A g \in Getters : HeldRecent(g))
  BY DEF Inv, ProxyInv, RecentInv
<1>2. HotInv'
  BY HotStep
<1>3. /\ \A i \in DOMAIN hot : hot[i] \in HotEntries /\ hot[i].key \in Keys
      /\ \A i \in DOMAIN hot' : hot'[i] \in HotEntries /\ hot'[i].key \in Keys
  <2>1. \A e \in HotEntries : e.key \in Keys
    BY DEF HotEntries
  <2>2. hot \in Seq(HotEntries) /\ hot' \in Seq(HotEntries)
    BY <1>1, <1>2 DEF HotInv, HotTypeOK, HotEntries
  <2> QED  BY <2>1, <2>2
<1>4. SUFFICES ASSUME NEW i \in DOMAIN hot', ~StillExcused(hot'[i].key)
               PROVE  StillRecent(hot'[i].key, hot'[i].body)
  BY DEF HotRecent, Recent, Excused, StillRecent, StillExcused
<1> DEFINE j == hot'[i].key
           b == hot'[i].body
<1>5. j \in Keys /\ KeyStep(j) /\ (raced[j] => raced'[j])
  BY <1>3, <1>4, KeySteps
<1>6. ~Excused(j)
  BY <1>4, <1>5, StaysExcused
<1>7. ASSUME NEW m \in DOMAIN hot, hot'[i] = hot[m], ~Heated(j) PROVE StillRecent(j, b)
  <2>1. Recent(j, b)
    BY <1>1, <1>6, <1>7 DEF HotRecent
  <2> HIDE DEF j, b
  <2> QED  BY <1>5, <1>7, <2>1, StaysRecent
<1>8. ASSUME UNCHANGED hotVars, ~Heated(j) PROVE StillRecent(j, b)
  BY <1>7, <1>8 DEF hotVars
<1>9. ASSUME UNCHANGED ref PROVE ~Heated(j)
  BY <1>9 DEF Heated
<1>10. ASSUME NEW k \in Keys, RefreshHot(k) PROVE StillRecent(j, b)
  <2> DEFINE new == [key |-> k, body |-> ref[k].body, tag |-> ref[k].body]
  <2>1. HotPut(k, ref[k].body, ref[k].body) /\ ref[k].pc = "hot" /\ RefPc(k, "mark")
        /\ UNCHANGED <<announced, world>>
    BY <1>10 DEF RefreshHot
  <2>2. ref[k].body \in Bodies
    BY <1>1, <2>1, RefFields DEF Storing
  <2>3. ref'[k].pc = "mark" /\ ref'[k].body = ref[k].body /\ \A h \in Keys : h # k => ref'[h] = ref[h]
    BY <1>1, <2>1 DEF RefPc, RefsOK, RefOK
  <2>4. announced[k] <= ref[k].body /\ ref[k].body <= world[k]
    BY <1>1, <2>1 DEF Versioned, Storing
  <2>5. \/ hot' = hot /\ (HotMaxEntries = 0 \/ Size[ref[k].body] > HotMaxBytes)
        \/ hot'[i] = new
        \/ \E m \in DOMAIN hot : hot'[i] = hot[m] /\ hot[m].key # k
    BY <1>1, <1>4, <2>1, <2>2, HotPutFacts
  <2>6. ASSUME j # k PROVE ~Heated(j)
    BY <1>5, <2>3, <2>6 DEF Heated
  <2>7. CASE hot' = hot /\ (HotMaxEntries = 0 \/ Size[ref[k].body] > HotMaxBytes)
    <3>1. HotMaxEntries # 0
      <4>1. Len(hot) <= HotMaxEntries /\ DOMAIN hot = 1..Len(hot) /\ Len(hot) \in Nat
        BY <1>1, HotFacts DEF HotInv, HotBounded
      <4> QED  BY <1>4, <2>7, <4>1
    <3>2. Excused(k)
      <4>1. ref[k].body \in 1..world[k]
        BY <1>1, <2>2, <2>4 DEF DataOK, Bodies
      <4> QED  BY <2>7, <3>1, <4>1 DEF Excused
    <3>3. j # k
      BY <1>6, <3>2
    <3> QED  BY <1>7, <2>6, <2>7, <3>3
  <2>8. CASE hot'[i] = new
    <3>1. j = k /\ b = ref[k].body
      BY <2>8
    <3>2. ref[k].body <= ref[k].body
      BY <2>2 DEF Bodies
    <3> HIDE DEF j, b, new
    <3> QED  BY <2>1, <2>3, <2>4, <3>1, <3>2 DEF StillRecent
  <2>9. CASE \E m \in DOMAIN hot : hot'[i] = hot[m] /\ hot[m].key # k
    BY <1>7, <2>6, <2>9
  <2> QED  BY <2>5, <2>7, <2>8, <2>9
<1>11. ASSUME NEW g \in Getters, GetWarm(g) PROVE StillRecent(j, b)
  <2> DEFINE k == get[g].key
             new == [key |-> k, body |-> get[g].body, tag |-> get[g].ent.tag]
  <2>1. get[g].pc = "warm" /\ HotPut(k, get[g].body, get[g].ent.tag) /\ UNCHANGED <<ref, announced, raced>>
    BY <1>11 DEF GetWarm
  <2>2. k \in Keys /\ get[g].body \in Bodies /\ get[g].ent.tag \in Bodies
    BY <1>1, <2>1, GetFields DEF Found, Held
  <2>3. \/ hot' = hot
        \/ hot'[i] = new
        \/ \E m \in DOMAIN hot : hot'[i] = hot[m] /\ hot[m].key # k
    <3> HIDE DEF k
    <3> QED  BY <1>1, <1>4, <2>1, <2>2, HotPutFacts DEF new
  <2>4. ~Heated(j)
    BY <1>9, <2>1
  <2>5. CASE hot'[i] = new
    <3>1. j = k /\ b = get[g].body
      BY <2>5
    <3>2. ~raced[k]
      BY <1>6, <3>1 DEF Excused
    <3>3. Recent(k, get[g].body)
      BY <1>1, <2>1, <3>2 DEF HeldRecent, Held, Found
    <3>4. Recent(j, b)
      BY <3>1, <3>3 DEF Recent
    <3> HIDE DEF j, b
    <3> QED  BY <1>5, <2>4, <3>4, StaysRecent
  <2>6. CASE hot' = hot
    BY <1>7, <2>4, <2>6
  <2>7. CASE \E m \in DOMAIN hot : hot'[i] = hot[m] /\ hot[m].key # k
    BY <1>7, <2>4, <2>7
  <2> QED  BY <2>3, <2>5, <2>6, <2>7
<1>12. ASSUME NEW k \in Keys, HotHas(k), HotTouch(k), UNCHANGED ref PROVE StillRecent(j, b)
  <2>1. \E m \in DOMAIN hot : hot'[i] = hot[m]
    BY <1>1, <1>4, <1>12, HotTouchFacts
  <2> QED  BY <1>7, <1>9, <1>12, <2>1
<1>13. ASSUME NEW g \in Getters, NEW k \in Keys, GetHit(g, k) PROVE StillRecent(j, b)
  BY <1>12, <1>13 DEF GetHit
<1>14. ASSUME NEW g \in Getters, GetAgain(g) PROVE StillRecent(j, b)
  <2>1. get[g].key \in Keys
    <3>1. get[g].pc = "again"
      BY <1>14 DEF GetAgain
    <3> QED  BY <1>1, <3>1, GetFields
  <2>2. CASE HotHas(get[g].key)
    BY <1>12, <1>14, <2>1, <2>2 DEF GetAgain
  <2>3. CASE ~HotHas(get[g].key)
    BY <1>8, <1>9, <1>14, <2>3 DEF GetAgain
  <2> QED  BY <2>2, <2>3
<1>15. ~Crash
  <2>1. Crash => hot' = <<>>
    BY DEF Crash
  <2> QED  BY <1>4, <2>1
<1>16. ASSUME NEW k \in Keys, Refresh(k), ~RefreshHot(k) PROVE StillRecent(j, b)
  <2>1. UNCHANGED hotVars
    BY <1>16 DEF Refresh, Put, RefreshAsync, RefreshFails, RefreshUnchanged, RefreshChanged, PutFails,
       PutBin, PutJson, PutRegister, PutEvict, PutCopy, PutManifest, RefreshMark, Announce
  <2>2. ~Heated(j)
    <3>1. ref[j].pc = "hot" => ref'[j] = ref[j] \/ ref'[j].pc = "idle"
      <4>1. CASE RefreshFails(k) \/ RefreshUnchanged(k) \/ PutFails(k) \/ Announce(k)
        <5>1. \E err \in BOOLEAN : Return(k, err)
          BY <4>1 DEF RefreshFails, RefreshUnchanged, PutFails, Announce
        <5>2. ref'[k] = IdleRef /\ \A h \in Keys : h # k => ref'[h] = ref[h]
          BY <1>1, <5>1, Returns
        <5>3. ref'[k].pc = "idle"
          BY <5>2 DEF IdleRef
        <5> HIDE DEF j
        <5> QED  BY <1>5, <5>2, <5>3
      <4>2. CASE ~(RefreshFails(k) \/ RefreshUnchanged(k) \/ PutFails(k) \/ Announce(k))
        <5>1. ref[k].pc # "hot" /\ \A h \in Keys : h # k => ref'[h] = ref[h]
          BY <1>1, <1>16, <4>2 DEF RefPc, RefsOK, RefOK, Refresh, Put, RefreshAsync, RefreshChanged, PutBin,
             PutJson, PutRegister, PutEvict, PutCopy, PutManifest, RefreshMark
        <5> HIDE DEF j
        <5> QED  BY <1>5, <5>1
      <4> QED  BY <4>1, <4>2
    <3> HIDE DEF j
    <3> QED  BY <3>1 DEF Heated
  <2> QED  BY <1>8, <2>1, <2>2
<1>17. ASSUME NEW k \in Keys, Change(k) \/ StatsGet(k) PROVE StillRecent(j, b)
  BY <1>8, <1>9, <1>17 DEF Change, StatsGet, proxyVars
<1>18. ASSUME NEW g \in Getters, GetStep(g), ~GetWarm(g), ~GetAgain(g) PROVE StillRecent(j, b)
  <2>1. UNCHANGED hotVars
    BY <1>18 DEF GetStep, GetLookup, GetRead, GetTouch, GetManifest, GetRefresh, GetFailed
  <2>2. CASE ~GetRefresh(g)
    BY <1>8, <1>9, <1>18, <2>1, <2>2 DEF GetStep, GetLookup, GetRead, GetTouch, GetManifest, GetFailed
  <2>3. CASE GetRefresh(g)
    <3>1. get[g].key \in Keys /\ ref[get[g].key].pc = "idle"
      <4>1. get[g].pc = "refresh"
        BY <2>3 DEF GetRefresh
      <4> QED  BY <1>1, <2>3, <4>1, GetFields DEF GetRefresh
    <3>2. \A h \in Keys : h # get[g].key => ref'[h] = ref[h]
      BY <1>1, <2>3, <3>1 DEF GetRefresh, RefsOK, RefOK
    <3>3. ~Heated(j)
      <4> HIDE DEF j
      <4> QED  BY <1>5, <3>1, <3>2 DEF Heated
    <3> QED  BY <1>8, <2>1, <3>3
  <2> QED  BY <2>2, <2>3
<1>19. ASSUME NEW g \in Getters, NEW k \in Keys, GetMiss(g, k) PROVE StillRecent(j, b)
  BY <1>8, <1>9, <1>19 DEF GetMiss
<1>20. ASSUME UNCHANGED vars PROVE StillRecent(j, b)
  BY <1>8, <1>9, <1>20 DEF vars, proxyVars
<1> QED
  BY <1>10, <1>11, <1>13, <1>14, <1>15, <1>16, <1>17, <1>18, <1>19, <1>20 DEF Next

\* What a Get returned is no older than the last announcement it may have been
\* told of when it started, unless something excuses it.
LEMMA AnswerStep ==
    ASSUME Inv, RecentInv, [Next]_vars, NEW g \in Getters
    PROVE  AnswerRecent(g)'
<1>1. /\ HotInv /\ RefsOK(ref) /\ GetsOK(get) /\ DataOK /\ ProxyInv /\ HotRecent
      /\ (\A k \in Keys : Versioned(k)) /\ HeldRecent(g) /\ AnswerRecent(g)
  BY DEF Inv, ProxyInv, RecentInv
<1>2. answer = [h \in Getters |-> answer[h]] /\ answer[g] \in Answers
  BY <1>1 DEF DataOK
<1>3. \A k \in Keys : (raced[k] => raced'[k]) /\ (Excused(k) => StillExcused(k))
  BY KeySteps, StaysExcused
<1>4. \A k \in Keys : announced[k] \in Nat
  BY <1>1 DEF DataOK, Versions, Bodies, None
<1>5. ASSUME answer'[g] = answer[g] PROVE AnswerRecent(g)'
  <2> DEFINE a == answer[g]
  <2>1. a.key # "none" /\ a.err = "none" => a.key \in Keys /\ (a.body >= a.floor \/ Excused(a.key))
    BY <1>1, <1>2 DEF AnswerRecent, Answers
  <2> HIDE DEF a
  <2>2. a.key # "none" /\ a.err = "none" => a.body >= a.floor \/ StillExcused(a.key)
    BY <1>3, <2>1
  <2> QED  BY <1>5, <2>2 DEF AnswerRecent, Excused, StillExcused, a
<1>6. ASSUME answer'[g].key = "none" \/ answer'[g].err # "none" PROVE AnswerRecent(g)'
  BY <1>6 DEF AnswerRecent
<1>7. ASSUME NEW k \in Keys, NEW b \in Nat, NEW t, NEW f \in Nat, UNCHANGED <<world, raced>>,
             ~Excused(k) => f <= b,
             answer' = [answer EXCEPT ![g] = [key |-> k, body |-> b, tag |-> t, floor |-> f, err |-> "none"]]
      PROVE  AnswerRecent(g)'
  <2> DEFINE a == [key |-> k, body |-> b, tag |-> t, floor |-> f, err |-> "none"]
  <2>1. answer'[g] = a
    BY <1>2, <1>7
  <2>2. answer'[g].key = k /\ answer'[g].body = b /\ answer'[g].floor = f
    BY <2>1
  <2>3. b >= f \/ (raced'[k] \/ \E v \in 1..world'[k] : Size[v] > HotMaxBytes)
    BY <1>7 DEF Excused
  <2> QED  BY <2>2, <2>3 DEF AnswerRecent, Excused
<1>8. ASSUME NEW k \in Keys, HotHas(k), HotTouch(k)
      PROVE  /\ HotEntry(k).body \in Nat /\ (~Excused(k) => announced[k] <= HotEntry(k).body)
  <2>1. HotAt(k) \in DOMAIN hot /\ hot[HotAt(k)].key = k /\ HotEntry(k) \in HotEntries
    BY <1>1, <1>8, HotTouchFacts
  <2>2. HotEntry(k) = hot[HotAt(k)] /\ HotEntry(k).body \in Nat
    BY <2>1 DEF HotEntry, HotEntries, Bodies
  <2> HIDE DEF HotEntry
  <2> QED  BY <1>1, <2>1, <2>2 DEF HotRecent, Recent
<1>9. ASSUME NEW k \in Keys, GetHit(g, k) PROVE AnswerRecent(g)'
  <2>1. HotHas(k) /\ HotTouch(k) /\ UNCHANGED <<world, raced>>
        /\ answer' = [answer EXCEPT ![g] = [key |-> k, body |-> HotEntry(k).body, tag |-> HotEntry(k).tag,
                                            floor |-> announced[k], err |-> "none"]]
    BY <1>9 DEF GetHit, Serve
  <2>2. HotEntry(k).body \in Nat /\ (~Excused(k) => announced[k] <= HotEntry(k).body)
    BY <1>8, <2>1
  <2> QED  BY <1>4, <1>7, <2>1, <2>2
<1>10. ASSUME \E k \in Keys : GetMiss(g, k) PROVE AnswerRecent(g)'
  <2>1. answer'[g] = NoAnswer
    BY <1>2, <1>10 DEF GetMiss
  <2> QED  BY <1>6, <2>1 DEF NoAnswer
<1>11. ASSUME GetFailed(g) PROVE AnswerRecent(g)'
  <2>1. answer'[g].err = "upstream"
    BY <1>2, <1>11 DEF GetFailed, Answer502, NoAnswer
  <2> QED  BY <1>6, <2>1
<1>12. ASSUME GetWarm(g) PROVE AnswerRecent(g)'
  <2> DEFINE k == get[g].key
  <2>1. get[g].pc = "warm" /\ UNCHANGED <<world, raced>>
        /\ answer' = [answer EXCEPT ![g] = [key |-> k, body |-> get[g].body, tag |-> get[g].ent.tag,
                                            floor |-> get[g].floor, err |-> "none"]]
    BY <1>12 DEF GetWarm, Serve
  <2>2. k \in Keys /\ get[g].body \in Nat /\ get[g].floor \in Nat
    <3>1. k \in Keys /\ get[g].body \in Bodies /\ get[g].floor \in Versions
      BY <1>1, <2>1, GetFields DEF Found, Held
    <3> QED  BY <3>1 DEF Bodies, Versions, None
  <2>3. ~Excused(k) => get[g].floor <= get[g].body
    <3>1. get[g].floor <= announced[k] /\ (~raced[k] => announced[k] <= get[g].body)
      BY <1>1, <2>1 DEF HeldRecent, Recent, Held, Found
    <3> QED  BY <1>4, <2>2, <3>1 DEF Excused
  <2> HIDE DEF k
  <2> QED  BY <1>7, <2>1, <2>2, <2>3
<1>13. ASSUME GetAgain(g) PROVE AnswerRecent(g)'
  <2> DEFINE k == get[g].key
  <2>1. get[g].pc = "again" /\ UNCHANGED <<world, raced>>
    BY <1>13 DEF GetAgain
  <2>2. k \in Keys /\ get[g].floor \in Nat /\ get[g].floor <= announced[k]
    <3>1. k \in Keys /\ get[g].floor \in Versions
      BY <1>1, <2>1, GetFields
    <3> QED  BY <1>1, <2>1, <3>1 DEF HeldRecent, Bodies, Versions, None
  <2>3. CASE HotHas(k)
    <3>1. HotTouch(k)
          /\ answer' = [answer EXCEPT ![g] = [key |-> k, body |-> HotEntry(k).body, tag |-> HotEntry(k).tag,
                                              floor |-> get[g].floor, err |-> "none"]]
      BY <1>13, <2>3 DEF GetAgain
    <3> HIDE DEF k
    <3>2. HotEntry(k).body \in Nat /\ (~Excused(k) => announced[k] <= HotEntry(k).body)
      BY <1>8, <2>2, <2>3, <3>1
    <3>3. ~Excused(k) => get[g].floor <= HotEntry(k).body
      BY <1>4, <2>2, <3>2
    <3> QED  BY <1>7, <2>1, <2>2, <3>1, <3>2, <3>3
  <2>4. CASE ~HotHas(k)
    <3>1. Answer502(g, "empty")
      BY <1>13, <2>4 DEF GetAgain
    <3>2. answer'[g].err = "empty"
      BY <1>2, <3>1 DEF Answer502, NoAnswer
    <3> QED  BY <1>6, <3>2
  <2> QED  BY <2>3, <2>4
<1>14. ASSUME NEW h \in Getters, h # g, GetStep(h) \/ \E k \in Keys : GetHit(h, k) \/ GetMiss(h, k)
       PROVE  AnswerRecent(g)'
  <2>1. ASSUME NEW a, answer' = [answer EXCEPT ![h] = a] PROVE answer'[g] = answer[g]
    BY <1>2, <1>14, <2>1
  <2>2. ASSUME GetLookup(h) \/ GetRead(h) \/ GetTouch(h) \/ GetManifest(h) \/ GetRefresh(h)
        PROVE  answer'[g] = answer[g]
    BY <2>2 DEF GetLookup, GetRead, GetTouch, GetManifest, GetRefresh
  <2>3. ASSUME GetWarm(h) PROVE answer'[g] = answer[g]
    BY <2>1, <2>3 DEF GetWarm, Serve
  <2>4. ASSUME NEW err, Answer502(h, err) PROVE answer'[g] = answer[g]
    BY <2>1, <2>4 DEF Answer502
  <2>5. ASSUME GetFailed(h) PROVE answer'[g] = answer[g]
    BY <2>4, <2>5 DEF GetFailed
  <2>6. ASSUME GetAgain(h) PROVE answer'[g] = answer[g]
    <3>1. CASE HotHas(get[h].key)
      BY <2>1, <2>6, <3>1 DEF GetAgain
    <3>2. CASE ~HotHas(get[h].key)
      BY <2>4, <2>6, <3>2 DEF GetAgain
    <3> QED  BY <3>1, <3>2
  <2>7. ASSUME NEW k \in Keys, GetHit(h, k) PROVE answer'[g] = answer[g]
    BY <2>1, <2>7 DEF GetHit, Serve
  <2>8. ASSUME NEW k \in Keys, GetMiss(h, k) PROVE answer'[g] = answer[g]
    BY <2>1, <2>8 DEF GetMiss
  <2>9. answer'[g] = answer[g]
    BY <1>14, <2>2, <2>3, <2>5, <2>6, <2>7, <2>8 DEF GetStep
  <2> QED  BY <1>5, <2>9
<1>15. ASSUME GetLookup(g) \/ GetRead(g) \/ GetTouch(g) \/ GetManifest(g) \/ GetRefresh(g)
       PROVE  AnswerRecent(g)'
  BY <1>5, <1>15 DEF GetLookup, GetRead, GetTouch, GetManifest, GetRefresh
<1>16. ASSUME NEW k \in Keys, Refresh(k) PROVE AnswerRecent(g)'
  BY <1>5, <1>16 DEF Refresh, Put, RefreshAsync, RefreshFails, RefreshUnchanged, RefreshChanged, PutFails,
     PutBin, PutJson, PutRegister, PutEvict, PutCopy, PutManifest, RefreshHot, RefreshMark, Announce
<1>17. ASSUME NEW k \in Keys, Change(k) \/ StatsGet(k) PROVE AnswerRecent(g)'
  BY <1>5, <1>17 DEF Change, StatsGet, proxyVars
<1>18. ASSUME Crash PROVE AnswerRecent(g)'
  <2>1. answer'[g] = NoAnswer
    BY <1>18 DEF Crash
  <2> QED  BY <1>6, <2>1 DEF NoAnswer
<1>19. ASSUME UNCHANGED vars PROVE AnswerRecent(g)'
  BY <1>5, <1>19 DEF vars, proxyVars
<1> QED
  BY <1>9, <1>10, <1>11, <1>12, <1>13, <1>14, <1>15, <1>16, <1>17, <1>18, <1>19 DEF Next, GetStep

\* What a Get returned follows from the invariant.
LEMMA RecentInvStep ==
    ASSUME Inv, RecentInv, [Next]_vars
    PROVE  RecentInv'
<1>1. \A k \in Keys : Versioned(k)'
  BY VersionedStep DEF RecentInv
<1>2. \A g \in Getters : HeldRecent(g)'
  BY HeldStep
<1>3. HotRecent'
  BY HotRecentStep
<1>4. \A g \in Getters : AnswerRecent(g)'
  BY AnswerStep
<1> QED  BY <1>1, <1>2, <1>3, <1>4 DEF RecentInv

\* A client that reloads an image after its image.invalidate gets that version or a
\* newer one, across any number of Gets, evictions, failures and crashes, unless a
\* Get held an older disk read of the key while a Refresh stored a newer image, or
\* a version was too large for the hot tier: the two exceptions are the only ones.
THEOREM ReloadsAreRecent == Spec => []ReloadIsOldOnlyByRaceOrSize
<1>1. Init => Inv /\ RecentInv
  <2> SUFFICES ASSUME Init PROVE RecentInv
    BY InitInv
  <2>1. /\ hot = <<>> /\ world = [k \in Keys |-> 1] /\ ref = [k \in Keys |-> IdleRef]
        /\ get = [g \in Getters |-> IdleGet] /\ answer = [g \in Getters |-> NoAnswer]
        /\ announced = [k \in Keys |-> None] /\ bin = [k \in Keys |-> None]
    BY DEF Init, HotInit, DiskInit
  <2>2. \A k \in Keys : Versioned(k)
    BY <2>1 DEF Versioned, IdleRef, None, Storing, Stored
  <2>3. \A g \in Getters : HeldRecent(g)
    BY <2>1 DEF HeldRecent, IdleGet, Held, Found
  <2>4. HotRecent
    BY <2>1 DEF HotRecent
  <2>5. \A g \in Getters : AnswerRecent(g)
    BY <2>1 DEF AnswerRecent, NoAnswer
  <2> QED  BY <2>2, <2>3, <2>4, <2>5 DEF RecentInv
<1>2. Inv /\ RecentInv /\ [Next]_vars => Inv' /\ RecentInv'
  BY InvStep, RecentInvStep
<1>3. RecentInv => ReloadIsOldOnlyByRaceOrSize
  BY DEF RecentInv, AnswerRecent, Excused, ReloadIsOldOnlyByRaceOrSize
<1> QED  BY <1>1, <1>2, <1>3, PTL DEF Spec
=============================================================================
