--------------------------- MODULE PipelineProofs ---------------------------
(***************************************************************************)
(* What Pipeline's fetcher, cache and store keep for any number of         *)
(* versions, upstream changes, crashes and failures.                       *)
(***************************************************************************)
EXTENDS Pipeline, SequenceTheorems, TLAPS

(***************************************************************************)
(* The invariants between ticks are not inductive: they say nothing of the *)
(* positions inside a tick.  AtStep says, position by position, what the   *)
(* newest row and the cached envelope have to do with each other and with  *)
(* the fetched one.                                                        *)
(***************************************************************************)
NewestIs(t) == rows # <<>> /\ Last(rows).tag = t

\* The cached version is the newest row's, or it is known why not.
Kept(t) == lost \/ wiped \/ NewestIs(t)

CacheKept == pc \notin {"down", "set"} /\ hit /\ latest.tag # Null => Kept(latest.tag)
FetchKept == pc = "set" /\ res.tag # Null => Kept(res.tag)
\* When no store operation ever failed the newest row is the cached one's, with
\* or without a validator.
CacheNewest == pc \notin {"down", "set"} /\ ~faults =>
                  rows = <<>> \/ (hit /\ Last(rows).tag = latest.tag)
FetchNewest == pc = "set" /\ ~faults => rows = <<>> \/ Last(rows).tag = res.tag
\* A fetched version that will be broadcast as a change is the newest row.
FetchRow == pc = "set" /\ (~hit \/ latest.tag # res.tag)
               => lost \/ wiped \/ (rows # <<>> /\ Last(rows) = res)

\* Only a version whose validator differs from the cached one is persisted.
ToPersist == pc = "persist" => ~hit \/ latest.tag # res.tag

AtStep == CacheKept /\ FetchKept /\ CacheNewest /\ FetchNewest /\ FetchRow /\ ToPersist

\* Health, position by position.
CacheIsFetched == pc \in {"health", "succeeded"} => hit /\ latest = res
HealthAtStep ==
    /\ pc = "wait" => (err <=> reported > 0)
    /\ pc = "failed" => err
    /\ pc = "succeeded" => ~err
    /\ pc \notin {"down", "health"} /\ etag # Null => etag = latest.tag

IInv == TypeOK /\ PayloadMatchesValidator /\ AtStep /\ RowsAreChanges
        /\ CacheIsFetched /\ HealthAtStep

-----------------------------------------------------------------------------
\* The newest row after an Append and after a Prune.
LEMMA LastOfAppend ==
    ASSUME NEW S, NEW q \in Seq(S), NEW e \in S
    PROVE  /\ Append(q, e) \in Seq(S)
           /\ Append(q, e) # <<>>
           /\ Len(Append(q, e)) = Len(q) + 1
           /\ Last(Append(q, e)) = e
           /\ \A k \in 1..Len(q) : Append(q, e)[k] = q[k]
  BY DEF Last

\* What a prune leaves of the rows.
LEMMA SuffixFacts ==
    ASSUME NEW S, NEW q \in Seq(S), NEW k \in 1..Len(q)
    PROVE  /\ SubSeq(q, k + 1, Len(q)) \in Seq(S)
           /\ Len(SubSeq(q, k + 1, Len(q))) = Len(q) - k
           /\ \A i \in 1..(Len(q) - k) : SubSeq(q, k + 1, Len(q))[i] = q[k + i]
           /\ k < Len(q) => /\ SubSeq(q, k + 1, Len(q)) # <<>>
                            /\ Last(SubSeq(q, k + 1, Len(q))) = Last(q)
           /\ k = Len(q) => SubSeq(q, k + 1, Len(q)) = <<>>
<1> DEFINE s == SubSeq(q, k + 1, Len(q))
<1>0. Len(q) \in Nat /\ k \in Nat /\ k + 1 \in 1..(Len(q) + 1)
  OBVIOUS
<1>1. /\ s \in Seq(S)
      /\ Len(s) = IF k + 1 <= Len(q) THEN Len(q) - (k + 1) + 1 ELSE 0
      /\ \A i \in 1..(Len(q) - (k + 1) + 1) : s[i] = q[(k + 1) + i - 1]
  BY <1>0, SubSeqProperties
<1>2. Len(s) = Len(q) - k
  BY <1>0, <1>1
<1>3. \A i \in 1..(Len(q) - k) : s[i] = q[k + i]
  BY <1>0, <1>1
<1>4. k < Len(q) => s # <<>> /\ Last(s) = Last(q)
  <2> SUFFICES ASSUME k < Len(q)
               PROVE  s # <<>> /\ Last(s) = Last(q)
    OBVIOUS
  <2>1. Len(s) \in 1..(Len(q) - k) /\ k + Len(s) = Len(q)
    BY <1>0, <1>2
  <2>2. s[Len(s)] = q[Len(q)]
    BY <1>3, <2>1
  <2>3. Len(<<>>) = 0
    OBVIOUS
  <2>4. Len(s) # 0
    BY <1>0, <2>1
  <2>5. s # <<>>
    BY <2>3, <2>4, Zenon
  <2>. QED BY <2>2, <2>5 DEF Last
<1>5. k = Len(q) => s = <<>>
  <2>1. s # <<>> => Len(s) \in Nat \ {0}
    BY <1>1, EmptySeq
  <2>. QED BY <1>0, <1>2, <2>1
<1>. QED BY <1>1, <1>2, <1>3, <1>4, <1>5

\* Copying a list twice is copying it once, and a nil slice stays nil.
LEMMA CopyTwice == \A p : Copied(Copied(p)) = Copied(p)
  BY DEF Copied, Null
-----------------------------------------------------------------------------
\* Types.
LEMMA TypeInit == Init => TypeOK
<1> SUFFICES ASSUME Init
             PROVE  TypeOK
  OBVIOUS
<1>1. None \in Results
  BY DEF None, Results, Null
<1>2. <<>> \in Seq(Results)
  OBVIOUS
<1>3. /\ changes \in 0..MaxChanges /\ crashes \in 0..MaxCrashes
      /\ fails \in 0..MaxFailures /\ reported \in 0..MaxFailures
  BY PipelineAssumption DEF Init
<1>4. etag \in Tagged \cup {Null} /\ seen \in Versions \cup {Null}
  BY DEF Init
<1>5. rows \in Seq(Results)
  BY <1>2 DEF Init
<1>. QED BY <1>1, <1>3, <1>4, <1>5 DEF Init, TypeOK

\* Every step keeps the types.
LEMMA TypeStep == TypeOK /\ [Next]_vars => TypeOK'
<1> SUFFICES ASSUME TypeOK, [Next]_vars
             PROVE  TypeOK'
  OBVIOUS
<1> USE PipelineAssumption
<1>n. /\ None \in Results
      /\ Null \in Tagged \cup {Null}
      /\ \A r \in Results : r.tag \in Tagged \cup {Null} /\ r.payload \in Versions \cup {Null}
      /\ \A t \in Tagged \cup {Null}, v \in Versions \cup {Null} :
            [tag |-> t, payload |-> v] \in Results /\ Copied(v) \in Versions \cup {Null}
      /\ rows # <<>> => Last(rows) \in Results
  <2>1. rows # <<>> => Len(rows) \in 1..Len(rows)
    BY EmptySeq DEF TypeOK
  <2>2. rows # <<>> => Last(rows) \in Results
    BY <2>1, ElementOfSeq DEF TypeOK, Last
  <2>. QED BY <2>2 DEF None, Null, Results, Copied
<1>1. CASE Tick
  <2>1. CASE StartTick
    BY <2>1 DEF StartTick, TypeOK, sourceVars, cacheVars, healthVars, histVars
  <2>2. CASE Fetch200
    BY <2>2, <1>n DEF Fetch200, TypeOK, TagOf, cacheVars, healthVars, histVars
  <2>3. CASE Fetch304
    BY <2>3, <1>n DEF Fetch304, TypeOK, cacheVars, healthVars, histVars
  <2>4. CASE FetchFails
    BY <2>4 DEF FetchFails, TypeOK, sourceVars, cacheVars, histVars
  <2>5. CASE Decide
    BY <2>5 DEF Decide, TypeOK, sourceVars, cacheVars, healthVars, histVars
  <2>6. CASE Persist
    <3>1. rows' \in Seq(Results)
      BY <2>6, LastOfAppend DEF Persist, TypeOK
    <3>. QED BY <2>6, <3>1 DEF Persist, TypeOK, sourceVars, cacheVars, healthVars
  <2>7. CASE PersistFails
    BY <2>7 DEF PersistFails, TypeOK, sourceVars, cacheVars, healthVars
  <2>8. CASE SetCache
    BY <2>8, <1>n DEF SetCache, TypeOK, sourceVars, healthVars, histVars
  <2>9. CASE Succeed
    BY <2>9, <1>n DEF Succeed, TypeOK, sourceVars, cacheVars, histVars
  <2>10. CASE EndTick
    <3>1. fails' \in 0..MaxFailures /\ reported' = fails'
      BY <2>10 DEF EndTick, TypeOK
    <3>. QED BY <2>10, <3>1 DEF EndTick, TypeOK, sourceVars, cacheVars
  <2>. QED BY <1>1, <2>1, <2>2, <2>3, <2>4, <2>5, <2>6, <2>7, <2>8, <2>9, <2>10 DEF Tick
<1>2. CASE Boot
  <2>1. /\ latest' \in Results
        /\ seen' \in Versions \cup {Null}
        /\ hit' \in BOOLEAN
        /\ prior' \in Results
        /\ res' \in Results
    BY <1>2, <1>n DEF Boot
  <2>2. faults' \in BOOLEAN
    BY <1>2 DEF Boot, TypeOK
  <2>3. fails' \in 0..MaxFailures /\ reported' \in 0..MaxFailures
    BY <1>2 DEF Boot
  <2>. QED BY <1>2, <2>1, <2>2, <2>3 DEF Boot, TypeOK, Null
<1>3. CASE Stop
  BY <1>3 DEF Stop, TypeOK, sourceVars, cacheVars, healthVars, histVars
<1>4. CASE Change
  BY <1>4 DEF Change, TypeOK, sourceVars, cacheVars, healthVars, histVars
<1>5. CASE Prune
  <2>1. rows' \in Seq(Results)
    BY <1>5, SuffixFacts DEF Prune, TypeOK
  <2>2. wiped' \in BOOLEAN
    BY <1>5 DEF Prune, TypeOK
  <2>. QED BY <1>5, <2>1, <2>2 DEF Prune, TypeOK, sourceVars, cacheVars, healthVars
<1>6. CASE UNCHANGED vars
  BY <1>6 DEF TypeOK, vars, sourceVars, cacheVars, healthVars, histVars
<1>. QED BY <1>1, <1>2, <1>3, <1>4, <1>5, <1>6 DEF Next
-----------------------------------------------------------------------------
\* Payloads stay with their validators.
LEMMA MatchesStep == TypeOK /\ PayloadMatchesValidator /\ [Next]_vars
                        => PayloadMatchesValidator'
<1> SUFFICES ASSUME TypeOK, PayloadMatchesValidator, [Next]_vars
             PROVE  PayloadMatchesValidator'
  OBVIOUS
<1>a. Matches(prior) /\ Matches(res) /\ Matches(latest) /\ \A k \in 1..Len(rows) : Matches(rows[k])
  BY DEF PayloadMatchesValidator
<1>n. Matches(None)
  BY DEF Matches, None
<1>l. rows # <<>> => Matches(Last(rows))
  <2>1. rows # <<>> => Len(rows) \in 1..Len(rows)
    BY EmptySeq DEF TypeOK
  <2>. QED BY <1>a, <2>1 DEF Last
<1>1. CASE Fetch200
  <2>1. Matches(res')
    BY <1>1 DEF Fetch200, Matches, TagOf
  <2>. QED BY <1>1, <1>a, <2>1 DEF Fetch200, PayloadMatchesValidator, cacheVars, Matches
<1>2. CASE Fetch304
  <2>1. prior.tag # Null /\ prior.payload \in {prior.tag, Copied(prior.tag)}
    BY <1>2, <1>a DEF Fetch304, Matches
  <2>2. Copied(prior.payload) = Copied(prior.tag)
    BY <2>1, CopyTwice
  <2>3. res' = [tag |-> prior.tag, payload |-> Copied(prior.payload)]
    BY <1>2 DEF Fetch304
  <2>4. Matches(res')
    BY <2>2, <2>3 DEF Matches
  <2>. QED BY <1>2, <1>a, <2>4 DEF Fetch304, PayloadMatchesValidator, cacheVars, Matches
<1>3. CASE Persist
  <2>1. /\ Len(rows') = Len(rows) + 1
        /\ Last(rows') = res
        /\ \A k \in 1..Len(rows) : rows'[k] = rows[k]
    BY <1>3, LastOfAppend DEF Persist, TypeOK
  <2>2. \A k \in 1..Len(rows') : rows'[k] = res \/ (k \in 1..Len(rows) /\ rows'[k] = rows[k])
    BY <2>1 DEF Last, TypeOK
  <2>3. \A k \in 1..Len(rows') : Matches(rows'[k])
    BY <1>a, <2>2
  <2>. QED BY <1>3, <1>a, <2>3 DEF Persist, PayloadMatchesValidator, sourceVars, cacheVars, Matches
<1>4. CASE SetCache
  BY <1>4, <1>a DEF SetCache, PayloadMatchesValidator, sourceVars, Matches
<1>5. CASE Boot
  <2>1. Matches(latest')
    BY <1>5, <1>n, <1>l DEF Boot
  <2>. QED BY <1>5, <1>a, <1>n, <2>1 DEF Boot, PayloadMatchesValidator, Matches
<1>6. CASE Prune
  <2>1. PICK k \in 1..Len(rows) : rows' = SubSeq(rows, k + 1, Len(rows))
    BY <1>6 DEF Prune
  <2>2. /\ Len(rows') = Len(rows) - k
        /\ \A i \in 1..(Len(rows) - k) : rows'[i] = rows[k + i]
    BY <2>1, SuffixFacts DEF TypeOK
  <2>3. \A i \in 1..Len(rows') : Matches(rows'[i])
    <3> SUFFICES ASSUME NEW i \in 1..Len(rows')
                 PROVE  Matches(rows'[i])
      OBVIOUS
    <3>1. k + i \in 1..Len(rows) /\ rows'[i] = rows[k + i]
      BY <2>2 DEF TypeOK
    <3>. QED BY <1>a, <3>1
  <2>. QED BY <1>6, <1>a, <2>3 DEF Prune, PayloadMatchesValidator, sourceVars, cacheVars, Matches
<1>7. CASE UNCHANGED <<prior, res, latest, rows>>
  BY <1>7, <1>a DEF PayloadMatchesValidator, Matches
<1>8. Next => \/ Fetch200 \/ Fetch304 \/ Persist \/ SetCache \/ Boot \/ Prune
              \/ UNCHANGED <<prior, res, latest, rows>>
  BY DEF Next, Tick, StartTick, FetchFails, Decide, PersistFails, Succeed, EndTick, Stop, Change,
         sourceVars, cacheVars
<1>9. UNCHANGED vars => UNCHANGED <<prior, res, latest, rows>>
  BY DEF vars, sourceVars, cacheVars
<1>. QED BY <1>1, <1>2, <1>3, <1>4, <1>5, <1>6, <1>7, <1>8, <1>9
-----------------------------------------------------------------------------
\* Prune keeps the newest row or deletes all and says so.
LEMMA PruneNewest ==
    ASSUME TypeOK, Prune
    PROVE  /\ rows # <<>>
           /\ rows' = <<>> \/ (rows' # <<>> /\ Last(rows') = Last(rows) /\ wiped' = wiped)
           /\ rows' = <<>> => wiped'
           /\ wiped => wiped'
<1>1. PICK k \in 1..Len(rows) : /\ rows' = SubSeq(rows, k + 1, Len(rows))
                               /\ wiped' = (wiped \/ k = Len(rows))
  BY DEF Prune
<1>2. k < Len(rows) \/ k = Len(rows)
  BY DEF TypeOK
<1>3. Len(rows) # 0
  BY DEF TypeOK
<1>4. rows # <<>>
  BY <1>3
<1>5. CASE k = Len(rows)
  <2>1. rows' = <<>> /\ wiped'
    BY <1>1, <1>5, SuffixFacts DEF TypeOK
  <2>. QED BY <1>4, <2>1
<1>6. CASE k < Len(rows)
  <2>1. rows' # <<>> /\ Last(rows') = Last(rows)
    BY <1>1, <1>6, SuffixFacts DEF TypeOK
  <2>2. k # Len(rows)
    BY <1>6 DEF TypeOK
  <2>3. wiped' = wiped
    BY <1>1, <2>2 DEF TypeOK
  <2>. QED BY <1>4, <2>1, <2>3
<1>. QED BY <1>2, <1>5, <1>6

\* Every step leads from the claim of its position to that of the next.
LEMMA AtStepStep == TypeOK /\ AtStep /\ [Next]_vars => AtStep'
<1> SUFFICES ASSUME TypeOK, AtStep, [Next]_vars
             PROVE  AtStep'
  OBVIOUS
<1> USE DEF AtStep, CacheKept, FetchKept, CacheNewest, FetchNewest, FetchRow, ToPersist, Kept, NewestIs
<1>1. CASE StartTick \/ Fetch200 \/ Fetch304 \/ FetchFails
  <2>1. /\ pc \in {"wait", "fetch"} /\ pc' \in {"fetch", "fetched", "failed"}
        /\ UNCHANGED <<cacheVars, rows, histVars>>
    BY <1>1 DEF StartTick, Fetch200, Fetch304, FetchFails
  <2>. QED BY <2>1 DEF cacheVars, histVars
<1>2. CASE Decide
  <2>1. /\ pc = "fetched" /\ UNCHANGED <<res, cacheVars, rows, histVars>>
        /\ \/ pc' = "persist" /\ (~hit \/ latest.tag # res.tag)
           \/ pc' = "set" /\ hit /\ latest.tag = res.tag
    BY <1>2 DEF Decide, sourceVars
  <2>. QED BY <2>1 DEF cacheVars, histVars
<1>3. CASE Persist
  <2>1. rows' # <<>> /\ Last(rows') = res
    BY <1>3, LastOfAppend DEF Persist, TypeOK
  <2>2. pc' = "set" /\ UNCHANGED <<res, cacheVars, faults>>
    BY <1>3 DEF Persist, sourceVars
  <2>. QED BY <2>1, <2>2
<1>4. CASE PersistFails
  <2>1. pc' = "set" /\ lost' /\ faults' /\ UNCHANGED <<res, cacheVars, rows>>
    BY <1>4 DEF PersistFails, sourceVars
  <2>. QED BY <2>1
<1>5. CASE SetCache
  <2>1. /\ pc = "set" /\ pc' = "health" /\ hit' /\ latest' = res
        /\ UNCHANGED <<rows, histVars>>
    BY <1>5 DEF SetCache
  <2>. QED BY <2>1 DEF histVars
<1>6. CASE Succeed \/ EndTick
  <2>1. /\ pc \in {"health", "failed", "succeeded"} /\ pc' \in {"succeeded", "wait"}
        /\ UNCHANGED <<cacheVars, rows, lost, wiped, faults>>
    BY <1>6 DEF Succeed, EndTick, histVars
  <2>. QED BY <2>1 DEF cacheVars
<1>7. CASE Boot
  <2>1. pc' = "wait" /\ UNCHANGED rows
    BY <1>7 DEF Boot
  <2>2. \/ rows # <<>> /\ hit' /\ latest' = Last(rows)
        \/ ~hit' /\ (faults' \/ rows = <<>>)
    BY <1>7 DEF Boot
  <2>. QED BY <2>1, <2>2
<1>8. CASE Stop
  <2>1. pc' = "down"
    BY <1>8 DEF Stop
  <2>. QED BY <2>1
<1>9. CASE Prune
  <2>1. UNCHANGED <<pc, res, cacheVars, lost, faults>>
    BY <1>9 DEF Prune, sourceVars
  <2>. QED BY <1>9, <2>1, PruneNewest DEF cacheVars
<1>10. CASE UNCHANGED <<pc, res, cacheVars, rows, histVars>>
  BY <1>10 DEF cacheVars, histVars
<1>11. Change \/ UNCHANGED vars => UNCHANGED <<pc, res, cacheVars, rows, histVars>>
  BY DEF Change, vars, sourceVars
<1>. QED BY <1>1, <1>2, <1>3, <1>4, <1>5, <1>6, <1>7, <1>8, <1>9, <1>10, <1>11 DEF Next, Tick
-----------------------------------------------------------------------------
\* A row is appended only for a version that the newest row does not have.
LEMMA AppendIsChange ==
    ASSUME TypeOK, AtStep, Persist, ~faults
    PROVE  rows = <<>> \/ Last(rows).tag # res.tag
<1>1. pc = "persist"
  BY DEF Persist
<1>2. ~hit \/ latest.tag # res.tag
  BY <1>1 DEF AtStep, ToPersist
<1>3. rows = <<>> \/ (hit /\ Last(rows).tag = latest.tag)
  BY <1>1 DEF AtStep, CacheNewest
<1>. QED BY <1>2, <1>3

\* Every step leaves adjacent rows different.
LEMMA RowsStep == TypeOK /\ AtStep /\ RowsAreChanges /\ [Next]_vars => RowsAreChanges'
<1> SUFFICES ASSUME TypeOK, AtStep, RowsAreChanges, [Next]_vars, ~faults'
             PROVE  \A k \in 2..Len(rows') : rows'[k].tag # rows'[k - 1].tag
  BY DEF RowsAreChanges
<1>1. CASE Persist
  <2>1. ~faults
    BY <1>1 DEF Persist
  <2>2. \A k \in 2..Len(rows) : rows[k].tag # rows[k - 1].tag
    BY <2>1 DEF RowsAreChanges
  <2>3. /\ Len(rows') = Len(rows) + 1
        /\ Last(rows') = res
        /\ \A k \in 1..Len(rows) : rows'[k] = rows[k]
    BY <1>1, LastOfAppend DEF Persist, TypeOK
  <2>4. Len(rows) \in Nat
    BY DEF TypeOK
  <2>5. ASSUME NEW k \in 2..Len(rows'), k <= Len(rows)
        PROVE  rows'[k].tag # rows'[k - 1].tag
    <3>1. k \in 2..Len(rows) /\ k \in 1..Len(rows) /\ k - 1 \in 1..Len(rows)
      BY <2>4, <2>5
    <3>. QED BY <2>2, <2>3, <3>1
  <2>6. ASSUME NEW k \in 2..Len(rows'), k = Len(rows) + 1
        PROVE  rows'[k].tag # rows'[k - 1].tag
    <3>1. k - 1 = Len(rows) /\ Len(rows) \in 1..Len(rows)
      BY <2>4, <2>6
    <3>2. rows'[k] = res /\ rows'[k - 1] = Last(rows)
      BY <2>3, <2>6, <3>1 DEF Last
    <3>3. rows # <<>>
      <4>1. Len(rows) # 0 /\ Len(<<>>) = 0
        BY <3>1
      <4>. QED BY <4>1, Zenon
    <3>. QED BY <1>1, <2>1, <3>2, <3>3, AppendIsChange
  <2>. QED BY <2>3, <2>4, <2>5, <2>6
<1>2. CASE Prune
  <2>1. ~faults
    BY <1>2 DEF Prune
  <2>2. PICK j \in 1..Len(rows) : rows' = SubSeq(rows, j + 1, Len(rows))
    BY <1>2 DEF Prune
  <2>3. /\ Len(rows') = Len(rows) - j
        /\ \A i \in 1..(Len(rows) - j) : rows'[i] = rows[j + i]
    BY <2>2, SuffixFacts DEF TypeOK
  <2>4. ASSUME NEW k \in 2..Len(rows')
        PROVE  rows'[k].tag # rows'[k - 1].tag
    <3>1. /\ k \in 1..(Len(rows) - j) /\ k - 1 \in 1..(Len(rows) - j)
          /\ j + k \in 2..Len(rows) /\ j + (k - 1) = (j + k) - 1
      BY <2>3 DEF TypeOK
    <3>2. rows'[k] = rows[j + k] /\ rows'[k - 1] = rows[(j + k) - 1]
      BY <2>3, <3>1
    <3>. QED BY <2>1, <3>1, <3>2 DEF RowsAreChanges
  <2>. QED BY <2>4
<1>3. CASE rows' = rows /\ (faults => faults')
  BY <1>3 DEF RowsAreChanges
<1>4. Boot => rows' = rows /\ (faults => faults')
  <2>1. Boot => faults' = faults \/ faults' = (faults \/ rows # <<>>)
    BY DEF Boot
  <2>2. Boot => rows' = rows
    BY DEF Boot
  <2>3. faults /\ faults' = (faults \/ rows # <<>>) => faults'
    BY Zenon
  <2>. QED BY <2>1, <2>2, <2>3, Zenon
<1>5. Tick => Persist \/ (rows' = rows /\ (faults => faults'))
  BY DEF Tick, StartTick, Fetch200, Fetch304, FetchFails, Decide, PersistFails, SetCache,
         Succeed, EndTick, histVars
<1>6. Stop \/ Change \/ UNCHANGED vars => rows' = rows /\ (faults => faults')
  BY DEF Stop, Change, vars, histVars
<1>. QED BY <1>1, <1>2, <1>3, <1>4, <1>5, <1>6 DEF Next
-----------------------------------------------------------------------------
\* Every step keeps the health record in agreement with its position.
LEMMA HealthStep == TypeOK /\ CacheIsFetched /\ HealthAtStep /\ [Next]_vars
                       => CacheIsFetched' /\ HealthAtStep'
<1> SUFFICES ASSUME TypeOK, CacheIsFetched, HealthAtStep, [Next]_vars
             PROVE  CacheIsFetched' /\ HealthAtStep'
  OBVIOUS
<1> USE DEF CacheIsFetched, HealthAtStep
<1>1. CASE StartTick \/ Fetch200 \/ Fetch304 \/ Decide \/ Persist \/ PersistFails
  <2>1. /\ pc \in {"wait", "fetch", "fetched", "persist"}
        /\ pc' \in {"fetch", "fetched", "persist", "set"}
        /\ UNCHANGED <<hit, latest, etag>>
    BY <1>1 DEF StartTick, Fetch200, Fetch304, Decide, Persist, PersistFails, cacheVars, healthVars
  <2>. QED BY <2>1
<1>2. CASE FetchFails
  <2>1. pc = "fetch" /\ pc' = "failed" /\ err' /\ UNCHANGED <<hit, latest, etag>>
    BY <1>2 DEF FetchFails, cacheVars
  <2>. QED BY <2>1
<1>3. CASE SetCache
  <2>1. pc' = "health" /\ hit' /\ latest' = res /\ UNCHANGED res
    BY <1>3 DEF SetCache, sourceVars
  <2>. QED BY <2>1
<1>4. CASE Succeed
  <2>1. /\ pc = "health" /\ pc' = "succeeded" /\ ~err' /\ etag' = res.tag
        /\ UNCHANGED <<hit, latest, res>>
    BY <1>4 DEF Succeed, cacheVars, sourceVars
  <2>. QED BY <2>1
<1>5. CASE EndTick
  <2>1. /\ pc \in {"failed", "succeeded"} /\ pc' = "wait"
        /\ UNCHANGED <<latest, etag, err>>
    BY <1>5 DEF EndTick, cacheVars
  <2>2. CASE pc = "failed"
    <3>1. err /\ fails' > 0 /\ reported' = fails'
      BY <1>5, <2>2, PipelineAssumption DEF EndTick, TypeOK
    <3>. QED BY <2>1, <2>2, <3>1
  <2>3. CASE pc = "succeeded"
    <3>1. ~err /\ ~(reported' > 0)
      BY <1>5, <2>3 DEF EndTick
    <3>. QED BY <2>1, <2>3, <3>1
  <2>. QED BY <2>1, <2>2, <2>3
<1>6. CASE Boot
  <2>1. pc' = "wait" /\ err' = FALSE /\ reported' = 0 /\ etag' = Null
    BY <1>6 DEF Boot
  <2>. QED BY <2>1
<1>7. CASE Stop
  <2>1. pc' = "down"
    BY <1>7 DEF Stop
  <2>. QED BY <2>1
<1>8. CASE UNCHANGED <<pc, hit, latest, res, err, reported, etag>>
  BY <1>8
<1>9. Change \/ Prune \/ UNCHANGED vars => UNCHANGED <<pc, hit, latest, res, err, reported, etag>>
  BY DEF Change, Prune, vars, sourceVars, cacheVars, healthVars
<1>. QED BY <1>1, <1>2, <1>3, <1>4, <1>5, <1>6, <1>7, <1>8, <1>9 DEF Next, Tick
-----------------------------------------------------------------------------
\* A process that starts has nothing.
LEMMA IInvInit == Init => IInv
<1> SUFFICES ASSUME Init
             PROVE  IInv
  OBVIOUS
<1>1. TypeOK
  BY TypeInit
<1>2. pc = "down" /\ prior = None /\ res = None /\ latest = None /\ rows = <<>> /\ Len(rows) = 0
  BY DEF Init
<1>3. PayloadMatchesValidator
  BY <1>2 DEF PayloadMatchesValidator, Matches, None
<1>4. AtStep
  BY <1>2 DEF AtStep, CacheKept, FetchKept, CacheNewest, FetchNewest, FetchRow, ToPersist
<1>5. RowsAreChanges
  BY <1>2 DEF RowsAreChanges
<1>6. CacheIsFetched /\ HealthAtStep
  BY <1>2 DEF CacheIsFetched, HealthAtStep
<1>. QED BY <1>1, <1>3, <1>4, <1>5, <1>6 DEF IInv

\* The conjunction holds always.
LEMMA IInvAlways == Spec => []IInv
<1>1. IInv /\ [Next]_vars => IInv'
  BY TypeStep, MatchesStep, AtStepStep, RowsStep, HealthStep DEF IInv
<1>. QED BY IInvInit, <1>1, PTL DEF Spec

\* The state keeps its types: the fetcher is always at one of its positions and
\* every stored row is a list some upstream version had.
THEOREM TypeCorrect == Spec => []TypeOK
<1>1. IInv => TypeOK
  BY DEF IInv
<1>. QED BY <1>1, IInvAlways, PTL

\* For any versions, failures and restarts, no payload is paired with another
\* version's validator, in memory or in a row (Fetch, tick, Append, hot start).
THEOREM PayloadsMatch == Spec => []PayloadMatchesValidator
<1>1. IInv => PayloadMatchesValidator
  BY DEF IInv
<1>. QED BY <1>1, IInvAlways, PTL

\* Between ticks the newest row is the cached version, unless storing it failed,
\* Prune deleted it or it has no validator (tick's persist-then-broadcast).
THEOREM StoreKeepsUpAlways == Spec => []StoreKeepsUp
<1>1. IInv => StoreKeepsUp
  BY DEF IInv, AtStep, CacheKept, Kept, NewestIs, StoreKeepsUp
<1>. QED BY <1>1, IInvAlways, PTL

\* Until an Append or a hot start fails, adjacent rows are different versions:
\* tick appends only what changed, and Prune takes away a prefix.
THEOREM HistoryHoldsChanges == Spec => []RowsAreChanges
<1>1. IInv => RowsAreChanges
  BY DEF IInv
<1>. QED BY <1>1, IInvAlways, PTL

\* Between ticks /api/sources reports an error exactly when it reports failures,
\* and after a success the cached validator, though tick and Run write health in
\* two critical sections.
THEOREM HealthIsConsistent == Spec => []HealthTellsTruth
<1>1. IInv => HealthTellsTruth
  BY DEF IInv, HealthAtStep, HealthTellsTruth
<1>. QED BY <1>1, IInvAlways, PTL

\* A version with a validator is in the newest row before cache.Set broadcasts
\* it, unless storing it failed or Prune came between.
THEOREM RowComesFirst == Spec => RowPrecedesBroadcast
<1>1. IInv /\ [Next]_vars =>
        [SetCache /\ Broadcasts /\ ~lost /\ ~wiped /\ res.tag # Null
            => rows # <<>> /\ Last(rows).payload = res.payload]_vars
  <2> SUFFICES ASSUME IInv, SetCache, Broadcasts, ~lost, ~wiped, res.tag # Null
               PROVE  rows # <<>> /\ Last(rows).payload = res.payload
    OBVIOUS
  <2>1. pc = "set" /\ (~hit \/ latest.tag # res.tag)
    BY DEF SetCache, Broadcasts
  <2>2. rows # <<>> /\ Last(rows) = res
    BY <2>1 DEF IInv, AtStep, FetchRow
  <2>. QED BY <2>2
<1>. QED BY <1>1, IInvAlways, PTL DEF RowPrecedesBroadcast, Spec
=============================================================================
