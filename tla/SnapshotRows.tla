---------------------------- MODULE SnapshotRows ----------------------------
(***************************************************************************)
(* The queries of internal/store over the rows of one source: a sequence   *)
(* of [at, validator, payload] in the order of at.                         *)
(*                                                                         *)
(* Times are in seconds; a time.Duration is a signed integer of Width      *)
(* values, DayLen of which make a day, and wraps around.                   *)
(***************************************************************************)
EXTENDS Integers, Sequences, FiniteSets, FiniteSetsExt, SequencesExt, Selection

CONSTANTS DayLen, \* one day, in units of time
          Width  \* values of a Duration: -(Width \div 2) .. Width \div 2 - 1

ASSUME RowsAssumption == DayLen \in Nat \ {0} /\ Width \in Nat \ {0} /\ Width % 2 = 0

\* time.Duration(n) * 24 * time.Hour, in two's complement.
Days(n) == ((n * DayLen + Width \div 2) % Width) - (Width \div 2)
DaysOverflow(n) == n * DayLen >= Width \div 2

\* INSERT ... ON CONFLICT(source, fetched_at) DO NOTHING: of two rows of one
\* instant the first stays.
Append1(rows, row) ==
    IF \E i \in DOMAIN rows : rows[i].at = row.at THEN rows ELSE rows \o <<row>>

LatestRow(rows) == rows[Len(rows)]

\* The rows in [from, to].
RowRange(rows, from, to) == Picked(rows, {i \in DOMAIN rows : from <= rows[i].at /\ rows[i].at <= to})

\* Prune keeps what is not older than now - retention.
Pruned(rows, now, retention) == Picked(rows, {i \in DOMAIN rows : rows[i].at >= now - retention})

CeilDiv(a, b) == (a + b - 1) \div b

\* Mutant of BucketLen: the division rounds down.
BucketLenFloor(total, n) == IF total \div n < 1 THEN 1 ELSE total \div n
BucketLen(total, n) == IF CeilDiv(total, n) < 1 THEN 1 ELSE CeilDiv(total, n)

\* RangeBuckets without the aggregation: a row whose index is not that of the row
\* before starts a bucket, which has the time of that row.
RangeBuckets(rows, from, to, n) ==
    LET all == RowRange(rows, from, to)
        Index(i) == (all[i].at - from) \div BucketLen(to - from, n)
        starts == {i \in DOMAIN all : i = 1 \/ Index(i) # Index(i - 1)}
        Until(b) == IF b = Cardinality(starts) THEN Len(all) ELSE Nth(starts, b + 1) - 1
    IN [b \in 1..Cardinality(starts) |->
           [start |-> all[Nth(starts, b)].at, rows |-> SubSeq(all, Nth(starts, b), Until(b))]]

---------------------------------------------------------------------------
\* VolcanoStateChanges.  seen[i] maps the volcanoes of rows[i] to levels.
\* Mutant of ChangesBetween: a volcano in both lists is taken for unchanged.
ChangesOfMembers(at, prev, cur) ==
    {[at |-> at, volcano |-> v, prior |-> "", current |-> cur[v], gone |-> FALSE] : v \in DOMAIN cur \ DOMAIN prev}
    \cup {[at |-> at, volcano |-> v, prior |-> prev[v], current |-> "", gone |-> TRUE] : v \in DOMAIN prev \ DOMAIN cur}

ChangesBetween(at, prev, cur) ==
    {[at |-> at, volcano |-> v, prior |-> IF v \in DOMAIN prev THEN prev[v] ELSE "", current |-> cur[v], gone |-> FALSE] :
        v \in {u \in DOMAIN cur : u \notin DOMAIN prev \/ prev[u] # cur[u]}}
    \cup {[at |-> at, volcano |-> v, prior |-> prev[v], current |-> "", gone |-> TRUE] : v \in DOMAIN prev \ DOMAIN cur}

AllChanges(rows, seen) ==
    UNION {ChangesBetween(rows[i].at, seen[i - 1], seen[i]) : i \in 2..Len(rows)}

\* A map is walked in any order, so a cap may keep any of the changes of the
\* row it falls in, appearances and level changes before disappearances.
\* gone stands for that order only; it is not in the answer.
Before(c, d) == c.at < d.at \/ (c.at = d.at /\ ~c.gone /\ d.gone)
ChangeFeeds(rows, seen, max) ==
    LET all == AllChanges(rows, seen)
    IN {out \in SUBSET all :
            /\ Cardinality(out) = Min({max, Cardinality(all)})
            /\ \A c \in all \ out, d \in out : ~Before(c, d)}
=============================================================================
