------------------------------ MODULE History ------------------------------
(***************************************************************************)
(* From a feed to what browsers and /api/history show of it: the parsers   *)
(* and validators of internal/sources, the decision of the fetcher and the *)
(* cache to store and broadcast, the prune of internal/server, the hot     *)
(* start, and the five answers of internal/api/history.go computed from    *)
(* the stored rows.                                                        *)
(*                                                                         *)
(* A behaviour is about one source, chosen with the configuration in Init. *)
(* Time is what makes it different from Pipeline: alerts age, rows leave   *)
(* the retention, windows move.  A tick of the fetcher is one step here    *)
(* and never fails after the fetch; Pipeline has its steps and failures.   *)
(***************************************************************************)
EXTENDS Sources, SnapshotRows

CONSTANTS Bodies,     \* Bodies[s]: what the upstream of source s may serve
          Options,    \* configurations: [products, window, ugcs, wfos, retention]
          Windows,    \* validWindows, in units of time
          BucketsMax, \* maxBucketsPerRequest
          ChangesMax, \* maxVolcanoChangesPerWin
          QuakesMax,  \* maxQuakeEventsPerWindow
          MinMag,     \* minQuakeMagnitude
          LookBack,   \* the 365 days of dataStartFor
          MaxTime,    \* bound: the time
          MaxRows     \* bound: rows of the source

\* JSON arrays are sequences.  validateRegionFilter lets no empty zone or office
\* through.
ASSUME FeedAssumption ==
    /\ \A n \in DOMAIN Bodies \ {"swpc_scales"} : \A b \in Bodies[n] \ {Malformed} : b \in Seq(ToSet(b))
    /\ "nws_alerts" \in DOMAIN Bodies =>
          \A b \in Bodies["nws_alerts"] \ {Malformed} : \A f \in ToSet(b) :
             /\ f.awips \in Seq(ToSet(f.awips))
             /\ f.awips # <<>> => f.awips[1].len \in Nat /\ f.awips[1].letters \in BOOLEAN
    /\ "swpc_alerts" \in DOMAIN Bodies =>
          \A b \in Bodies["swpc_alerts"] \ {Malformed} : \A r \in ToSet(b) : r.issued = BadTime \/ r.issued \in Int
    /\ \A o \in Options : o.window \in Nat /\ o.retention \in Nat /\ "" \notin o.ugcs \cup o.wfos

ASSUME HistoryAssumption ==
    /\ DOMAIN Bodies \subseteq Names
    /\ BucketsMax \in Nat \ {0} /\ ChangesMax \in Nat \ {0} /\ QuakesMax \in Nat \ {0}
    /\ Windows \subseteq Nat \ {0}
    /\ MaxTime \in Nat /\ MaxRows \in Nat \ {0} /\ LookBack \in Nat

VARIABLES name,   \* the source
          opt,    \* the configuration
          now,    \* the time
          up,     \* what the upstream serves: [body, etag]
          cached, \* the cache slot: <<>> or <<[payload, validator]>>
          shown,  \* what a client connected since boot displays: <<>> or <<payload>>
          rows,   \* the source's rows, oldest first
          asked   \* history: <<up>> as the poll of this instant saw it, or <<>>

vars == <<name, opt, now, up, cached, shown, rows, asked>>

Region == NewFilter(opt.ugcs, opt.wfos)

Init ==
    /\ name \in DOMAIN Bodies
    /\ opt \in Options
    /\ now = 0
    /\ \E b \in Bodies[name] : up = [body |-> b, etag |-> b]
    /\ cached = <<>>
    /\ shown = <<>>
    /\ rows = <<>>
    /\ asked = <<>>

\* An ETag identifies a body.
Publish ==
    /\ \E b \in Bodies[name] \ {up.body} : up' = [body |-> b, etag |-> b]
    /\ UNCHANGED <<name, opt, now, cached, shown, rows, asked>>

Advance ==
    /\ now < MaxTime
    /\ now' = now + 1
    /\ asked' = <<>>
    /\ UNCHANGED <<name, opt, up, cached, shown, rows>>

\* Fetcher.tick: fetch, append and broadcast when the validator is a new one,
\* cache.Set in any case.  Two ticks of one source are an interval apart.
Poll ==
    /\ asked = <<>>
    /\ asked' = <<up>>
    /\ \/ /\ up.body = Malformed
          /\ UNCHANGED <<cached, shown, rows>>
       \/ /\ up.body # Malformed
          /\ LET res == Fetch(name, up, opt, now)
                 changed == cached = <<>> \/ cached[1].validator # res.validator
             IN /\ cached' = <<res>>
                /\ IF changed
                   THEN /\ Len(rows) < MaxRows
                        /\ rows' = Append1(rows, [at |-> now, validator |-> res.validator,
                                                  payload |-> Encode(name, res.payload)])
                        /\ shown' = <<Filtered(name, Region, res.payload)>>
                   ELSE UNCHANGED <<rows, shown>>
    /\ UNCHANGED <<name, opt, now, up>>

\* Mutant of RetentionOf: the days are taken for hours.
RetentionOfHours(n) == n
RetentionOf(n) == Days(n)

\* runPrune, at boot and every six hours.
Prune ==
    /\ rows' = Pruned(rows, now, RetentionOf(opt.retention))
    /\ UNCHANGED <<name, opt, now, up, cached, shown, asked>>

\* The process stops and a new one fills its cache from store.Latest.  It may
\* poll in the instant the old one did.
Restart ==
    /\ IF rows = <<>>
       THEN cached' = <<>> /\ shown' = <<>>
       ELSE LET payload == HotStartDecode(name, LatestRow(rows).payload)
            IN /\ cached' = <<[payload |-> payload, validator |-> LatestRow(rows).validator]>>
               /\ shown' = <<Filtered(name, Region, payload)>>
    /\ asked' = <<>>
    /\ UNCHANGED <<name, opt, now, up, rows>>

Next == Publish \/ Advance \/ Poll \/ Prune \/ Restart
Spec == Init /\ [][Next]_vars

---------------------------------------------------------------------------
(* GET /api/history?source=name&window=w at the time now.                  *)
From(w) == now - w

DataStartFor(from) ==
    LET rs == RowRange(rows, from - LookBack, now)
    IN IF rs = <<>> \/ rs[1].at <= from THEN from ELSE rs[1].at

MaxOf(S) == Max(S \cup {0})

Counters ==
    [tornado      |-> {"Tornado Warning", "Tornado Watch", "Tornado Emergency"},
     severeTstorm |-> {"Severe Thunderstorm Warning", "Severe Thunderstorm Watch"},
     flashFlood   |-> {"Flash Flood Warning", "Flash Flood Watch", "Flash Flood Emergency"}]
Counted(payload, c) == Cardinality({i \in DOMAIN payload : FieldOr(payload[i], "event", "") \in Counters[c]})

\* nws_alerts: the largest counts of each bucket.
\* Mutant of NWSPoint: the last row stands for the bucket.
NWSPointLast(b) ==
    LET last == b.rows[Len(b.rows)].payload.of
    IN [at |-> b.start, activeCount |-> Len(last), eventCounts |-> [c \in DOMAIN Counters |-> Counted(last, c)]]
NWSPoint(b) ==
    LET arrays == {b.rows[i].payload.of : i \in {j \in DOMAIN b.rows : Decodes(b.rows[j].payload, "array")}}
    IN [at          |-> b.start,
        activeCount |-> MaxOf({Len(a) : a \in arrays}),
        eventCounts |-> [c \in DOMAIN Counters |-> MaxOf({Counted(a, c) : a \in arrays})]]

\* swpc_scales: `today' of the last row of each bucket.
NoToday == [gScale |-> 0, r1MinorProb |-> 0, s1MinorProb |-> 0]
ScalesPoint(b) ==
    LET today == FieldOr(b.rows[Len(b.rows)].payload.of, "today", NoToday)
    IN [at |-> b.start, gScale |-> today.gScale, r1 |-> today.r1MinorProb, s1 |-> today.s1MinorProb]

\* swpc_alerts: the severities in the last row of each bucket.
AlertsPoint(b) ==
    LET last == b.rows[Len(b.rows)].payload.of
        Of(S) == Cardinality({i \in DOMAIN last : FieldOr(last[i], "severity", "") \in S})
        warning == Of({"Warning", "WARNING", "warning"})
        watch == Of({"Watch", "WATCH", "watch"})
    IN [at |-> b.start, warning |-> warning, watch |-> watch, alert |-> Len(last) - warning - watch]

Buckets(w) == RangeBuckets(rows, From(w), now, BucketsMax)

\* usgs_quakes: the features of each row that is an object, from MinMag on,
\* each once, the first QuakesMax of them.
FeaturesOf(raw) == IF Decodes(raw, "object") THEN FieldOr(raw.of, "features", <<>>) ELSE <<>>
QuakeEvents(w) ==
    LET rs == RowRange(rows, From(w), now)
        all == FlattenSeq([i \in DOMAIN rs |-> FeaturesOf(rs[i].payload)])
        strong == Picked(all, {i \in DOMAIN all : all[i].mag >= MinMag})
        first == {i \in DOMAIN strong : \A j \in 1..(i - 1) : strong[j] # strong[i]}
    IN {strong[i] : i \in {j \in first : Cardinality({k \in first : k < j}) < QuakesMax}}

\* usgs_volcanoes: the levels of a row by observatory and name, read from a
\* field of its records.
VolcanoKey(e) == <<FieldOr(e, "observatory", ""), FieldOr(e, "name", "")>>
LevelsOf(row, field) ==
    LET list == row.payload.of
        keys == {VolcanoKey(list[i]) : i \in DOMAIN list}
    IN [k \in keys |-> LET last == Max({i \in DOMAIN list : VolcanoKey(list[i]) = k})
                       IN FieldOr(list[last], field, "")]
FeedsBy(w, field) ==
    LET rs == RowRange(rows, From(w), now)
    IN ChangeFeeds(rs, [i \in DOMAIN rs |-> LevelsOf(rs[i], field)], ChangesMax)
VolcanoFeeds(w) == FeedsBy(w, "alertLevel")

---------------------------------------------------------------------------
(* Properties.                                                             *)

\* What the operator asked to see of a body: alerts of the named regions,
\* products of the allowlist not older than the window.
InRegion(f) ==
    \/ opt.ugcs = {} /\ opt.wfos = {}
    \/ f.ugcs \cap opt.ugcs # {}
    \/ f.awips # <<>> /\ f.awips[1].len >= 6 /\ f.awips[1].letters /\ f.awips[1].tail \in opt.wfos
Wanted(body) ==
    CASE name = "nws_alerts"  -> ParseNWSAlerts(Picked(body, {i \in DOMAIN body : InRegion(body[i])}))
      [] name = "swpc_alerts" ->
            LET recent == {i \in DOMAIN body : /\ body[i].id \in opt.products
                                               /\ body[i].issued # BadTime /\ now - body[i].issued <= opt.window}
                Shown(r) == [code |-> r.id, issued |-> r.issued]
            IN Apply(Shown, Picked(body, recent))
      [] OTHER -> Parse(name, body, opt, now)

\* After a poll that succeeded, a connected client displays what the operator
\* asked to see of the body the poll read: a change, an alert that aged out of
\* its window and a return to an earlier body all have a new validator and so
\* are broadcast, and the filter drops and keeps the right alerts.
ClientsShowFeed ==
    asked # <<>> /\ asked[1].body # Malformed => shown = <<Wanted(asked[1].body)>>

\* An answer covers its window: the buckets hold every row once, in order; no
\* bucket spans more than its length; there are at most as many as asked for, and
\* one more when a row lies exactly on the end of the window.  And where "data
\* starts here" lies inside the window there is a row at it and none before it,
\* but for rows the look-back does not reach.  The last point of the alerts chart
\* counts the alerts the page lists, when the newest row is of their version.
AnswerCoversWindow ==
    \A w \in Windows :
        LET bs == Buckets(w)
            onEnd == \E i \in DOMAIN rows : rows[i].at = now
            start == DataStartFor(From(w))
        IN /\ FlattenSeq([b \in DOMAIN bs |-> bs[b].rows]) = RowRange(rows, From(w), now)
           /\ \A b \in DOMAIN bs : bs[b].rows[Len(bs[b].rows)].at - bs[b].start < CeilDiv(w, BucketsMax)
           /\ Len(bs) <= BucketsMax + (IF onEnd THEN 1 ELSE 0)
           /\ start > From(w) =>
                 /\ \E i \in DOMAIN rows : rows[i].at = start
                 /\ \A i \in DOMAIN rows : rows[i].at < start => rows[i].at < From(w) - LookBack
           /\ name = "swpc_alerts" /\ bs # <<>> /\ LatestRow(rows).validator = cached[1].validator =>
                 LET p == AlertsPoint(bs[Len(bs)]) IN p.warning + p.watch + p.alert = Len(cached[1].payload)

\* No peak of the alert counts is lost to downsampling, an alert the front page
\* files as tornado, thunderstorm or flood is in the count of that name, and no
\* category counts more alerts than were active.
PeakNotMissed ==
    name = "nws_alerts" =>
    \A w \in Windows :
        LET pts == Apply(NWSPoint, Buckets(w))
            rs == RowRange(rows, From(w), now)
            Filed(i, cat) == Cardinality({k \in DOMAIN rs[i].payload.of : rs[i].payload.of[k].category = cat})
            Peak(c) == MaxOf({pts[p].eventCounts[c] : p \in DOMAIN pts})
        IN /\ MaxOf({pts[p].activeCount : p \in DOMAIN pts}) = MaxOf({Len(rs[i].payload.of) : i \in DOMAIN rs})
           /\ \A i \in DOMAIN rs : /\ Filed(i, "Tornado") <= Peak("tornado")
                                 /\ Filed(i, "SevereThunderstorm") <= Peak("severeTstorm")
                                 /\ Filed(i, "FlashFlood") <= Peak("flashFlood")
           /\ \A p \in DOMAIN pts, c \in DOMAIN Counters : pts[p].eventCounts[c] <= pts[p].activeCount

LevelIn(L, v) == FieldOr(L, v, "")
\* The level after the changes in S, if it was first before them.
After(S, first) == IF S = {} THEN first ELSE (CHOOSE c \in S : \A d \in S : d.at <= c.at).current
Explains(out, rs, field) ==
    \A i \in DOMAIN rs :
        Cardinality(out) < ChangesMax \/ (\E c \in out : rs[i].at < c.at) =>
        \A v \in UNION {DOMAIN LevelsOf(rs[j], field) : j \in DOMAIN rs} :
            After({c \in out : c.volcano = v /\ c.at <= rs[i].at}, LevelIn(LevelsOf(rs[1], field), v))
                = LevelIn(LevelsOf(rs[i], field), v)

\* The feed of volcano changes explains the levels: replaying it up to a row
\* before its last entry (to the end, if the cap was not met) turns the levels of
\* the window's first row into the levels of that row, appearances, changes of
\* level and disappearances alike, whatever the cap dropped.  That is so for the
\* field the store asks for, and for the one in which the rows have their levels.
VolcanoFeedExplains ==
    name = "usgs_volcanoes" =>
    \A w \in Windows, field \in {"alertLevel", "alert"} : \A out \in FeedsBy(w, field) :
        Explains(out, RowRange(rows, From(w), now), field)

\* No step deletes a row younger than the retention the operator configured, as
\* long as that many days fit into a Duration.
RecentRowsSurvive ==
    [][~DaysOverflow(opt.retention) =>
          \A i \in DOMAIN rows : now - rows[i].at <= opt.retention * DayLen =>
              \E j \in DOMAIN rows' : rows'[j] = rows[i]]_vars

\* history.go:346 and 226-228 and volcanoes_diff.go:11-16 and 28-30 say what the
\* stored payloads look like: a quake of magnitude MinMag or more that a row of the
\* window holds is an event of the answer, as far as the cap allows; a point of
\* the scales shows the first day of its bucket's last row; and two adjacent rows
\* that give a volcano different levels are a change of the feed, likewise.
HistoryReadsStored ==
    \A w \in Windows :
        LET rs == RowRange(rows, From(w), now)
            bs == Buckets(w)
            quakes == UNION {ToSet(rs[i].payload.of) : i \in DOMAIN rs}
            strong == {q \in quakes : q.magnitude >= MinMag}
        IN /\ name = "usgs_quakes" => Cardinality(QuakeEvents(w)) = Min({Cardinality(strong), QuakesMax})
           /\ name = "swpc_scales" =>
                 \A b \in DOMAIN bs : ScalesPoint(bs[b]).gScale = bs[b].rows[Len(bs[b].rows)].payload.of.days[1].g
           /\ name = "usgs_volcanoes" =>
                 \A out \in VolcanoFeeds(w) : Cardinality(out) < ChangesMax =>
                    \A i \in DOMAIN rs \ {1} : \A e \in ToSet(rs[i - 1].payload.of), f \in ToSet(rs[i].payload.of) :
                       e.id = f.id /\ e.alert # f.alert =>
                          \E c \in out : c.at = rs[i].at /\ c.prior = e.alert /\ c.current = f.alert
=============================================================================
