------------------------------ MODULE Sources ------------------------------
(***************************************************************************)
(* The five feeds of internal/sources as functions of an upstream body:    *)
(* the parsers, the validators Fetch computes, the region filter, the      *)
(* JSON a payload is stored as and the decoding of a hot start.            *)
(*                                                                         *)
(* A Go struct is a record whose fields are its JSON names, so that what   *)
(* another package finds in a stored payload follows from the names it     *)
(* asks for (FieldOr).  Fields no other part of the server reads are left  *)
(* out.  A body that is not the JSON expected is Malformed.                *)
(***************************************************************************)
EXTENDS Integers, Sequences, FiniteSets, SequencesExt, Selection

CONSTANTS Malformed, \* a body json.Unmarshal rejects
          BadTime,   \* a timestamp time.Parse rejects
          NotANumber \* a string strconv.Atoi rejects

Names == {"nws_alerts", "swpc_scales", "swpc_alerts", "usgs_quakes", "usgs_volcanoes"}

Apply(F(_), s) == [i \in DOMAIN s |-> F(s[i])]

---------------------------------------------------------------------------
\* NWS alerts.  An AWIPS identifier is its length, its product (the first
\* three letters), its last three characters and whether these are A-Z.
NoAWIPS == [len |-> 0, product |-> "", tail |-> "", letters |-> FALSE]

Categories ==
    [Tornado            |-> {"Tornado Warning"},
     SevereThunderstorm |-> {"Severe Thunderstorm Warning"},
     FlashFlood         |-> {"Flash Flood Warning"},
     Tropical           |-> {"Storm Surge Warning", "Hurricane Warning", "Typhoon Warning", "Tropical Storm Warning"},
     HighWind           |-> {"High Wind Warning", "Extreme Wind Warning"},
     RedFlag            |-> {"Red Flag Warning"},
     Winter             |-> {"Winter Storm Warning", "Blizzard Warning", "Ice Storm Warning", "Snow Squall Warning"},
     ExtremeHeat        |-> {"Extreme Heat Warning"},
     ExtremeCold        |-> {"Extreme Cold Warning"}]

Categorize(event, awips) ==
    IF awips.len >= 3 /\ awips.product = "TSU" THEN "Tsunami"
    ELSE IF \E c \in DOMAIN Categories : event \in Categories[c]
         THEN CHOOSE c \in DOMAIN Categories : event \in Categories[c]
         ELSE "Unknown"

WfoFromAWIPS(awips) == IF awips.len < 6 \/ ~awips.letters THEN "" ELSE awips.tail

ParseSeverity(s) == IF s \in {"Extreme", "Severe", "Moderate", "Minor"} THEN s ELSE "Unknown"

\* A feature carries a sequence of AWIPS identifiers, of which the first counts.
Alert(f) ==
    LET awips == IF f.awips = <<>> THEN NoAWIPS ELSE Head(f.awips)
    IN [event    |-> f.event,
        severity |-> ParseSeverity(f.severity),
        ugcs     |-> f.ugcs,
        wfo      |-> WfoFromAWIPS(awips),
        category |-> Categorize(f.event, awips)]

ParseNWSAlerts(body) == Apply(Alert, body)

---------------------------------------------------------------------------
\* SWPC scales: days "1", "2", "3" of an object of strings.  A number that
\* does not parse is zero, a scale above five is five.
AtoiOrZero(s) == IF s = NotANumber THEN 0 ELSE s
GScaleFrom(s) == LET n == AtoiOrZero(s) IN IF n <= 0 THEN 0 ELSE IF n > 5 THEN 5 ELSE n

ZeroDay == [r1 |-> 0, s1 |-> 0, g |-> 0]
Day(d) == [r1 |-> AtoiOrZero(d.minor), s1 |-> AtoiOrZero(d.prob), g |-> GScaleFrom(d.scale)]

ParseSWPCScales(body) ==
    [days |-> [i \in 1..3 |-> IF i \in DOMAIN body THEN Day(body[i]) ELSE ZeroDay]]

---------------------------------------------------------------------------
\* SWPC alerts: products of the allowlist issued within the window before now.
ParseSWPCAlerts(body, allow, window, now) ==
    LET kept == {i \in DOMAIN body : /\ body[i].id \in allow
                                     /\ body[i].issued # BadTime /\ body[i].issued >= now - window}
        Entry(r) == [code |-> r.id, issued |-> r.issued]
    IN Apply(Entry, Picked(body, kept))

---------------------------------------------------------------------------
\* USGS quakes, the strongest first; quakes of one magnitude keep their order.
Quake(f) == [id |-> f.id, magnitude |-> f.mag, time |-> f.time]
ParseUSGSQuakes(body) ==
    LET Stronger(i, j) == body[i].mag > body[j].mag \/ (body[i].mag = body[j].mag /\ i < j)
        order == SetToSortSeq(DOMAIN body, Stronger)
    IN [i \in DOMAIN body |-> Quake(body[order[i]])]

\* USGS volcanoes above NORMAL.  The order (region, name) is left out.
ParseUSGSVolcanoes(body) ==
    LET elevated == {i \in DOMAIN body : body[i].level \notin {"NORMAL", ""}}
        Volcano(r) == [id |-> r.id, name |-> r.name, region |-> r.region, alert |-> r.level]
    IN Apply(Volcano, Picked(body, elevated))

---------------------------------------------------------------------------
\* What Fetch makes of a 200: swpc_alerts hashes the payload, because it ages
\* without the body changing; the USGS feeds pass on the ETag, the others hash
\* the body.  up is [body, etag]; opt is what server.Run configured.
Parse(name, body, opt, now) ==
    CASE name = "nws_alerts"     -> ParseNWSAlerts(body)
      [] name = "swpc_scales"    -> ParseSWPCScales(body)
      [] name = "swpc_alerts"    -> ParseSWPCAlerts(body, opt.products, opt.window, now)
      [] name = "usgs_quakes"    -> ParseUSGSQuakes(body)
      [] name = "usgs_volcanoes" -> ParseUSGSVolcanoes(body)

\* Mutant of ValidatorOf: swpc_alerts hashes the body like the other SWPC feed.
ValidatorOfBody(name, up, payload) ==
    IF name \in {"usgs_quakes", "usgs_volcanoes"} THEN [etag |-> up.etag] ELSE [sha256 |-> up.body]

ValidatorOf(name, up, payload) ==
    CASE name \in {"nws_alerts", "swpc_scales"}    -> [sha256 |-> up.body]
      [] name = "swpc_alerts"                      -> [sha256 |-> payload]
      [] name \in {"usgs_quakes", "usgs_volcanoes"} -> [etag |-> up.etag]

Fetch(name, up, opt, now) ==
    LET payload == Parse(name, up.body, opt, now)
    IN [payload |-> payload, validator |-> ValidatorOf(name, up, payload)]

---------------------------------------------------------------------------
\* The region filter: no entries match everything; otherwise a shared UGC or
\* the issuing office.
NewFilter(ugcs, wfos) == [ugcs |-> ugcs \ {""}, wfos |-> wfos \ {""}]
MatchAll(f) == f.ugcs = {} /\ f.wfos = {}
\* Mutant of Match: an alert must match in both ways.
MatchBoth(f, a) == MatchAll(f) \/ (a.ugcs \cap f.ugcs # {} /\ a.wfo \in f.wfos)

Match(f, a) ==
    \/ MatchAll(f)
    \/ a.ugcs \cap f.ugcs # {}
    \/ a.wfo # "" /\ a.wfo \in f.wfos

\* /api/snapshot and the SSE frames filter nws_alerts and nothing else.
Filtered(name, f, payload) ==
    IF name = "nws_alerts" THEN Picked(payload, {i \in DOMAIN payload : Match(f, payload[i])}) ELSE payload

---------------------------------------------------------------------------
\* encoding/json: a slice becomes an array, a struct an object.
Encode(name, payload) ==
    [json |-> IF name = "swpc_scales" THEN "object" ELSE "array", of |-> payload]

\* Unmarshal into a slice or a struct: the error of a wrong kind, and the zero
\* value of a field the object does not have.
Decodes(raw, kind) == raw.json = kind
FieldOr(obj, name, zero) == IF name \in DOMAIN obj THEN obj[name] ELSE zero

\* hotStartDecode uses the types that were encoded.
HotStartDecode(name, raw) == raw.of
=============================================================================
