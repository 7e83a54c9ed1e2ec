------------------------------ MODULE MCServer ------------------------------
(* A small instance of Server: two sources, one image, a few setups. *)
EXTENDS Server, TLC

CONSTANTS nws_alerts, usgs_quakes, outlook, stream

TwoSources == {nws_alerts, usgs_quakes}
TwoIntervals == [n \in TwoSources |-> IF n = nws_alerts THEN 3 ELSE 6]
FewFailures == [w \in TwoSources \cup {outlook} |-> IF w = outlook THEN 4 ELSE 0]
OneImage == [k \in {outlook} |-> 12]

NoEnv == [flag |-> "", cwdConfig |-> "", xdgConfig |-> "", home |-> "home.yaml",
          scalars |-> None, prewarm |-> None, intervals |-> None, sources |-> None]

\* One source and the image; intervals that are too small or do not parse.
FullFile ==
    [scalars   |-> "hot_max_bytes" :> 0 @@ "retention_days" :> 7,
     sources   |-> usgs_quakes :> ("enabled" :> FALSE) @@ nws_alerts :> ("interval" :> 5),
     intervals |-> outlook :> 10,
     products  |-> {"K09A", "k-index"},
     prewarm   |-> {outlook, "unknown"},
     window    |-> -1,
     region    |-> {"KYC001", "Kentucky"}]
NullFile == [sources |-> Null, intervals |-> Null, prewarm |-> Null, products |-> Null]

Overrides ==
    [NoEnv EXCEPT !.flag = "full.yaml",
                  !.scalars = "retention_days" :> 9 @@ "disk_max_bytes" :> Invalid,
                  !.intervals = outlook :> 2,
                  !.prewarm = <<{}>>,
                  !.sources = nws_alerts :> ("interval" :> Invalid @@ "enabled" :> FALSE) @@ usgs_quakes :> ("enabled" :> TRUE @@ "interval" :> -4)]
Quiet == [NoEnv EXCEPT !.cwdConfig = "null.yaml", !.intervals = outlook :> 0, !.scalars = "hot_max_entries" :> 5,
                       !.sources = usgs_quakes :> ("enabled" :> FALSE @@ "interval" :> 0)]

Files == "full.yaml" :> FullFile @@ "null.yaml" :> NullFile @@ "bad.yaml" :> Invalid
Of(env) == [env |-> env, files |-> Files]

MCSetups ==
    "overrides" :> Of(Overrides) @@ "quiet" :> Of(Quiet)
    @@ "file" :> Of([NoEnv EXCEPT !.flag = "full.yaml"])
    @@ "malformed" :> Of([NoEnv EXCEPT !.flag = "bad.yaml"])
    @@ "missing" :> Of([NoEnv EXCEPT !.xdgConfig = "absent.yaml"])
    @@ "refused" :> Of([NoEnv EXCEPT !.scalars = "log_level" :> "loud"])
=============================================================================
