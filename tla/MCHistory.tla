----------------------------- MODULE MCHistory -----------------------------
(* A small instance of History: a few bodies per feed. *)
EXTENDS History, TLC

Awips(len, product, tail, letters) == [len |-> len, product |-> product, tail |-> tail, letters |-> letters]
Feature(event, severity, awips, ugcs) == [event |-> event, severity |-> severity, awips |-> awips, ugcs |-> ugcs]
TornadoHere == Feature("Tornado Warning", "Extreme", <<Awips(6, "TOR", "PAH", TRUE)>>, {"KYC001"})
TornadoWatch == Feature("Tornado Watch", "Severe", <<Awips(6, "SPC", "TBW", TRUE)>>, {})
FloodThere == Feature("Flash Flood Warning", "Odd", <<Awips(5, "FFW", "PAH", TRUE)>>, {"TXC001"})
Tsunami == Feature("Tsunami Warning", "Extreme", <<Awips(6, "TSU", "9AH", FALSE)>>, {"KYC001", "TXC001"})
Heat == Feature("Heat Advisory", "Minor", <<>>, {})

Alerts(id, issued) == [id |-> id, issued |-> issued]
SwpcDay(minor, prob, scale) == [minor |-> minor, prob |-> prob, scale |-> scale]
Shake(id, mag) == [id |-> id, mag |-> mag, time |-> 0]
Mount(id, name_, level) == [id |-> id, name |-> name_, region |-> "AVO", level |-> level]

AllBodies ==
    [nws_alerts |-> {Malformed, <<>>, <<TornadoHere, FloodThere>>, <<TornadoWatch, Tsunami, Heat>>},
     swpc_scales |-> {[i \in {1, 3} |-> SwpcDay(5, 1, 9)], [i \in 1..3 |-> SwpcDay(NotANumber, 0, 0)]},
     swpc_alerts |-> {Malformed, <<Alerts("K08A", 1), Alerts("K04A", 2)>>,
                      <<Alerts("K08A", 1), Alerts("P12A", 3), Alerts("K08A", BadTime)>>},
     usgs_quakes |-> {<<>>, <<Shake("a", 3), Shake("b", 5), Shake("c", 5)>>, <<Shake("c", 5)>>},
     usgs_volcanoes |-> {<<>>, <<Mount(1, "Spurr", "WATCH"), Mount(2, "Redoubt", "NORMAL")>>,
                         <<Mount(1, "Spurr", "WARNING"), Mount(2, "Redoubt", "ADVISORY")>>}]

Config(ugcs, wfos, retention) ==
    [products |-> {"K08A", "P12A"}, window |-> 2, ugcs |-> ugcs, wfos |-> wfos, retention |-> retention]
AllOptions == {Config({}, {}, 1), Config({"KYC001"}, {"TBW", "PAH"}, 2), Config({}, {}, 4)}

ShortWindows == {3, 4}
=============================================================================
