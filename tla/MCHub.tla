------------------------------- MODULE MCHub -------------------------------
(* Small instances of Hub for TLC. *)
EXTENDS Hub, TLC
CONSTANTS c1, c2, w1, w2, s1, s2
OneClient == {c1}
TwoClients == {c1, c2}
OneSource == {s1}
TwoSources == {s1, s2}
OneWriter == {w1}
TwoWriters == {w1, w2}
OneFeeds == [w \in OneWriter |-> s1]
TwoFeeds == [w \in TwoWriters |-> IF w = w1 THEN s1 ELSE s2]
OneOrder == <<s1>>
TwoOrder == <<s1, s2>>
OnlyA == {"a", ""}
Symmetry == Permutations(Clients)
=============================================================================
