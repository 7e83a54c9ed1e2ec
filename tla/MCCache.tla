------------------------------ MODULE MCCache ------------------------------
(* Small instances of Cache for TLC. *)
EXTENDS Cache, TLC
CONSTANTS c1, c2, c3, w1, src
OneSource == {src}
TwoClients == {c1, c2}
ThreeClients == {c1, c2, c3}
OneWriter == {w1}
OneFeeds == [w \in OneWriter |-> src]
OnlyNone == {""}
ValidatorsA == {"", "a"}
Symmetry == Permutations(Clients)
=============================================================================
