---------------------------- MODULE MCImageProxy ----------------------------
(* Small instances of ImageProxy for TLC. *)
EXTENDS ImageProxy
CONSTANTS k1, k2, g1
OneKey == {k1}
TwoKeys == {k1, k2}
OneGetter == {g1}
Equal == [b \in Bodies |-> 1]
Growing == [b \in Bodies |-> b]
First == {1}
=============================================================================
