----------------------------- MODULE MCPipeline -----------------------------
(* Small instances of Pipeline for TLC. *)
EXTENDS Pipeline
FourVersions == 1..4
OneTwo == {1, 2}
OnlyTwo == {2}
=============================================================================
