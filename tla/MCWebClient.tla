----------------------------- MODULE MCWebClient -----------------------------
(* A small instance of WebClient: two windows and two images. *)
EXTENDS WebClient

CONSTANTS day, week, outlook, aurora

TwoWindows == {day, week}
TwoImages == {outlook, aurora}
TwoTabs == {[pages |-> {"history", "overview"}, versions |-> 2, invalidations |-> 0],
            [pages |-> {"hazards", "overview"}, versions |-> 1, invalidations |-> 2]}
=============================================================================
