--------------------------- MODULE MCTrexWatcher ---------------------------
(* Instance of TrexWatcher for TLC: one open pull request. *)
EXTENDS TrexWatcher

CONSTANT p1

OnePR == <<p1>>
=============================================================================
