----------------------------- MODULE MCDaemon -----------------------------
(* Instances of Daemon for TLC: two boards and one registry whose projection throws. *)
EXTENDS Daemon
CONSTANTS a, b, bad
MCContent == {a, b, bad}
MCCorrupt == {bad}
MCFailure == {"internal_error", "missing_database", "unsupported_schema"}

\* The first board is a; which of the two it is makes no difference.
MCInit == Init /\ history[1].what = a
MCSpec == MCInit /\ [][Next]_vars /\ Fairness
=============================================================================
