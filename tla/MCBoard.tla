------------------------------ MODULE MCBoard ------------------------------
(* An instance of BoardView for TLC: the card with its results and no      *)
(* faults, or faults and no card.                                          *)
EXTENDS BoardView

\* The budgets at the start of a behaviour.
Card   == newest = 0 /\ faults = MaxFaults
Faulty == newest = MaxResult /\ faults = 0

MCInit ==
    /\ row = 0 /\ (Card \/ Faulty)
    /\ pubs = <<>> /\ ages = <<>> /\ events = 0 /\ pushes = <<>>
    /\ reads = {} /\ latest = Off /\ stash = Off /\ busy = FALSE
    /\ last = 0 /\ good = 0 /\ view = [from |-> 0, degraded |-> TRUE, hidden |-> FALSE]
    /\ expiry = Off /\ reread = FALSE /\ grace = 0 /\ late = FALSE
    /\ press = Off /\ slide = Off /\ hide = Off /\ acks = {} /\ saw = 0
    /\ gestures = 0
MCSpec == MCInit /\ [][Next]_vars /\ Fairness
=============================================================================
