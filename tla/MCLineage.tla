----------------------------- MODULE MCLineage -----------------------------
(***************************************************************************)
(* The registry under Paseo lineage changes, seen through the board.       *)
(* Three rows: r1 runs agent A1, z1 its subagent A2, and x1 is a native    *)
(* child of r1, or another root, which passes link below A2, let take A2   *)
(* over, or tie into a cycle or an ambiguous claim.                        *)
(***************************************************************************)
EXTENDS RegistryBoard, TLC

CONSTANTS r1, z1, x1, A1, A2, A3

MCProviderOf == [s \in Session |-> IF s = z1 THEN "zcode" ELSE "claude"]

Shape(s, agent, up, flagged, settled, archived) ==
    [session |-> s, agent |-> agent, flagged |-> flagged, sub |-> up # Null, up |-> up,
     archived |-> archived, settled |-> settled]
MCPasses ==
    {<<Shape(x1, A3, A2, FALSE, FALSE, FALSE)>>,      \* x1 below z1
     <<Shape(x1, A2, A1, FALSE, FALSE, FALSE)>>,      \* x1 takes A2 over from z1
     <<Shape(z1, A2, A1, FALSE, FALSE, FALSE),
       Shape(x1, A2, A1, FALSE, FALSE, FALSE)>>,      \* both claim A2
     <<Shape(r1, A1, A2, FALSE, FALSE, FALSE)>>,      \* a link cycle
     <<Shape(z1, A2, A1, TRUE, TRUE, FALSE)>>,        \* z1 flagged and settled
     <<Shape(r1, A1, Null, FALSE, FALSE, TRUE)>>}     \* r1 archived

Joined(slot, agent, up) ==
    NewRow(Null, slot, [kind |-> "paseo", ref |-> agent, sub |-> up # Null, up |-> up], 0)
\* Both tables are a few hooks and one pass away from an empty one.
LineageInit ==
    /\ \E x \in {NewRow(Null, 3, Null, 0), NewRow(r1, Null, Null, 0)} :
          rows = (r1 :> Joined(1, A1, Null)) @@ (z1 :> Joined(2, A2, A1)) @@ (x1 :> x)
    /\ txn = Null /\ clock = 0

LineageNext ==
    \/ Tick
    \/ clock = 0 /\ \E kind \in {"Stop", "StopFailure"} : TurnHook(z1, kind, 0)
    \/ clock = 0 /\ \E kind \in {"Activity", "Stop"} : TurnHook(x1, kind, 0)
    \/ View(r1, clock, clock)
    \/ Acknowledge(z1, clock, Unconditional)
    \/ clock = MaxClock /\ (SweepDue \/ PruneDue)
    \/ \E shapes \in MCPasses :
          BeginPaseoSync(Dated(shapes, [i \in DOMAIN shapes |-> Null], [i \in DOMAIN shapes |-> clock]))
    \/ SyncRecord
    \/ CommitPaseoSync
    \/ RollBackPaseoSync
LineageSpec == LineageInit /\ [][LineageNext]_vars
=============================================================================
