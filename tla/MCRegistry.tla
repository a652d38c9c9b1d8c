---------------------------- MODULE MCRegistry ----------------------------
(***************************************************************************)
(* Instances of Registry for TLC.  Each slice restricts Next to the        *)
(* writers one question is about, so its behaviours are behaviours of      *)
(* Spec and its bounds can be large enough for that question.              *)
(***************************************************************************)
EXTENDS Registry, TLC

CONSTANTS r1, z1, e1, e2, e3, A1, A2

MCProviderOf == [s \in Session |->
    CASE s \in {e1, e2, e3} -> "evener" [] s = z1 -> "zcode" [] OTHER -> "claude"]

-----------------------------------------------------------------------------
(* The tree slice: who is registered under whom.  One instant, no ledger.  *)
EvenerIds == {e1, e2, e3}
TreeSymmetry == Permutations(EvenerIds)
Sightings == {Null, {}} \cup {{e} : e \in EvenerIds}
TreeNext ==
    \/ \E s \in Session :
          \/ SessionStartHook(s, Null, 0)
          \/ CompactHook(s, Null, 0) \/ PromptHook(s, Null, 0, FALSE)
          \/ SessionEndHook(s)
          \/ \E p \in Session : SubagentStartHook(s, p, 0)
          \/ SubagentStopHook(s)
          \/ Clear(s)
    \/ ClearAll
    \/ \E s \in EvenerIds, parent \in EvenerIds \cup {Null}, archived, active \in Sightings :
          EvenerRepair(s, parent, "idle", archived, active, 0)
TreeSpec == Init /\ [][TreeNext]_vars

-----------------------------------------------------------------------------
(* The ledger slice: everything that lands, shows, keeps or releases the   *)
(* result of one session, with Paseo records of any age about it.          *)
Shape(s, agent, up, flagged, settled, archived) ==
    [session |-> s, agent |-> agent, flagged |-> flagged, sub |-> up # Null, up |-> up,
     archived |-> archived, settled |-> settled]
OnePass(shapes, updated) ==
    BeginPaseoSync(Dated(shapes, [i \in DOMAIN shapes |-> Null], [i \in DOMAIN shapes |-> updated]))
LedgerNext ==
    \/ Tick
    \/ \E s \in Session, t \in HookInstants :
          \/ SessionStartHook(s, Null, t) \/ CompactHook(s, Null, t) \/ SessionEndHook(s)
          \/ \E n \in BOOLEAN : PromptHook(s, Null, t, n)
          \/ \E kind \in StatusEvent : TurnHook(s, kind, t) \/ BackgroundHook(s, kind, t)
    \/ \E s \in Session, t \in HookInstants, wm \in Watermarks : View(s, t, wm) \/ Acknowledge(s, t, wm)
    \/ SweepDue
    \/ PruneDue
    \/ OperatorPrune(clock)
    \/ \E s \in Session, flagged, settled \in BOOLEAN, u \in Stamps :
          OnePass(<<Shape(s, A1, Null, flagged, settled, FALSE)>>, u)
    \/ SyncRecord
    \/ CommitPaseoSync
    \/ RollBackPaseoSync
LedgerInit == rows = [s \in {} |-> Null] /\ txn = Null /\ clock = 0
LedgerSpec == LedgerInit /\ [][LedgerNext]_vars

-----------------------------------------------------------------------------
(* The settle slice: prompts, tool hooks and turn ends of one session, each *)
(* committing up to HookLag late, against settled records of any age.       *)
SettleNext ==
    \/ Tick
    \/ \E s \in Session, t \in HookInstants :
          \/ PromptHook(s, Null, t, FALSE)
          \/ \E kind \in {"Activity", "Stop"} : TurnHook(s, kind, t)
    \/ \E s \in Session, u \in 0..clock :
          OnePass(<<Shape(s, A1, Null, FALSE, TRUE, FALSE)>>, u)
    \/ SyncRecord
    \/ CommitPaseoSync
SettleSpec == LedgerInit /\ [][SettleNext]_vars

-----------------------------------------------------------------------------
(* The repair slice: an Evener thread whose live events and whose state on  *)
(* reconnect both reach its row, pressed by the user while its card shows   *)
(* it working, and swept.                                                   *)
PressWorking(s) ==
    /\ s \in DOMAIN rows /\ rows[s].status = "working"
    /\ View(s, clock, rows[s].unread)
RepairNext ==
    \/ Tick
    \/ \E s \in Session :
          \/ \E kind \in {"Activity", "Stop"} : TurnHook(s, kind, clock)
          \/ \E status \in Status : EvenerRepair(s, Null, status, Null, Null, clock)
          \/ PressWorking(s)
    \/ SweepDue
RepairSpec == LedgerInit /\ [][RepairNext]_vars
=============================================================================
