-------------------------- MODULE RegistryProofs --------------------------
(***************************************************************************)
(* The safety of the session registry for every set of sessions, every     *)
(* bound and every interleaving of its writers.                            *)
(***************************************************************************)
EXTENDS Registry, RegistryTableProofs, SequenceTheorems

\* The inductive invariant.  An open overlay transaction adds the table its
\* rollback restores: without that conjunct the rollback step could bring
\* back anything.  Sound couples the four properties, because each write
\* needs several of them: a deletion keeps parents valid only in a table
\* whose parents were valid, and a re-parenting keeps the forest only when
\* the parent named is a row.
IInv == /\ TypeOK
        /\ Sound(rows)
        /\ txn # Null => Sound(txn.before)

LEMMA ClockFacts ==
    ASSUME IInv
    PROVE  clock \in Nat /\ HookInstants \subseteq Nat /\ MaxClock \in Nat
BY ClockAssumption DEF IInv, TypeOK, HookInstants

\* A statement's Write installs a sound table.
LEMMA WriteKeeps ==
    ASSUME IInv, NEW tbl, Sound(tbl), Write(tbl)
    PROVE  IInv'
BY DEF IInv, TypeOK, Write, Sound

\* The records of a pass are records.
LEMMA DatedIsPass ==
    ASSUME IInv, NEW shapes \in PaseoPasses,
           NEW attention \in [DOMAIN shapes -> Stamps], NEW updated \in [DOMAIN shapes -> Stamps]
    PROVE  Dated(shapes, attention, updated) \in Pass
<1> DEFINE rec(i) == [session |-> shapes[i].session, agent |-> shapes[i].agent,
                      flagged |-> shapes[i].flagged, attention |-> attention[i],
                      sub |-> shapes[i].sub, up |-> shapes[i].up, updated |-> updated[i],
                      archived |-> shapes[i].archived, settled |-> shapes[i].settled]
<1>1. shapes \in Seq(PaseoShape) /\ Stamps \subseteq Stamp
  BY ClockAssumption, ClockFacts DEF Stamps, Stamp
<1>2. PICK n \in Nat : shapes \in [1..n -> PaseoShape]
  BY <1>1
<1>3. \A i \in 1..n : rec(i) \in PaseoRecord
  BY <1>1, <1>2 DEF PaseoShape, PaseoRecord
<1>4. Dated(shapes, attention, updated) = [i \in 1..n |-> rec(i)]
  BY <1>2 DEF Dated
<1> HIDE DEF rec
<1>5. [i \in 1..n |-> rec(i)] \in Seq(PaseoRecord)
  BY <1>3
<1> QED BY <1>4, <1>5 DEF Pass

-----------------------------------------------------------------------------
LEMMA InitInv == Init => IInv
<1> SUFFICES ASSUME Init PROVE IInv
  OBVIOUS
<1>1. txn = Null /\ clock \in 0..MaxClock
  BY ClockAssumption DEF Init
<1>2. CASE rows = [s \in {} |-> Null]
  <2>1. Sound(rows)
    BY <1>2, EmptySound
  <2> QED BY <1>1, <2>1 DEF IInv, TypeOK, Sound
<1>3. CASE \E s \in Session, unread \in {Null, 0} : rows = [x \in {s} |-> LegacyRow(x, unread)]
  <2>1. PICK s \in Session, unread \in {Null, 0} : rows = [x \in {s} |-> LegacyRow(x, unread)]
    BY <1>3
  <2> DEFINE row == LegacyRow(s, unread)
  <2>2. row \in Row /\ row.parent = Null /\ row.slot = 1 /\ ClockStopped(row)
    <3> DEFINE fresh == NewRow(Null, 1, Null, 0)
    <3>1. fresh \in Row /\ fresh.parent = Null /\ fresh.slot = 1 /\ fresh.viewed = Null
      BY DEF NewRow, Row, Status, Stamp
    <3>2. row = [fresh EXCEPT !.ended = TRUE, !.unread = unread, !.done = 0]
      BY DEF LegacyRow
    <3> HIDE DEF fresh, row
    <3>3. unread \in Stamp /\ 0 \in Stamp
      BY DEF Stamp
    <3>4. row \in Row
      <4> HIDE DEF Stamp
      <4> QED BY <3>1, <3>2, <3>3 DEF Row
    <3>5. row.parent = Null /\ row.slot = 1 /\ row.viewed = Null
      BY <3>1, <3>2 DEF Row
    <3> QED BY <3>4, <3>5 DEF ClockStopped
  <2>3. DOMAIN rows = {s} /\ rows[s] = row /\ rows = [x \in {s} |-> row]
    BY <2>1
  <2> HIDE DEF row
  <2>4. IsTable(rows) /\ ClocksStopped(rows)
    BY <2>2, <2>3 DEF IsTable, ClocksStopped
  <2>5. TopLevel(rows) = {s}
    BY <2>2, <2>3 DEF TopLevel
  <2>6. SlotsValid(rows) /\ ParentsValid(rows)
    BY <2>2, <2>3, <2>5 DEF SlotsValid, ParentsValid
  <2>7. Forest(rows)
    BY <2>2, <2>3, NullAssumption DEF Forest
  <2> QED BY <1>1, <2>4, <2>6, <2>7 DEF IInv, TypeOK, Sound
<1> QED BY <1>2, <1>3 DEF Init

LEMMA HookStepInv ==
    ASSUME IInv, HookStep
    PROVE  IInv'
<1>1. PICK s \in Session, t \in HookInstants :
        \/ \E o \in HookOrigin : SessionStartHook(s, o, t)
        \/ \E o \in HookOrigin : CompactHook(s, o, t)
        \/ \E o \in HookOrigin, n \in BOOLEAN : PromptHook(s, o, t, n)
        \/ \E kind \in StatusEvent : TurnHook(s, kind, t)
        \/ \E kind \in StatusEvent : BackgroundHook(s, kind, t)
        \/ SessionEndHook(s)
        \/ \E p \in Session : SubagentStartHook(s, p, t)
        \/ SubagentStopHook(s)
  BY DEF HookStep
<1>2. t \in Nat /\ Sound(rows) /\ HookOrigin \subseteq Origin \cup {Null}
  BY ClockFacts DEF IInv, HookOrigin
<1>3. ASSUME NEW o \in HookOrigin, SessionStartHook(s, o, t) PROVE IInv'
  BY <1>2, <1>3, SessionStartSound, WriteKeeps DEF SessionStartHook
<1>4. ASSUME NEW o \in HookOrigin, CompactHook(s, o, t) PROVE IInv'
  BY <1>2, <1>4, SessionObservedSound, WriteKeeps DEF CompactHook
<1>5. ASSUME NEW o \in HookOrigin, NEW n \in BOOLEAN, PromptHook(s, o, t, n) PROVE IInv'
  <2> DEFINE joined  == SessionObserved(rows, s, o, t)
             working == ApplyStatusEvent(joined, s, "Activity", t)
             cleared == ApplyStatusEvent(working, s, "BackgroundWorkCleared", t)
  <2>1. Sound(joined)
    BY <1>2, SessionObservedSound
  <2> HIDE DEF joined
  <2>2. Sound(working)
    BY <1>2, <2>1, ApplyStatusEventSound DEF StatusEvent
  <2> HIDE DEF working
  <2>3. Sound(cleared)
    BY <1>2, <2>2, ApplyStatusEventSound DEF StatusEvent
  <2>4. Write(working) \/ Write(cleared)
    BY <1>5 DEF PromptHook, joined, working
  <2> HIDE DEF cleared
  <2> QED BY <2>2, <2>3, <2>4, WriteKeeps
<1>6. ASSUME NEW kind \in StatusEvent, TurnHook(s, kind, t) PROVE IInv'
  BY <1>2, <1>6, ApplyStatusEventSound, WriteKeeps DEF TurnHook
<1>7. ASSUME NEW kind \in StatusEvent, BackgroundHook(s, kind, t) PROVE IInv'
  <2> DEFINE working == ApplyStatusEvent(rows, s, "Activity", t)
             flagged == ApplyStatusEvent(working, s, kind, t)
  <2>1. Sound(working)
    BY <1>2, ApplyStatusEventSound DEF StatusEvent
  <2> HIDE DEF working
  <2>2. Sound(flagged)
    BY <1>2, <2>1, ApplyStatusEventSound
  <2>3. Write(flagged)
    BY <1>7 DEF BackgroundHook, working
  <2> HIDE DEF flagged
  <2> QED BY <2>2, <2>3, WriteKeeps
<1>8. CASE SessionEndHook(s)
  BY <1>2, <1>8, DeletionsSound, WriteKeeps DEF SessionEndHook
<1>9. ASSUME NEW p \in Session, SubagentStartHook(s, p, t) PROVE IInv'
  BY <1>2, <1>9, SubagentStartSound, WriteKeeps DEF SubagentStartHook
<1>10. CASE SubagentStopHook(s)
  BY <1>2, <1>10, DeletionsSound, WriteKeeps DEF SubagentStopHook
<1> QED BY <1>1, <1>3, <1>4, <1>5, <1>6, <1>7, <1>8, <1>9, <1>10

LEMMA GestureStepInv ==
    ASSUME IInv, GestureStep
    PROVE  IInv'
<1>1. clock \in Nat /\ Sound(rows)
  BY ClockFacts DEF IInv
<1>2. ASSUME NEW s, NEW t \in HookInstants, NEW wm, View(s, t, wm) PROVE IInv'
  BY <1>1, <1>2, ViewSessionSound, WriteKeeps DEF View, HookInstants
<1>3. ASSUME NEW s, NEW t \in HookInstants, NEW wm, Acknowledge(s, t, wm) PROVE IInv'
  BY <1>1, <1>3, AcknowledgeSessionSound, WriteKeeps DEF Acknowledge, HookInstants
<1>4. ASSUME NEW s, Clear(s) PROVE IInv'
  BY <1>1, <1>4, DeletionsSound, WriteKeeps DEF Clear
<1>5. CASE ClearAll
  BY <1>1, <1>5, DeletionsSound, WriteKeeps DEF ClearAll
<1>6. ASSUME NEW cutoff, OperatorPrune(cutoff) PROVE IInv'
  BY <1>1, <1>6, DeletionsSound, WriteKeeps DEF OperatorPrune
<1> QED BY <1>2, <1>3, <1>4, <1>5, <1>6 DEF GestureStep

LEMMA PaseoStepInv ==
    ASSUME IInv, PaseoStep
    PROVE  IInv'
<1>1. ASSUME NEW shapes \in PaseoPasses, NEW attention \in [DOMAIN shapes -> Stamps],
             NEW updated \in [DOMAIN shapes -> Stamps],
             BeginPaseoSync(Dated(shapes, attention, updated))
      PROVE  IInv'
  <2> DEFINE pass == Dated(shapes, attention, updated)
  <2>1. pass \in Pass
    BY DatedIsPass
  <2>2. BeginPaseoSync(pass)
    BY <1>1
  <2> HIDE DEF pass
  <2>3. /\ txn' = [todo |-> pass, pass |-> pass, before |-> rows]
        /\ rows' = rows /\ clock' = clock
    BY <2>2 DEF BeginPaseoSync
  <2>4. IsTxn(txn') /\ txn'.before = rows
    BY <2>1, <2>3 DEF IInv, Sound, IsTxn
  <2> QED BY <2>3, <2>4 DEF IInv, TypeOK
<1>2. CASE SyncRecord
  <2> DEFINE r == Head(txn.todo)
  <2>1. /\ txn # Null /\ IsTxn(txn) /\ txn.todo # <<>> /\ Sound(txn.before)
        /\ rows' = SyncPaseoRecord(rows, r, txn.pass, clock - BgGrace)
        /\ txn' = [txn EXCEPT !.todo = Tail(@)]
        /\ clock' = clock
    BY <1>2 DEF SyncRecord, IInv, TypeOK
  <2>2. r \in PaseoRecord /\ Tail(txn.todo) \in Pass
    BY <2>1 DEF IsTxn, Pass
  <2> HIDE DEF r
  <2>3. Sound(rows')
    BY <2>1, <2>2, SyncPaseoRecordSound DEF IInv
  <2>4. txn' = [todo |-> Tail(txn.todo), pass |-> txn.pass, before |-> txn.before]
    BY <2>1 DEF IsTxn
  <2>5. IsTxn(txn') /\ txn'.before = txn.before
    BY <2>1, <2>2, <2>4 DEF IsTxn
  <2> QED BY <2>1, <2>3, <2>5 DEF IInv, TypeOK, Sound
<1>3. CASE CommitPaseoSync
  BY <1>3 DEF CommitPaseoSync, IInv, TypeOK
<1>4. CASE RollBackPaseoSync
  BY <1>4 DEF RollBackPaseoSync, IInv, TypeOK, Sound
<1> QED BY <1>1, <1>2, <1>3, <1>4 DEF PaseoStep

LEMMA EvenerStepInv ==
    ASSUME IInv, EvenerStep
    PROVE  IInv'
<1>1. PICK s \in Session, parent \in Session \cup {Null}, status \in Status, t \in HookInstants,
           archived \in {Null} \cup SUBSET Session, active \in {Null} \cup SUBSET Session :
              EvenerRepair(s, parent, status, archived, active, t)
  BY DEF EvenerStep
<1> DEFINE joined == IF parent = Null THEN SessionObserved(rows, s, Null, t)
                     ELSE SubagentStart(rows, s, parent, t)
           observed == StatusObserved(joined, s, status, t)
           new == ReconcileEvener(observed, archived, active)
<1>2. t \in Nat /\ Sound(rows)
  BY ClockFacts DEF IInv
<1>3. Sound(joined)
  <2>1. CASE parent = Null
    BY <1>2, <2>1, SessionObservedSound
  <2>2. CASE parent # Null
    <3>1. parent \in Session /\ ProviderOf[parent] = ProviderOf[s]
      BY <1>1, <2>2 DEF EvenerRepair
    <3> QED BY <1>2, <2>2, <3>1, SubagentStartSound
  <2> QED BY <2>1, <2>2
<1>4. Write(new)
  BY <1>1 DEF EvenerRepair
<1> HIDE DEF joined
<1>5. Sound(observed)
  BY <1>2, <1>3, StatusObservedSound
<1> HIDE DEF observed
<1>6. Sound(new)
  BY <1>5, ReconcileEvenerSound
<1> HIDE DEF new
<1> QED BY <1>4, <1>6, WriteKeeps

\* IInv is inductive: every action of every writer keeps it.
LEMMA NextInv == IInv /\ [Next]_vars => IInv'
<1> SUFFICES ASSUME IInv, [Next]_vars PROVE IInv'
  OBVIOUS
<1>1. CASE Tick
  BY <1>1, ClockAssumption DEF Tick, IInv, TypeOK
<1>2. CASE HookStep
  BY <1>2, HookStepInv
<1>3. CASE GestureStep
  BY <1>3, GestureStepInv
<1>4. CASE SweepDue
  BY <1>4, ClockFacts, SweepExpiredResultsSound, WriteKeeps DEF SweepDue, IInv
<1>5. CASE PruneDue
  BY <1>5, DeletionsSound, WriteKeeps DEF PruneDue, IInv
<1>6. CASE PaseoStep
  BY <1>6, PaseoStepInv
<1>7. CASE EvenerStep
  BY <1>7, EvenerStepInv
<1>8. CASE UNCHANGED vars
  BY <1>8 DEF vars, IInv, TypeOK, Sound
<1> QED BY <1>1, <1>2, <1>3, <1>4, <1>5, <1>6, <1>7, <1>8 DEF Next

THEOREM Safety == Spec => []IInv
BY InitInv, NextInv, PTL DEF Spec

\* Every state of the registry is well formed, the table of an open overlay
\* transaction and the one its rollback restores included.
THEOREM TypeCorrect == Spec => []TypeOK
<1>1. IInv => TypeOK
  BY DEF IInv
<1> QED BY <1>1, Safety, PTL

\* No sequence of starts, deletions, re-parentings and reconciliations makes
\* SQLite reject a row: slots stay positive, unique and the roots' own, and
\* a parent is a row of the child's provider.
THEOREM SchemaRespected == Spec => []SchemaConstraints
<1>1. IInv => SchemaConstraints
  BY DEF IInv, Sound, SchemaConstraints
<1> QED BY <1>1, Safety, PTL

\* The native rows are a forest, in whatever order the hooks of subagents
\* commit: the check of ValidProspectiveParent is enough.
THEOREM ForestKept == Spec => []NativeForest
<1>1. IInv => NativeForest
  BY DEF IInv, Sound, NativeForest
<1> QED BY <1>1, Safety, PTL

\* Every path that lands an unviewed result stops the row's expiry clock,
\* so the guard the sweep calls defensive is never what protects the result.
THEOREM UnreadNeverExpires == Spec => []UnreadStopsClock
<1>1. IInv => UnreadStopsClock
  BY DEF IInv, Sound, UnreadStopsClock
<1> QED BY <1>1, Safety, PTL

-----------------------------------------------------------------------------
(****************************************************************************)
(* The result ledgers: what the user has not seen stays, what the user has *)
(* dealt with does not come back, and a repaired turn end is never older   *)
(* than the turn by more than a hook's transit.                            *)
(****************************************************************************)

\* A hook or gesture of instant t may commit at instant now.
OnTime(t, now) == t \in Nat /\ t <= now /\ now <= t + HookLag

\* What the stamps of a row have to do with each other.  No stamp that a
\* later write compares is in the future, and a running turn began no later
\* than a hook's transit after the last hook.
Sane(row, now) ==
    /\ \A stamp \in {row.done, row.acked, row.statusSince} : stamp = Null \/ stamp <= now
    /\ row.viewed # Null /\ row.done # Null => row.done <= row.viewed + HookLag
    /\ row.unread # Null /\ row.acked # Null => row.unread + HookLag >= row.acked
    /\ row.status \in {"working", "waiting"} => row.statusSince <= row.updated + HookLag
    /\ row.slot = Null \/ row.slot <= Cardinality(Session)
AllSane(tbl, now) == \A s \in DOMAIN tbl : Sane(tbl[s], now)

\* A write that takes no result out of a row.
Retains(row, new) == /\ row.unread # Null => new.unread # Null
                     /\ row.done # Null => new.done # Null
AllRetained(tbl, new) == \A s \in DOMAIN tbl \cap DOMAIN new : Retains(tbl[s], new[s])

LEMMA Bounds == HookLag \in Nat /\ Null \notin Nat
  BY ClockAssumption, NullAssumption

LEMMA HookOnTime ==
    ASSUME IInv, NEW t \in HookInstants
    PROVE  OnTime(t, clock)
  BY ClockFacts DEF HookInstants, OnTime

-----------------------------------------------------------------------------
(***************************************************************************)
(* Rows.                                                                   *)
(***************************************************************************)
LEMMA RetainsSelf == ASSUME NEW row PROVE Retains(row, row)
  BY DEF Retains

LEMMA RetainsTwice ==
    ASSUME NEW row, NEW mid, NEW new, Retains(row, mid), Retains(mid, new)
    PROVE  Retains(row, new)
  BY DEF Retains

\* Time passes.
LEMMA SaneLater ==
    ASSUME NEW row \in Row, NEW now \in Nat, Sane(row, now)
    PROVE  Sane(row, now + 1)
  BY DEF Sane, Row, Stamp

LEMMA StatusRowSane ==
    ASSUME NEW row \in Row, NEW status \in Status, NEW now \in Nat, NEW t, OnTime(t, now),
           Sane(row, now)
    PROVE  Sane(StatusRow(row, status, t), now) /\ Retains(row, StatusRow(row, status, t))
  BY Bounds DEF Sane, Retains, OnTime, StatusRow, Row, Stamp

LEMMA AfterStatusEventSane ==
    ASSUME NEW row \in Row, NEW kind \in StatusEvent, NEW now \in Nat, NEW t, OnTime(t, now),
           Sane(row, now)
    PROVE  /\ Sane(AfterStatusEvent(row, kind, t), now)
           /\ Retains(row, AfterStatusEvent(row, kind, t))
<1>1. CASE kind \in {"Activity", "Attention"}
  BY <1>1, StatusRowSane DEF AfterStatusEvent, Status
<1>2. CASE kind = "Stop" /\ row.bg
  BY <1>2, StatusRowSane DEF AfterStatusEvent, Stopped, Status
<1>3. CASE kind = "Stop" /\ ~row.bg
  <2>1. AfterStatusEvent(row, kind, t)
          = [StatusRow(row, "idle", t) EXCEPT !.unread = t, !.done = t, !.viewed = Null]
    BY <1>3 DEF AfterStatusEvent, Stopped
  <2> QED BY <2>1, Bounds DEF Sane, Retains, OnTime, StatusRow, Row, Stamp
<1>4. CASE kind = "StopFailure"
  <2>1. AfterStatusEvent(row, kind, t)
          = [StatusRow(row, "error", t) EXCEPT !.unread = t, !.viewed = Null]
    BY <1>4 DEF AfterStatusEvent, Failed
  <2> QED BY <2>1, Bounds DEF Sane, Retains, OnTime, StatusRow, Row, Stamp
<1>5. CASE kind \in {"BackgroundWorkStarted", "BackgroundWorkCleared"}
  <2>1. AfterStatusEvent(row, kind, t)
          = [row EXCEPT !.bg = (kind = "BackgroundWorkStarted"), !.updated = t]
    BY <1>5 DEF AfterStatusEvent
  <2> QED BY <2>1, Bounds DEF Sane, Retains, OnTime, Row, Stamp
<1> QED BY <1>1, <1>2, <1>3, <1>4, <1>5 DEF StatusEvent

LEMMA RestartedSane ==
    ASSUME NEW row \in Row, NEW origin, NEW now \in Nat, NEW t, OnTime(t, now), Sane(row, now)
    PROVE  Sane(Restarted(row, origin, t), now)
<1> DEFINE idle == StatusRow(row, "idle", t)
           kept == IF origin = Null THEN idle.origin ELSE origin
<1>1. Sane(idle, now) /\ Keeps(row, idle)
  BY StatusRowSane, StatusRowKeeps DEF Status, OnTime
<1>2. Restarted(row, origin, t)
        = [idle EXCEPT !.bg = FALSE, !.unread = Null, !.done = Null, !.viewed = Null,
                       !.ended = FALSE, !.origin = kept]
  BY DEF Restarted
<1> HIDE DEF idle, kept
<1> QED BY <1>1, <1>2 DEF Keeps, Sane, Row

LEMMA OriginSane ==
    ASSUME NEW row \in Row, NEW origin, NEW now, Sane(row, now)
    PROVE  /\ Sane([row EXCEPT !.origin = origin], now)
           /\ Retains(row, [row EXCEPT !.origin = origin])
  BY DEF Sane, Retains, Row

LEMMA ViewedSane ==
    ASSUME NEW row \in Row, NEW now \in Nat, NEW at, OnTime(at, now), Sane(row, now)
    PROVE  /\ Sane(Viewed(row, at), now)
           /\ Viewed(row, at).done = row.done
  BY Bounds DEF Sane, OnTime, Viewed, Row, Stamp

LEMMA ReleasedSane ==
    ASSUME NEW row \in Row, NEW now \in Nat, NEW at, OnTime(at, now), Sane(row, now)
    PROVE  /\ Sane(Released(row, at), now)
           /\ Sane([Released(row, at) EXCEPT !.acked = at], now)
  BY Bounds DEF Sane, OnTime, Released, Row, Stamp

\* A record of a pass: its stamps are of the past.
Dating(r, now) == r.attention \in {Null} \cup 0..now /\ r.updated \in {Null} \cup 0..now

LEMMA MirroredSane ==
    ASSUME NEW row \in Row, NEW r \in PaseoRecord, NEW now \in Nat, Dating(r, now), Sane(row, now)
    PROVE  Sane(Mirrored(row, r), now) /\ Retains(row, Mirrored(row, r))
<1>1. Sane(Flagged(row, r), now) /\ Retains(row, Flagged(row, r)) /\ Flagged(row, r) \in Row
  <2>1. CASE FlagLands(row, r) /\ row.unread = Null
    <3> DEFINE at == FlagTime(r)
               done == IF row.done = Null THEN at ELSE row.done
    <3>1. at \in Nat /\ at <= now /\ (row.acked = Null \/ at > row.acked)
      BY <2>1 DEF FlagLands, FlagTime, Dating, NewerThan
    <3>2. /\ done \in Nat /\ done <= now
          /\ row.done # Null => done = row.done
      BY <3>1 DEF Sane, Row, Stamp
    <3>3. Flagged(row, r) = [row EXCEPT !.unread = at, !.viewed = Null, !.done = done]
      BY <2>1 DEF Flagged, Row
    <3> HIDE DEF done, at
    <3>4. Flagged(row, r) \in Row
      BY <3>1, <3>2, <3>3 DEF Row, Stamp
    <3> QED BY <3>1, <3>2, <3>3, <3>4, Bounds DEF Sane, Retains, Row, Stamp
  <2>2. CASE ~(FlagLands(row, r) /\ row.unread = Null)
    BY <2>2, RetainsSelf DEF Flagged
  <2> QED BY <2>1, <2>2
<1> QED BY <1>1, OriginSane, RetainsTwice DEF Mirrored

LEMMA SettledSane ==
    ASSUME NEW row \in Row, NEW r \in PaseoRecord, NEW bgCutoff, NEW now \in Nat,
           Dating(r, now), Sane(row, now)
    PROVE  Sane(Settled(row, r, bgCutoff), now) /\ Retains(row, Settled(row, r, bgCutoff))
<1>1. CASE ~Settles(row, r, bgCutoff)
  BY <1>1, RetainsSelf DEF Settled
<1>2. CASE Settles(row, r, bgCutoff)
  <2>1. r.updated \in Nat /\ r.updated <= now
    BY <1>2 DEF Settles, Dating
  <2> DEFINE idle == [row EXCEPT !.status = "idle", !.statusSince = r.updated, !.bg = FALSE]
  <2>2. CASE ~SettleLands(row, r)
    <3>1. Settled(row, r, bgCutoff) = idle
      BY <1>2, <2>2 DEF Settled
    <3> QED BY <2>1, <3>1 DEF Sane, Retains, Row
  <2>3. CASE SettleLands(row, r)
    <3>1. Settled(row, r, bgCutoff)
            = [idle EXCEPT !.done = r.updated, !.unread = r.updated, !.viewed = Null]
      BY <1>2, <2>3 DEF Settled
    <3>2. row.acked = Null \/ r.updated > row.acked
      BY <2>3 DEF SettleLands, NewerThan
    <3> QED BY <2>1, <3>1, <3>2, Bounds DEF Sane, Retains, Row, Stamp
  <2> QED BY <2>2, <2>3
<1> QED BY <1>1, <1>2

LEMMA LeftBehindSane ==
    ASSUME NEW row \in Row, NEW r \in PaseoRecord, NEW now \in Nat, Dating(r, now), Sane(row, now)
    PROVE  Sane(LeftBehind(row, r), now) /\ Retains(row, LeftBehind(row, r))
<1> DEFINE since == IF row.status # "idle" /\ r.updated # Null THEN r.updated
                                                              ELSE row.statusSince
<1>1. since = Null \/ since <= now
  BY DEF Dating, Sane
<1>2. LeftBehind(row, r) = [row EXCEPT !.origin = Null, !.status = "idle", !.bg = FALSE,
                                       !.statusSince = since]
  BY DEF LeftBehind, Row
<1> HIDE DEF since
<1> QED BY <1>1, <1>2 DEF Sane, Retains, Row

-----------------------------------------------------------------------------
(***************************************************************************)
(* Tables.                                                                 *)
(***************************************************************************)
LEMMA RetainedTwice ==
    ASSUME NEW tbl, NEW mid, NEW new, AllRetained(tbl, mid), AllRetained(mid, new),
           DOMAIN tbl \cap DOMAIN new \subseteq DOMAIN mid
    PROVE  AllRetained(tbl, new)
  BY DEF AllRetained, Retains

LEMMA RewriteSane ==
    ASSUME NEW tbl, Sound(tbl), NEW now, AllSane(tbl, now),
           NEW new, DOMAIN new = DOMAIN tbl,
           \A s \in DOMAIN tbl : Sane(new[s], now) /\ Retains(tbl[s], new[s])
    PROVE  AllSane(new, now) /\ AllRetained(tbl, new)
  BY DEF AllSane, AllRetained

LEMMA InsertSane ==
    ASSUME NEW tbl, Sound(tbl), NEW now, AllSane(tbl, now), NEW s, s \notin DOMAIN tbl,
           NEW row, Sane(row, now)
    PROVE  /\ AllSane(Insert(tbl, s, row), now) /\ AllRetained(tbl, Insert(tbl, s, row))
           /\ DOMAIN tbl \subseteq DOMAIN Insert(tbl, s, row)
           /\ \A x \in DOMAIN tbl : Insert(tbl, s, row)[x] = tbl[x]
<1>1. /\ DOMAIN Insert(tbl, s, row) = DOMAIN tbl \cup {s}
      /\ Insert(tbl, s, row)[s] = row
      /\ \A x \in DOMAIN tbl : Insert(tbl, s, row)[x] = tbl[x]
  BY DEF Insert
<1> QED BY <1>1, RetainsSelf DEF AllSane, AllRetained

LEMMA DeleteRowsSane ==
    ASSUME NEW tbl, NEW now, AllSane(tbl, now), NEW gone
    PROVE  /\ AllSane(DeleteRows(tbl, gone), now) /\ AllRetained(tbl, DeleteRows(tbl, gone))
           /\ DOMAIN DeleteRows(tbl, gone) \subseteq DOMAIN tbl
<1>1. /\ DOMAIN DeleteRows(tbl, gone) \subseteq DOMAIN tbl
      /\ \A s \in DOMAIN DeleteRows(tbl, gone) : DeleteRows(tbl, gone)[s] = tbl[s]
  BY DEF DeleteRows, Restrict
<1> HIDE DEF DeleteRows
<1> QED BY <1>1, RetainsSelf DEF AllSane, AllRetained

\* A new row has no ledger, and its slot is one that sessions can fill.
LEMMA NewRowSane ==
    ASSUME NEW parent \in Session \cup {Null}, NEW slot \in Nat \cup {Null},
           NEW origin, NEW t, NEW now, OnTime(t, now),
           slot = Null \/ slot <= Cardinality(Session)
    PROVE  Sane(NewRow(parent, slot, origin, t), now)
  BY Bounds DEF Sane, OnTime, NewRow

LEMMA SessionStartSane ==
    ASSUME NEW tbl, Sound(tbl), NEW now \in Nat, AllSane(tbl, now), NEW s \in Session,
           NEW origin \in Origin \cup {Null}, NEW t, OnTime(t, now)
    PROVE  /\ AllSane(SessionStart(tbl, s, origin, t), now)
           /\ DOMAIN tbl \subseteq DOMAIN SessionStart(tbl, s, origin, t)
           /\ s \notin DOMAIN tbl => AllRetained(tbl, SessionStart(tbl, s, origin, t))
           /\ \A x \in DOMAIN tbl \ {s} : SessionStart(tbl, s, origin, t)[x] = tbl[x]
<1>1. CASE s \in DOMAIN tbl
  <2> DEFINE new == SessionStart(tbl, s, origin, t)
  <2>1. new = [x \in DOMAIN tbl |-> IF x \in {s} \cap TopLevel(tbl)
                                    THEN Restarted(tbl[x], origin, t) ELSE tbl[x]]
    BY <1>1 DEF SessionStart, Rewrite
  <2>2. \A x \in DOMAIN tbl : Sane(new[x], now)
    BY <2>1, RowOf, RestartedSane DEF Sound, AllSane
  <2>3. DOMAIN new = DOMAIN tbl /\ \A x \in DOMAIN tbl \ {s} : new[x] = tbl[x]
    BY <2>1
  <2> HIDE DEF new
  <2>4. AllSane(new, now) /\ DOMAIN tbl \subseteq DOMAIN new
    BY <1>1, <2>2, <2>3 DEF AllSane
  <2> QED BY <1>1, <2>3, <2>4 DEF new
<1>2. CASE s \notin DOMAIN tbl
  <2> DEFINE slot == LowestFreeSlot(tbl)
             row == NewRow(Null, slot, origin, t)
  <2>1. Cardinality(DOMAIN tbl) + 1 <= Cardinality(Session)
    <3>1. /\ DOMAIN tbl \cup {s} \subseteq Session /\ IsFiniteSet(Session)
          /\ IsFiniteSet(DOMAIN tbl)
      BY SessionAssumption, FS_Subset DEF Sound, IsTable
    <3>2. Cardinality(DOMAIN tbl \cup {s}) = Cardinality(DOMAIN tbl) + 1
      BY <1>2, <3>1, FS_AddElement
    <3> QED BY <3>1, <3>2, FS_Subset
  <2>2. /\ slot \in Nat /\ Cardinality(Session) \in Nat /\ Cardinality(DOMAIN tbl) \in Nat
        /\ slot <= Cardinality(DOMAIN tbl) + 1
    BY FreeSlot, SessionAssumption, FS_Subset, FS_CardinalityType DEF Sound, IsTable
  <2> HIDE DEF slot
  <2>3. slot <= Cardinality(Session)
    BY <2>1, <2>2
  <2>4. Sane(row, now)
    BY <2>2, <2>3, NewRowSane
  <2> HIDE DEF row
  <2> QED BY <1>2, <2>4, InsertSane DEF SessionStart, row, slot
<1> QED BY <1>1, <1>2

LEMMA SessionObservedSane ==
    ASSUME NEW tbl, Sound(tbl), NEW now \in Nat, AllSane(tbl, now), NEW s \in Session,
           NEW origin \in Origin \cup {Null}, NEW t, OnTime(t, now)
    PROVE  /\ AllSane(SessionObserved(tbl, s, origin, t), now)
           /\ AllRetained(tbl, SessionObserved(tbl, s, origin, t))
           /\ DOMAIN tbl \subseteq DOMAIN SessionObserved(tbl, s, origin, t)
<1>1. CASE s \in DOMAIN tbl
  <2> DEFINE new == SessionObserved(tbl, s, origin, t)
             kept == IF origin = Null THEN tbl[s].origin ELSE origin
  <2>1. new = [x \in DOMAIN tbl |-> IF x = s THEN [tbl[s] EXCEPT !.origin = kept] ELSE tbl[x]]
    BY <1>1, RowOf DEF Sound, SessionObserved, Rewrite, Row
  <2> HIDE DEF kept
  <2>2. \A x \in DOMAIN tbl : Sane(new[x], now) /\ Retains(tbl[x], new[x])
    BY <2>1, RowOf, OriginSane, RetainsSelf DEF Sound, AllSane
  <2>3. DOMAIN new = DOMAIN tbl /\ DOMAIN tbl \subseteq DOMAIN new
    BY <1>1, <2>1
  <2> HIDE DEF new
  <2>4. AllSane(new, now) /\ AllRetained(tbl, new)
    BY <2>2, <2>3, RewriteSane
  <2> QED BY <2>3, <2>4 DEF new
<1>2. CASE s \notin DOMAIN tbl
  <2>1. SessionObserved(tbl, s, origin, t) = SessionStart(tbl, s, origin, t)
    BY <1>2 DEF SessionObserved
  <2>2. /\ AllSane(SessionStart(tbl, s, origin, t), now)
        /\ DOMAIN tbl \subseteq DOMAIN SessionStart(tbl, s, origin, t)
        /\ AllRetained(tbl, SessionStart(tbl, s, origin, t))
    BY <1>2, SessionStartSane
  <2> QED BY <2>1, <2>2
<1> QED BY <1>1, <1>2

LEMMA SubagentStartSane ==
    ASSUME NEW tbl, Sound(tbl), NEW now \in Nat, AllSane(tbl, now),
           NEW child \in Session, NEW parent \in Session, NEW t, OnTime(t, now)
    PROVE  /\ AllSane(SubagentStart(tbl, child, parent, t), now)
           /\ AllRetained(tbl, SubagentStart(tbl, child, parent, t))
           /\ DOMAIN tbl \subseteq DOMAIN SubagentStart(tbl, child, parent, t)
<1>1. CASE ~ValidProspectiveParent(tbl, child, parent)
  <2>1. SubagentStart(tbl, child, parent, t) = tbl
    BY <1>1 DEF SubagentStart
  <2> QED BY <2>1, RetainsSelf DEF AllRetained
<1>2. CASE ValidProspectiveParent(tbl, child, parent) /\ child \notin DOMAIN tbl
  <2> DEFINE row == NewRow(parent, Null, Null, t)
  <2>1. SubagentStart(tbl, child, parent, t) = Insert(tbl, child, row)
    BY <1>2 DEF SubagentStart
  <2>2. Sane(row, now)
    BY NewRowSane
  <2> HIDE DEF row
  <2>3. /\ AllSane(Insert(tbl, child, row), now) /\ AllRetained(tbl, Insert(tbl, child, row))
        /\ DOMAIN tbl \subseteq DOMAIN Insert(tbl, child, row)
    BY <1>2, <2>2, InsertSane
  <2> QED BY <2>1, <2>3
<1>3. CASE ValidProspectiveParent(tbl, child, parent) /\ child \in DOMAIN tbl
  <2> DEFINE new == SubagentStart(tbl, child, parent, t)
  <2>1. new = [x \in DOMAIN tbl |-> IF x \in {child} \ TopLevel(tbl)
                  THEN [StatusRow(tbl[x], "idle", t) EXCEPT !.parent = parent] ELSE tbl[x]]
    BY <1>3 DEF SubagentStart, Rewrite
  <2>2. ASSUME NEW x \in DOMAIN tbl
        PROVE  Sane(new[x], now) /\ Retains(tbl[x], new[x])
    <3> DEFINE idle == StatusRow(tbl[x], "idle", t)
               hung == [idle EXCEPT !.parent = parent]
    <3>1. tbl[x] \in Row /\ Sane(tbl[x], now)
      BY RowOf DEF Sound, AllSane
    <3>2. Sane(idle, now) /\ Retains(tbl[x], idle) /\ idle \in Row
      BY <3>1, StatusRowSane, StatusRowKeeps DEF Status, OnTime, Keeps
    <3>3. new[x] = hung \/ new[x] = tbl[x]
      BY <2>1
    <3> HIDE DEF new, idle
    <3>4. Sane(hung, now) /\ Retains(tbl[x], hung)
      BY <3>2 DEF Sane, Retains, Row
    <3> QED BY <3>1, <3>3, <3>4, RetainsSelf
  <2>3. DOMAIN new = DOMAIN tbl
    BY <2>1
  <2> HIDE DEF new
  <2>4. AllSane(new, now) /\ AllRetained(tbl, new)
    BY <2>2, <2>3, RewriteSane
  <2> QED BY <2>3, <2>4 DEF new
<1> QED BY <1>1, <1>2, <1>3

LEMMA ApplyStatusEventSane ==
    ASSUME NEW tbl, Sound(tbl), NEW now \in Nat, AllSane(tbl, now),
           NEW s, NEW kind \in StatusEvent, NEW t, OnTime(t, now)
    PROVE  /\ AllSane(ApplyStatusEvent(tbl, s, kind, t), now)
           /\ AllRetained(tbl, ApplyStatusEvent(tbl, s, kind, t))
           /\ DOMAIN ApplyStatusEvent(tbl, s, kind, t) = DOMAIN tbl
<1> DEFINE new == ApplyStatusEvent(tbl, s, kind, t)
<1>1. new = [x \in DOMAIN tbl |-> IF x \in {s} THEN AfterStatusEvent(tbl[x], kind, t) ELSE tbl[x]]
  BY DEF ApplyStatusEvent, Rewrite
<1>2. \A x \in DOMAIN tbl : Sane(new[x], now) /\ Retains(tbl[x], new[x])
  BY <1>1, RowOf, AfterStatusEventSane, RetainsSelf DEF Sound, AllSane
<1>3. DOMAIN new = DOMAIN tbl
  BY <1>1
<1> HIDE DEF new
<1>4. AllSane(new, now) /\ AllRetained(tbl, new)
  BY <1>2, <1>3, RewriteSane
<1> QED BY <1>3, <1>4 DEF new

LEMMA StatusObservedSane ==
    ASSUME NEW tbl, Sound(tbl), NEW now \in Nat, AllSane(tbl, now),
           NEW s, NEW status \in Status, NEW t, OnTime(t, now)
    PROVE  /\ AllSane(StatusObserved(tbl, s, status, t), now)
           /\ AllRetained(tbl, StatusObserved(tbl, s, status, t))
           /\ DOMAIN StatusObserved(tbl, s, status, t) = DOMAIN tbl
<1> DEFINE new == StatusObserved(tbl, s, status, t)
<1>1. new = [x \in DOMAIN tbl |->
               IF x \in {s} THEN IF tbl[x].status = status THEN tbl[x]
                                 ELSE StatusRow(tbl[x], status, t)
                            ELSE tbl[x]]
  BY DEF StatusObserved, Rewrite
<1>2. \A x \in DOMAIN tbl : Sane(new[x], now) /\ Retains(tbl[x], new[x])
  BY <1>1, RowOf, StatusRowSane, RetainsSelf DEF Sound, AllSane
<1>3. DOMAIN new = DOMAIN tbl
  BY <1>1
<1> HIDE DEF new
<1>4. AllSane(new, now) /\ AllRetained(tbl, new)
  BY <1>2, <1>3, RewriteSane
<1> QED BY <1>3, <1>4 DEF new

\* Rows are deleted whole; no deletion touches the ledger of a survivor.
LEMMA DeletionsSane ==
    ASSUME NEW tbl, NEW now, AllSane(tbl, now), NEW new,
           \/ \E s, hints : new = DeletePaseoSubtree(tbl, s, hints)
           \/ \E s : new \in {SessionEnd(tbl, s), SubagentStop(tbl, s), ClearSession(tbl, s)}
           \/ new = ClearAllSessions(tbl)
           \/ \E cutoff, zcodeCutoff : new = PruneStaleSessions(tbl, cutoff, zcodeCutoff)
    PROVE  AllSane(new, now) /\ AllRetained(tbl, new) /\ DOMAIN new \subseteq DOMAIN tbl
<1>1. new = tbl \/ \E gone : new = DeleteRows(tbl, gone)
  BY DEF DeletePaseoSubtree, SessionEnd, SubagentStop, ClearSession, ClearAllSessions,
         PruneStaleSessions
<1>2. CASE new = tbl
  BY <1>2, RetainsSelf DEF AllRetained
<1>3. ASSUME NEW gone, new = DeleteRows(tbl, gone)
      PROVE  AllSane(new, now) /\ AllRetained(tbl, new) /\ DOMAIN new \subseteq DOMAIN tbl
  BY <1>3, DeleteRowsSane
<1> QED BY <1>1, <1>2, <1>3

\* A view keeps every done mark; a dismissal keeps nothing; the sweep takes
\* nothing unviewed.
LEMMA ViewSessionSane ==
    ASSUME NEW tbl, Sound(tbl), NEW now \in Nat, AllSane(tbl, now),
           NEW s, NEW at, OnTime(at, now), NEW wm
    PROVE  LET new == ViewSession(tbl, s, at, wm)
           IN  /\ AllSane(new, now) /\ DOMAIN new = DOMAIN tbl
               /\ \A x \in DOMAIN tbl : new[x].done = tbl[x].done
<1> DEFINE new == ViewSession(tbl, s, at, wm)
           reached == {x \in PaseoSubtree(tbl, s, NoHints) \cap DOMAIN tbl :
                          /\ Consumable(tbl[x], wm)
                          /\ x = s \/ tbl[x].done # Null \/ tbl[x].unread # Null}
<1>1. new = [x \in DOMAIN tbl |-> IF x \in reached THEN Viewed(tbl[x], at) ELSE tbl[x]]
  BY DEF ViewSession, Rewrite
<1> HIDE DEF reached
<1>2. \A x \in DOMAIN tbl : Sane(new[x], now) /\ new[x].done = tbl[x].done
  BY <1>1, RowOf, ViewedSane DEF Sound, AllSane
<1>3. DOMAIN new = DOMAIN tbl
  BY <1>1
<1> HIDE DEF new
<1>4. AllSane(new, now)
  BY <1>2, <1>3 DEF AllSane
<1> QED BY <1>2, <1>3, <1>4 DEF new

LEMMA AcknowledgeSessionSane ==
    ASSUME NEW tbl, Sound(tbl), NEW now \in Nat, AllSane(tbl, now),
           NEW s, NEW at, OnTime(at, now), NEW wm
    PROVE  AllSane(AcknowledgeSession(tbl, s, at, wm), now)
<1> DEFINE new == AcknowledgeSession(tbl, s, at, wm)
           reached == {x \in PaseoSubtree(tbl, s, NoHints) \cap DOMAIN tbl :
                          HoldsResult(tbl[x]) /\ Consumable(tbl[x], wm)}
<1>1. new = [x \in DOMAIN tbl |->
               IF x \in reached THEN [Released(tbl[x], at) EXCEPT !.acked = at] ELSE tbl[x]]
  BY DEF AcknowledgeSession, Rewrite
<1> HIDE DEF reached
<1>2. ASSUME NEW x \in DOMAIN tbl PROVE Sane(new[x], now)
  <2> DEFINE released == [Released(tbl[x], at) EXCEPT !.acked = at]
  <2>1. Sane(tbl[x], now) /\ Sane(released, now)
    BY RowOf, ReleasedSane DEF Sound, AllSane
  <2>2. new[x] = released \/ new[x] = tbl[x]
    BY <1>1
  <2> HIDE DEF new, released
  <2> QED BY <2>1, <2>2
<1>3. DOMAIN new = DOMAIN tbl
  BY <1>1
<1> HIDE DEF new
<1> QED BY <1>2, <1>3 DEF AllSane, new

LEMMA SweepExpiredResultsSane ==
    ASSUME NEW tbl, Sound(tbl), NEW now \in Nat, AllSane(tbl, now), NEW cutoff
    PROVE  LET new == SweepExpiredResults(tbl, cutoff, now)
           IN  /\ AllSane(new, now)
               /\ DOMAIN new = DOMAIN tbl
               /\ \A x \in DOMAIN tbl : tbl[x].unread # Null => new[x] = tbl[x]
<1> DEFINE new == SweepExpiredResults(tbl, cutoff, now)
           expired == {s \in DOMAIN tbl : Expired(tbl[s], cutoff)}
<1>1. new = [x \in DOMAIN tbl |-> IF x \in expired THEN Released(tbl[x], now) ELSE tbl[x]]
  BY DEF SweepExpiredResults, Rewrite
<1>2. \A x \in expired : tbl[x].unread = Null
  BY DEF Expired
<1> HIDE DEF expired
<1>3. OnTime(now, now)
  BY Bounds DEF OnTime
<1>4. ASSUME NEW x \in DOMAIN tbl PROVE Sane(new[x], now)
  <2>1. Sane(tbl[x], now) /\ Sane(Released(tbl[x], now), now)
    BY <1>3, RowOf, ReleasedSane DEF Sound, AllSane
  <2>2. new[x] = Released(tbl[x], now) \/ new[x] = tbl[x]
    BY <1>1
  <2> HIDE DEF new
  <2> QED BY <2>1, <2>2
<1>5. DOMAIN new = DOMAIN tbl /\ \A x \in DOMAIN tbl : tbl[x].unread # Null => new[x] = tbl[x]
  BY <1>1, <1>2
<1> HIDE DEF new
<1>6. AllSane(new, now)
  BY <1>4, <1>5 DEF AllSane
<1> QED BY <1>5, <1>6 DEF new

LEMMA SyncPaseoRecordSane ==
    ASSUME NEW tbl, Sound(tbl), NEW now \in Nat, AllSane(tbl, now),
           NEW r \in PaseoRecord, Dating(r, now), NEW pass, NEW bgCutoff
    PROVE  LET new == SyncPaseoRecord(tbl, r, pass, bgCutoff)
           IN  AllSane(new, now) /\ AllRetained(tbl, new) /\ DOMAIN new \subseteq DOMAIN tbl
<1>1. CASE r.archived
  BY <1>1, DeletionsSane DEF SyncPaseoRecord
<1>2. CASE ~r.archived
  <2> DEFINE joined == {r.session} \cap TopLevel(tbl)
             synced == [x \in DOMAIN tbl |->
                          IF x \in joined THEN Settled(Mirrored(tbl[x], r), r, bgCutoff)
                                          ELSE tbl[x]]
             left == Abandoned(synced, r, pass)
             new == [x \in DOMAIN synced |->
                       IF x \in left THEN LeftBehind(synced[x], r) ELSE synced[x]]
  <2>1. SyncPaseoRecord(tbl, r, pass, bgCutoff) = new
    BY <1>2 DEF SyncPaseoRecord, Rewrite
  <2>2. ASSUME NEW x \in DOMAIN tbl
        PROVE  Sane(synced[x], now) /\ Retains(tbl[x], synced[x]) /\ synced[x] \in Row
    <3>1. tbl[x] \in Row /\ Sane(tbl[x], now)
      BY RowOf DEF Sound, AllSane
    <3> DEFINE seen == Mirrored(tbl[x], r)
               settled == Settled(seen, r, bgCutoff)
    <3>2. seen \in Row /\ Sane(seen, now) /\ Retains(tbl[x], seen)
      BY <3>1, MirroredSane, MirroredKeeps DEF Keeps
    <3> HIDE DEF seen
    <3>3. settled \in Row /\ Sane(settled, now) /\ Retains(seen, settled)
      BY <3>2, SettledSane, SettledKeeps DEF Keeps
    <3>4. synced[x] = settled \/ synced[x] = tbl[x]
      BY DEF seen
    <3> HIDE DEF synced, settled
    <3> QED BY <3>1, <3>2, <3>3, <3>4, RetainsSelf, RetainsTwice
  <2> HIDE DEF left
  <2>3. ASSUME NEW x \in DOMAIN tbl
        PROVE  Sane(new[x], now) /\ Retains(tbl[x], new[x])
    <3>1. new[x] = LeftBehind(synced[x], r) \/ new[x] = synced[x]
      OBVIOUS
    <3> HIDE DEF new, synced
    <3> QED BY <2>2, <3>1, LeftBehindSane, RetainsTwice
  <2>4. DOMAIN new = DOMAIN tbl
    OBVIOUS
  <2> HIDE DEF new, synced
  <2>5. AllSane(new, now) /\ AllRetained(tbl, new)
    BY <2>3, <2>4, RewriteSane
  <2> QED BY <2>1, <2>4, <2>5
<1> QED BY <1>1, <1>2

LEMMA ReconcileEvenerSane ==
    ASSUME NEW tbl, NEW now, AllSane(tbl, now), NEW archived, NEW active
    PROVE  LET new == ReconcileEvener(tbl, archived, active)
           IN  AllSane(new, now) /\ AllRetained(tbl, new) /\ DOMAIN new \subseteq DOMAIN tbl
<1> DEFINE mid == DropArchivedRoots(tbl, archived)
           new == KeepActiveChildren(mid, active)
<1>1. AllSane(mid, now) /\ AllRetained(tbl, mid) /\ DOMAIN mid \subseteq DOMAIN tbl
  BY DeleteRowsSane, RetainsSelf DEF DropArchivedRoots, AllRetained
<1> HIDE DEF mid
<1>2. AllSane(new, now) /\ AllRetained(mid, new) /\ DOMAIN new \subseteq DOMAIN mid
  BY <1>1, DeleteRowsSane, RetainsSelf DEF KeepActiveChildren, AllRetained
<1> HIDE DEF new
<1>3. AllRetained(tbl, new)
  BY <1>1, <1>2, RetainedTwice
<1> QED BY <1>1, <1>2, <1>3 DEF ReconcileEvener, new, mid

-----------------------------------------------------------------------------
(***************************************************************************)
(* The registry.                                                           *)
(***************************************************************************)

\* What an open overlay transaction adds: the table its rollback restores is
\* sane, no record applied so far took a result out of it or a row into it,
\* and the records still to apply date from the past.  Without the second
\* part the commit, which shows the user all the records at once, could hide
\* a lost result behind several steps.
PendingSane == /\ AllSane(txn.before, clock)
               /\ AllRetained(txn.before, rows) /\ DOMAIN rows \subseteq DOMAIN txn.before
               /\ \A i \in DOMAIN txn.todo : Dating(txn.todo[i], clock)
LedgerInv == /\ IInv
             /\ AllSane(rows, clock)
             /\ txn # Null => PendingSane

LEMMA LedgerInit == Init => AllSane(rows, clock) /\ txn = Null
<1> SUFFICES ASSUME Init PROVE AllSane(rows, 0)
  BY DEF Init
<1>1. CASE rows = [s \in {} |-> Null]
  BY <1>1 DEF AllSane
<1>2. CASE \E s \in Session, unread \in {Null, 0} : rows = [x \in {s} |-> LegacyRow(x, unread)]
  <2>1. PICK s \in Session, unread \in {Null, 0} : rows = [x \in {s} |-> LegacyRow(x, unread)]
    BY <1>2
  <2>2. 1 <= Cardinality(Session)
    <3>1. Cardinality(Session) # 0 /\ Cardinality(Session) \in Nat
      BY SessionAssumption, FS_EmptySet, FS_CardinalityType
    <3> QED BY <3>1
  <2>3. Sane(LegacyRow(s, unread), 0)
    BY <2>2, Bounds DEF Sane, LegacyRow, NewRow
  <2>4. DOMAIN rows = {s} /\ rows[s] = LegacyRow(s, unread)
    BY <2>1
  <2> QED BY <2>3, <2>4 DEF AllSane
<1> QED BY <1>1, <1>2 DEF Init

\* Outside an overlay pass a write is committed as it is made.
LEMMA WriteCommits ==
    ASSUME NEW tbl, Write(tbl), AllSane(tbl, clock)
    PROVE  /\ AllSane(rows, clock)' /\ (txn # Null => PendingSane)'
           /\ rows' = tbl /\ Committed = rows /\ Committed' = tbl
  BY DEF Write, Committed, AllSane

LEMMA RetainedAccounts ==
    ASSUME AllRetained(Committed, Committed')
    PROVE  ReleasedOnly
  BY DEF ReleasedOnly, Survivors, AllRetained, Retains

\* A write that is safe by itself: it keeps the rows sane and takes nothing.
LEMMA HarmlessWrite ==
    ASSUME NEW tbl, Write(tbl), AllSane(tbl, clock), AllRetained(rows, tbl)
    PROVE  /\ AllSane(rows, clock)' /\ (txn # Null => PendingSane)'
           /\ ReleasedOnly
  BY WriteCommits, RetainedAccounts

LEMMA HookStepLedger ==
    ASSUME LedgerInv, HookStep
    PROVE  AllSane(rows, clock)' /\ (txn # Null => PendingSane)' /\ ReleasedOnly
<1>1. PICK s \in Session, t \in HookInstants :
        \/ \E o \in HookOrigin : SessionStartHook(s, o, t)
        \/ \E o \in HookOrigin : CompactHook(s, o, t)
        \/ \E o \in HookOrigin, n \in BOOLEAN : PromptHook(s, o, t, n)
        \/ \E kind \in StatusEvent : TurnHook(s, kind, t)
        \/ \E kind \in StatusEvent : BackgroundHook(s, kind, t)
        \/ SessionEndHook(s)
        \/ \E p \in Session : SubagentStartHook(s, p, t)
        \/ SubagentStopHook(s)
  BY DEF HookStep
<1>2. /\ clock \in Nat /\ OnTime(t, clock) /\ t \in Nat
      /\ Sound(rows) /\ AllSane(rows, clock) /\ IInv
      /\ HookOrigin \subseteq Origin \cup {Null}
  BY ClockFacts, HookOnTime DEF LedgerInv, IInv, HookOrigin
<1> DEFINE Done == AllSane(rows, clock)' /\ (txn # Null => PendingSane)' /\ ReleasedOnly
<1>3. ASSUME NEW o \in HookOrigin, SessionStartHook(s, o, t) PROVE Done
  <2> DEFINE new == SessionStart(rows, s, o, t)
  <2>1. AllSane(new, clock) /\ \A x \in DOMAIN rows \ {s} : new[x] = rows[x]
    BY <1>2, SessionStartSane
  <2>2. AllSane(new, clock) /\ Write(new)
    BY <1>3, <2>1 DEF SessionStartHook
  <2> HIDE DEF new
  <2>3. Committed = rows /\ Committed' = new
    BY <2>2, WriteCommits
  <2>4. ReleasedOnly
    <3> SUFFICES ASSUME NEW x \in DOMAIN rows, rows[x] # new[x]
                 PROVE  Released_(x, rows[x])
      BY <2>3 DEF ReleasedOnly, Survivors
    <3>1. x = s
      BY <2>1
    <3> QED BY <1>3, <3>1 DEF Released_
  <2> QED BY <2>2, <2>4, WriteCommits
<1>4. ASSUME NEW o \in HookOrigin, CompactHook(s, o, t) PROVE Done
  BY <1>2, <1>4, SessionObservedSane, HarmlessWrite DEF CompactHook
<1>5. ASSUME NEW o \in HookOrigin, NEW n \in BOOLEAN, PromptHook(s, o, t, n) PROVE Done
  <2> DEFINE joined  == SessionObserved(rows, s, o, t)
             working == ApplyStatusEvent(joined, s, "Activity", t)
             cleared == ApplyStatusEvent(working, s, "BackgroundWorkCleared", t)
  <2>1. /\ Sound(joined) /\ AllSane(joined, clock) /\ AllRetained(rows, joined)
        /\ DOMAIN rows \subseteq DOMAIN joined
    <3>1. Sound(joined)
      BY <1>2, SessionObservedSound
    <3>2. AllSane(joined, clock) /\ AllRetained(rows, joined) /\ DOMAIN rows \subseteq DOMAIN joined
      BY <1>2, SessionObservedSane
    <3> QED BY <3>1, <3>2
  <2> HIDE DEF joined
  <2>2. /\ Sound(working) /\ AllSane(working, clock) /\ AllRetained(joined, working)
        /\ DOMAIN working = DOMAIN joined
    BY <1>2, <2>1, ApplyStatusEventSound, ApplyStatusEventSane DEF StatusEvent
  <2> HIDE DEF working
  <2>3. AllSane(cleared, clock) /\ AllRetained(working, cleared)
    BY <1>2, <2>2, ApplyStatusEventSane DEF StatusEvent
  <2>4. Write(working) \/ Write(cleared)
    BY <1>5 DEF PromptHook, joined, working
  <2> HIDE DEF cleared
  <2>5. AllRetained(rows, working)
    BY <2>1, <2>2, RetainedTwice
  <2>6. AllRetained(rows, cleared)
    BY <2>1, <2>2, <2>3, <2>5, RetainedTwice
  <2> QED BY <2>2, <2>3, <2>4, <2>5, <2>6, HarmlessWrite
<1>6. ASSUME NEW kind \in StatusEvent, TurnHook(s, kind, t) PROVE Done
  BY <1>2, <1>6, ApplyStatusEventSane, HarmlessWrite DEF TurnHook
<1>7. ASSUME NEW kind \in StatusEvent, BackgroundHook(s, kind, t) PROVE Done
  <2> DEFINE working == ApplyStatusEvent(rows, s, "Activity", t)
             flagged == ApplyStatusEvent(working, s, kind, t)
  <2>1. /\ Sound(working) /\ AllSane(working, clock) /\ AllRetained(rows, working)
        /\ DOMAIN working = DOMAIN rows
    BY <1>2, ApplyStatusEventSound, ApplyStatusEventSane DEF StatusEvent
  <2> HIDE DEF working
  <2>2. AllSane(flagged, clock) /\ AllRetained(working, flagged)
    BY <1>2, <2>1, ApplyStatusEventSane
  <2>3. Write(flagged)
    BY <1>7 DEF BackgroundHook, working
  <2> HIDE DEF flagged
  <2>4. AllRetained(rows, flagged)
    BY <2>1, <2>2, RetainedTwice
  <2> QED BY <2>2, <2>3, <2>4, HarmlessWrite
<1>8. CASE SessionEndHook(s)
  BY <1>2, <1>8, DeletionsSane, HarmlessWrite DEF SessionEndHook
<1>9. ASSUME NEW p \in Session, SubagentStartHook(s, p, t) PROVE Done
  BY <1>2, <1>9, SubagentStartSane, HarmlessWrite DEF SubagentStartHook
<1>10. CASE SubagentStopHook(s)
  BY <1>2, <1>10, DeletionsSane, HarmlessWrite DEF SubagentStopHook
<1> QED BY <1>1, <1>3, <1>4, <1>5, <1>6, <1>7, <1>8, <1>9, <1>10

LEMMA GestureStepLedger ==
    ASSUME LedgerInv, GestureStep
    PROVE  AllSane(rows, clock)' /\ (txn # Null => PendingSane)' /\ ReleasedOnly
<1> DEFINE Done == AllSane(rows, clock)' /\ (txn # Null => PendingSane)' /\ ReleasedOnly
<1>1. clock \in Nat /\ Sound(rows) /\ AllSane(rows, clock) /\ IInv
  BY ClockFacts DEF LedgerInv, IInv
<1>2. ASSUME NEW s \in Session, NEW t \in HookInstants, NEW wm \in Watermarks, View(s, t, wm)
      PROVE  Done
  <2> DEFINE new == ViewSession(rows, s, t, wm)
  <2>1. /\ AllSane(new, clock) /\ DOMAIN new = DOMAIN rows
        /\ \A x \in DOMAIN rows : new[x].done = rows[x].done
    BY <1>1, HookOnTime, ViewSessionSane
  <2>2. Write(new)
    BY <1>2 DEF View
  <2> HIDE DEF new
  <2>3. Committed = rows /\ Committed' = new
    BY <2>1, <2>2, WriteCommits
  <2>4. ReleasedOnly
    BY <1>2, <2>1, <2>3 DEF ReleasedOnly, Survivors
  <2> QED BY <2>1, <2>2, <2>4, WriteCommits
<1>3. ASSUME NEW s \in Session, NEW t \in HookInstants, NEW wm \in Watermarks, Acknowledge(s, t, wm)
      PROVE  Done
  <2>1. Write(AcknowledgeSession(rows, s, t, wm))
        /\ AllSane(AcknowledgeSession(rows, s, t, wm), clock)
    BY <1>1, <1>3, HookOnTime, AcknowledgeSessionSane DEF Acknowledge
  <2>2. ReleasedOnly
    BY <1>3 DEF ReleasedOnly, Survivors, Released_
  <2> QED BY <2>1, <2>2, WriteCommits
<1>4. ASSUME NEW s \in Session, Clear(s) PROVE Done
  BY <1>1, <1>4, DeletionsSane, HarmlessWrite DEF Clear
<1>5. CASE ClearAll
  BY <1>1, <1>5, DeletionsSane, HarmlessWrite DEF ClearAll
<1>6. ASSUME NEW cutoff, OperatorPrune(cutoff) PROVE Done
  BY <1>1, <1>6, DeletionsSane, HarmlessWrite DEF OperatorPrune
<1> QED BY <1>2, <1>3, <1>4, <1>5, <1>6 DEF GestureStep

LEMMA SweepDueLedger ==
    ASSUME LedgerInv, SweepDue
    PROVE  AllSane(rows, clock)' /\ (txn # Null => PendingSane)' /\ ReleasedOnly
<1> DEFINE new == SweepExpiredResults(rows, clock - Expiry, clock)
<1>1. clock \in Nat /\ Sound(rows) /\ AllSane(rows, clock)
  BY ClockFacts DEF LedgerInv, IInv
<1>2. /\ AllSane(new, clock) /\ DOMAIN new = DOMAIN rows
      /\ \A x \in DOMAIN rows : rows[x].unread # Null => new[x] = rows[x]
  BY <1>1, SweepExpiredResultsSane
<1>3. Write(new)
  BY DEF SweepDue
<1> HIDE DEF new
<1>4. Committed = rows /\ Committed' = new
  BY <1>2, <1>3, WriteCommits
<1>5. ReleasedOnly
  BY <1>2, <1>4 DEF ReleasedOnly, Survivors, Released_
<1> QED BY <1>2, <1>3, <1>5, WriteCommits

\* The records of a pass date from the past, in whatever order.
LEMMA DatedDating ==
    ASSUME IInv, NEW shapes,
           NEW attention \in [DOMAIN shapes -> Stamps], NEW updated \in [DOMAIN shapes -> Stamps],
           NEW i \in DOMAIN Dated(shapes, attention, updated)
    PROVE  Dating(Dated(shapes, attention, updated)[i], clock)
  BY DEF Dated, Dating, Stamps

LEMMA TailDating ==
    ASSUME NEW todo \in Pass, todo # <<>>, NEW now, \A i \in DOMAIN todo : Dating(todo[i], now)
    PROVE  /\ Dating(Head(todo), now)
           /\ \A i \in DOMAIN Tail(todo) : Dating(Tail(todo)[i], now)
<1>1. Len(todo) \in Nat /\ Len(todo) >= 1 /\ DOMAIN todo = 1..Len(todo) /\ Head(todo) = todo[1]
  BY DEF Pass
<1>2. DOMAIN Tail(todo) = 1..(Len(todo) - 1)
      /\ \A i \in 1..(Len(todo) - 1) : Tail(todo)[i] = todo[i + 1]
  BY DEF Pass
<1> QED BY <1>1, <1>2

LEMMA PaseoStepLedger ==
    ASSUME LedgerInv, PaseoStep
    PROVE  AllSane(rows, clock)' /\ (txn # Null => PendingSane)' /\ ReleasedOnly
<1> DEFINE Done == AllSane(rows, clock)' /\ (txn # Null => PendingSane)' /\ ReleasedOnly
<1>1. clock \in Nat /\ Sound(rows) /\ AllSane(rows, clock) /\ IInv
  BY ClockFacts DEF LedgerInv, IInv
<1>2. ASSUME NEW shapes \in PaseoPasses, NEW attention \in [DOMAIN shapes -> Stamps],
             NEW updated \in [DOMAIN shapes -> Stamps],
             BeginPaseoSync(Dated(shapes, attention, updated))
      PROVE  Done
  <2> DEFINE pass == Dated(shapes, attention, updated)
  <2>1. \A i \in DOMAIN pass : Dating(pass[i], clock)
    BY <1>1, DatedDating
  <2>2. BeginPaseoSync(pass)
    BY <1>2
  <2> HIDE DEF pass
  <2>3. /\ txn = Null /\ txn' = [todo |-> pass, pass |-> pass, before |-> rows]
        /\ rows' = rows /\ clock' = clock
    BY <2>2 DEF BeginPaseoSync
  <2>4. AllRetained(rows, rows)
    BY RetainsSelf DEF AllRetained
  <2>5. txn' # Null => PendingSane'
    BY <1>1, <2>1, <2>3, <2>4 DEF PendingSane
  <2>6. Committed = rows /\ Committed' = rows
    BY <2>3 DEF Committed
  <2> QED BY <1>1, <2>3, <2>4, <2>5, <2>6, RetainedAccounts
<1>3. CASE SyncRecord
  <2> DEFINE r == Head(txn.todo)
             new == SyncPaseoRecord(rows, r, txn.pass, clock - BgGrace)
  <2>1. /\ txn # Null /\ IsTxn(txn) /\ txn.todo # <<>> /\ PendingSane
        /\ rows' = new /\ clock' = clock
        /\ txn' = [txn EXCEPT !.todo = Tail(@)]
    BY <1>3 DEF SyncRecord, LedgerInv, IInv, TypeOK
  <2>2. r \in PaseoRecord /\ Dating(r, clock)
        /\ \A i \in DOMAIN Tail(txn.todo) : Dating(Tail(txn.todo)[i], clock)
    <3>1. txn.todo \in Pass
      BY <2>1 DEF IsTxn
    <3>2. \A i \in DOMAIN txn.todo : Dating(txn.todo[i], clock)
      BY <2>1 DEF PendingSane
    <3>3. r \in PaseoRecord
      BY <2>1, <3>1 DEF Pass
    <3> QED BY <2>1, <3>1, <3>2, <3>3, TailDating
  <2> HIDE DEF r
  <2>3. AllSane(new, clock) /\ AllRetained(rows, new) /\ DOMAIN new \subseteq DOMAIN rows
    BY <1>1, <2>2, SyncPaseoRecordSane
  <2> HIDE DEF new
  <2>4. txn' = [todo |-> Tail(txn.todo), pass |-> txn.pass, before |-> txn.before]
    BY <2>1 DEF IsTxn
  <2>5. /\ txn'.before = txn.before /\ txn'.todo = Tail(txn.todo)
        /\ txn' # Null => Committed' = txn.before
        /\ Committed = txn.before
    BY <2>1, <2>4 DEF Committed
  <2>6. AllRetained(txn.before, new) /\ DOMAIN new \subseteq DOMAIN txn.before
    BY <2>1, <2>3, RetainedTwice DEF PendingSane
  <2>7. PendingSane'
    BY <2>1, <2>2, <2>5, <2>6 DEF PendingSane
  <2>8. AllRetained(Committed, Committed')
    BY <2>1, <2>5, <2>6, RetainsSelf DEF AllRetained, Committed
  <2> QED BY <2>1, <2>3, <2>7, <2>8, RetainedAccounts
<1>4. CASE CommitPaseoSync
  <2>1. txn # Null /\ PendingSane /\ txn' = Null /\ rows' = rows /\ clock' = clock
    BY <1>4 DEF CommitPaseoSync, LedgerInv
  <2>2. AllRetained(Committed, Committed')
    BY <2>1 DEF Committed, PendingSane
  <2> QED BY <1>1, <2>1, <2>2, RetainedAccounts
<1>5. CASE RollBackPaseoSync
  <2>1. txn # Null /\ PendingSane /\ txn' = Null /\ rows' = txn.before /\ clock' = clock
    BY <1>5 DEF RollBackPaseoSync, LedgerInv
  <2>2. AllRetained(Committed, Committed')
    BY <2>1, RetainsSelf DEF Committed, AllRetained
  <2> QED BY <2>1, <2>2, RetainedAccounts DEF PendingSane
<1> QED BY <1>2, <1>3, <1>4, <1>5 DEF PaseoStep

LEMMA EvenerStepLedger ==
    ASSUME LedgerInv, EvenerStep
    PROVE  AllSane(rows, clock)' /\ (txn # Null => PendingSane)' /\ ReleasedOnly
<1>1. PICK s \in Session, parent \in Session \cup {Null}, status \in Status, t \in HookInstants,
           archived \in {Null} \cup SUBSET Session, active \in {Null} \cup SUBSET Session :
              EvenerRepair(s, parent, status, archived, active, t)
  BY DEF EvenerStep
<1> DEFINE joined == IF parent = Null THEN SessionObserved(rows, s, Null, t)
                     ELSE SubagentStart(rows, s, parent, t)
           observed == StatusObserved(joined, s, status, t)
           new == ReconcileEvener(observed, archived, active)
<1>2. /\ clock \in Nat /\ OnTime(t, clock) /\ t \in Nat
      /\ Sound(rows) /\ AllSane(rows, clock) /\ IInv
  BY ClockFacts, HookOnTime DEF LedgerInv, IInv
<1>3. /\ Sound(joined) /\ AllSane(joined, clock) /\ AllRetained(rows, joined)
      /\ DOMAIN rows \subseteq DOMAIN joined
  <2>1. CASE parent = Null
    <3>1. Sound(joined)
      BY <1>2, <2>1, SessionObservedSound
    <3>2. joined = SessionObserved(rows, s, Null, t)
      BY <2>1
    <3>3. /\ AllSane(joined, clock) /\ AllRetained(rows, joined)
          /\ DOMAIN rows \subseteq DOMAIN joined
      BY <1>2, <3>2, SessionObservedSane
    <3> QED BY <3>1, <3>3
  <2>2. CASE parent # Null
    <3>1. parent \in Session /\ ProviderOf[parent] = ProviderOf[s]
      BY <1>1, <2>2 DEF EvenerRepair
    <3> QED BY <1>2, <2>2, <3>1, SubagentStartSound, SubagentStartSane
  <2> QED BY <2>1, <2>2
<1>4. Write(new)
  BY <1>1 DEF EvenerRepair
<1> HIDE DEF joined
<1>5. /\ AllSane(observed, clock) /\ AllRetained(joined, observed)
      /\ DOMAIN observed = DOMAIN joined
  BY <1>2, <1>3, StatusObservedSane
<1> HIDE DEF observed
<1>6. AllSane(new, clock) /\ AllRetained(observed, new)
  BY <1>5, ReconcileEvenerSane
<1> HIDE DEF new
<1>7. AllRetained(rows, observed)
  BY <1>3, <1>5, RetainedTwice
<1>8. AllRetained(rows, new)
  BY <1>3, <1>5, <1>6, <1>7, RetainedTwice
<1> QED BY <1>4, <1>6, <1>8, HarmlessWrite

LEMMA NextLedger ==
    LedgerInv /\ [Next]_vars =>
        AllSane(rows, clock)' /\ (txn # Null => PendingSane)' /\ ReleasedOnly
<1> SUFFICES ASSUME LedgerInv, [Next]_vars
             PROVE  AllSane(rows, clock)' /\ (txn # Null => PendingSane)' /\ ReleasedOnly
  OBVIOUS
<1>1. clock \in Nat /\ Sound(rows) /\ AllSane(rows, clock)
  BY ClockFacts DEF LedgerInv, IInv
<1>2. CASE Tick
  <2>1. rows' = rows /\ txn = Null /\ txn' = Null /\ clock' = clock + 1
    BY <1>2 DEF Tick
  <2>2. \A s \in DOMAIN rows : Sane(rows[s], clock + 1)
    BY <1>1, RowOf, SaneLater DEF Sound, AllSane
  <2>3. AllRetained(Committed, Committed')
    BY <2>1, RetainsSelf DEF Committed, AllRetained
  <2> QED BY <2>1, <2>2, <2>3, RetainedAccounts DEF AllSane
<1>3. CASE HookStep
  BY <1>3, HookStepLedger
<1>4. CASE GestureStep
  BY <1>4, GestureStepLedger
<1>5. CASE SweepDue
  BY <1>5, SweepDueLedger
<1>6. CASE PruneDue
  BY <1>1, <1>6, DeletionsSane, HarmlessWrite DEF PruneDue
<1>7. CASE PaseoStep
  BY <1>7, PaseoStepLedger
<1>8. CASE EvenerStep
  BY <1>8, EvenerStepLedger
<1>9. CASE UNCHANGED vars
  <2>1. rows' = rows /\ txn' = txn /\ clock' = clock
    BY <1>9 DEF vars
  <2>2. AllRetained(Committed, Committed')
    BY <2>1, RetainsSelf DEF Committed, AllRetained
  <2> QED BY <1>1, <2>1, <2>2, RetainedAccounts DEF LedgerInv, PendingSane
<1> QED BY <1>2, <1>3, <1>4, <1>5, <1>6, <1>7, <1>8, <1>9 DEF Next

LEMMA LedgerSafety == Spec => []LedgerInv
<1>1. Init => LedgerInv
  BY InitInv, LedgerInit DEF LedgerInv
<1>2. LedgerInv /\ [Next]_vars => LedgerInv'
  <2> SUFFICES ASSUME LedgerInv, [Next]_vars PROVE LedgerInv'
    OBVIOUS
  <2>1. IInv'
    BY NextInv DEF LedgerInv
  <2>2. AllSane(rows, clock)' /\ (txn # Null => PendingSane)'
    BY NextLedger
  <2> QED BY <2>1, <2>2 DEF LedgerInv
<1> QED BY <1>1, <1>2, PTL DEF Spec

\* Slots are reused: no churn of sessions drives a card past the number of
\* sessions that can be live together.
THEOREM SlotsBounded == Spec => []SlotsReused
<1>1. LedgerInv => SlotsReused
  BY NullAssumption DEF LedgerInv, IInv, Sound, SlotsValid, AllSane, Sane, SlotsReused, TopLevel
<1> QED BY <1>1, LedgerSafety, PTL

\* The expiry clock of a done card never runs from before the result it will
\* retire, whichever of the hooks, gestures and records lands when.
THEOREM ClocksFollowResults == Spec => []ClockFollowsResult
<1>1. LedgerInv => ClockFollowsResult
  BY DEF LedgerInv, AllSane, Sane, ClockFollowsResult
<1> QED BY <1>1, LedgerSafety, PTL

\* What the user has viewed or dismissed stays dealt with: no record and no
\* late hook brings a result back that is older by more than its transit.
THEOREM StaleStaysAway == Spec => []NothingStaleResurfaces
<1>1. LedgerInv => NothingStaleResurfaces
  BY DEF LedgerInv, AllSane, Sane, NothingStaleResurfaces
<1> QED BY <1>1, LedgerSafety, PTL

\* A compaction takes nothing, so what clears a ledger is none.
LEMMA CompactionKeeps ==
    ASSUME LedgerInv
    PROVE  CompactionReleasesNothing
<1> SUFFICES ASSUME NEW x \in Session, NEW o \in HookOrigin, NEW t \in HookInstants,
                    CompactHook(x, o, t)
             PROVE  \A s \in Survivors : ~ClearedInPlace(s)
  BY DEF CompactionReleasesNothing
<1> DEFINE new == SessionObserved(rows, x, o, t)
<1>1. /\ clock \in Nat /\ OnTime(t, clock) /\ t \in Nat
      /\ Sound(rows) /\ AllSane(rows, clock)
      /\ o \in Origin \cup {Null}
  BY ClockFacts, HookOnTime DEF LedgerInv, IInv, HookOrigin
<1>2. AllSane(new, clock) /\ AllRetained(rows, new)
  BY <1>1, SessionObservedSane
<1>3. Write(new)
  BY DEF CompactHook
<1> HIDE DEF new
<1>4. AllRetained(Committed, Committed')
  BY <1>2, <1>3, WriteCommits
<1> QED BY <1>4 DEF AllRetained, Retains, Survivors, ClearedInPlace

\* A gesture with a watermark rewrites consumable rows only.
LEMMA GestureSparesNewer ==
    ASSUME NEW x, NEW t, NEW wm, wm # Unconditional,
           View(x, t, wm) \/ Acknowledge(x, t, wm),
           NEW s \in Survivors, Committed[s].unread # Null, Committed'[s] # Committed[s]
    PROVE  wm # Null /\ Committed[s].unread <= wm
<1>1. Committed = rows /\ Committed' = rows'
  BY DEF View, Acknowledge, Write, Committed
<1>2. s \in DOMAIN rows
  BY <1>1 DEF Survivors
<1>3. CASE View(x, t, wm)
  <2> DEFINE reached == {y \in PaseoSubtree(rows, x, NoHints) \cap DOMAIN rows :
                            /\ Consumable(rows[y], wm)
                            /\ y = x \/ rows[y].done # Null \/ rows[y].unread # Null}
  <2>1. rows' = [y \in DOMAIN rows |-> IF y \in reached THEN Viewed(rows[y], t) ELSE rows[y]]
    BY <1>3 DEF View, Write, ViewSession, Rewrite
  <2>2. s \in reached
    BY <1>1, <1>2, <2>1
  <2>3. Consumable(rows[s], wm)
    BY <2>2
  <2> QED BY <1>1, <2>3 DEF Consumable
<1>4. CASE Acknowledge(x, t, wm)
  <2> DEFINE reached == {y \in PaseoSubtree(rows, x, NoHints) \cap DOMAIN rows :
                            HoldsResult(rows[y]) /\ Consumable(rows[y], wm)}
  <2>1. rows' = [y \in DOMAIN rows |->
                    IF y \in reached THEN [Released(rows[y], t) EXCEPT !.acked = t] ELSE rows[y]]
    BY <1>4 DEF Acknowledge, Write, AcknowledgeSession, Rewrite
  <2>2. s \in reached
    BY <1>1, <1>2, <2>1
  <2>3. Consumable(rows[s], wm)
    BY <2>2
  <2> QED BY <1>1, <2>3 DEF Consumable
<1> QED BY <1>3, <1>4

LEMMA NewerSurvive == NewerResultsSurvive
  BY GestureSparesNewer DEF NewerResultsSurvive

\* Committed results leave a row only by a view, a dismissal, a restart of
\* the session or the expiry of a viewed result, an overlay pass of any
\* length included: by no compaction, and by no gesture made from a snapshot
\* that did not show them.
THEOREM ResultsReleasedOnly == Spec => LedgersClearOnlyByRelease
<1>1. LedgerInv /\ [Next]_vars => LedgersAccounted
  BY NextLedger, CompactionKeeps, NewerSurvive DEF LedgersAccounted
<1>2. []LedgerInv /\ [][Next]_vars => [][LedgersAccounted]_vars
  BY <1>1, PTL
<1> QED BY <1>2, LedgerSafety, PTL DEF Spec, LedgersClearOnlyByRelease

\* The only way a record ends a turn that keeps its origin: Settles.
LEMMA SettleEndsTurn ==
    ASSUME NEW tbl, Sound(tbl), NEW r \in PaseoRecord, NEW pass, NEW bgCutoff,
           NEW new, new = SyncPaseoRecord(tbl, r, pass, bgCutoff),
           NEW s \in DOMAIN tbl \cap DOMAIN new,
           tbl[s].status \in {"working", "waiting"}, new[s].status = "idle", new[s].origin # Null
    PROVE  /\ new[s].statusSince = r.updated /\ r.updated \in Nat
           /\ r.updated > tbl[s].updated
<1>1. tbl[s] \in Row
  BY RowOf DEF Sound
<1>2. CASE r.archived
  <2>1. new[s] = tbl[s]
    BY <1>2 DEF SyncPaseoRecord, DeletePaseoSubtree, DeleteRows, Restrict
  <2> QED BY <2>1
<1>3. CASE ~r.archived
  <2> DEFINE seen == Mirrored(tbl[s], r)
             settled == Settled(seen, r, bgCutoff)
             synced == Rewrite(tbl, {r.session} \cap TopLevel(tbl),
                               LAMBDA row : Settled(Mirrored(row, r), r, bgCutoff))
             left == Abandoned(synced, r, pass)
  <2>1. DOMAIN synced = DOMAIN tbl /\ synced[s] \in {settled, tbl[s]}
    BY DEF Rewrite
  <2>2. seen \in Row /\ seen.status = tbl[s].status /\ seen.updated = tbl[s].updated
    BY <1>1, MirroredKeeps DEF Keeps, Mirrored, Flagged, Row
  <2>3. new[s] = LeftBehind(synced[s], r) \/ new[s] = synced[s]
    BY <1>3, <2>1 DEF SyncPaseoRecord, Rewrite
  <2> HIDE DEF seen, synced
  <2>4. settled \in Row
    BY <2>2, SettledKeeps DEF Keeps
  <2>5. new[s] = settled
    <3>1. synced[s] \in Row
      BY <1>1, <2>1, <2>4
    <3>2. LeftBehind(synced[s], r).origin = Null
      BY <3>1 DEF LeftBehind, Row
    <3> QED BY <2>1, <2>3, <3>2
  <2>6. Settles(seen, r, bgCutoff)
    BY <2>2, <2>5 DEF Settled
  <2>7. settled.statusSince = r.updated
    BY <2>2, <2>6 DEF Settled, Row
  <2>8. r.updated \in Nat /\ r.updated > tbl[s].updated
    BY <2>2, <2>6 DEF Settles, PaseoRecord, Stamp
  <2> QED BY <2>5, <2>7, <2>8
<1> QED BY <1>2, <1>3

\* A record ends a turn only when it was written less than one hook's
\* transit before the turn began, whatever hooks committed out of order.
THEOREM SettleLagBounded == Spec => SettleWithinHookLag
<1>1. LedgerInv /\ [Next]_vars => SettledTurnsRecent
  <2> SUFFICES ASSUME LedgerInv, SyncRecord, NEW s \in Session, SettleEnds(s)
               PROVE  rows'[s].statusSince + HookLag > rows[s].statusSince
    BY DEF SettledTurnsRecent
  <2> DEFINE r == Head(txn.todo)
  <2>1. /\ txn.todo \in Pass /\ txn.todo # <<>>
        /\ rows' = SyncPaseoRecord(rows, r, txn.pass, clock - BgGrace)
    BY DEF SyncRecord, LedgerInv, IInv, TypeOK, IsTxn
  <2>2. r \in PaseoRecord
    BY <2>1 DEF Pass
  <2> HIDE DEF r
  <2>3. /\ rows'[s].statusSince = r.updated /\ r.updated \in Nat
        /\ r.updated > rows[s].updated
    BY <2>1, <2>2, SettleEndsTurn DEF LedgerInv, IInv, SettleEnds
  <2>4. /\ rows[s].statusSince <= rows[s].updated + HookLag
        /\ rows[s].statusSince \in Nat /\ rows[s].updated \in Nat
    BY RowOf DEF LedgerInv, IInv, Sound, AllSane, Sane, SettleEnds, Row
  <2> QED BY <2>3, <2>4, Bounds
<1>2. []LedgerInv /\ [][Next]_vars => [][SettledTurnsRecent]_vars
  BY <1>1, PTL
<1> QED BY <1>2, LedgerSafety, PTL DEF Spec, SettleWithinHookLag
=============================================================================
