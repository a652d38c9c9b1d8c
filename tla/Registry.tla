----------------------------- MODULE Registry -----------------------------
(***************************************************************************)
(* The session registry under everything that writes it: hook helpers,     *)
(* operator and board gestures, and the daemon's maintenance.  Each writer *)
(* is a process with its own SQLite connection; one BEGIN IMMEDIATE        *)
(* transaction is one step, except a Paseo overlay pass, whose records are *)
(* applied one step each inside an open transaction (txn) that keeps every *)
(* other writer out and that a failure rolls back.                         *)
(***************************************************************************)
EXTENDS RegistryTable, Sequences

CONSTANTS
    MaxClock,     \* bound: the last instant of a behaviour
    HookLag,      \* how much later than its own instant a hook or gesture may commit
    Lease,        \* STALE_SESSION_TTL_MS
    ZcodeLease,   \* ZCODE_STALE_SESSION_TTL_MS
    Expiry,       \* VIEWED_EXPIRY_TTL_MS
    BgGrace,      \* PASEO_BACKGROUND_SETTLE_GRACE_MS
    PaseoPasses   \* the overlay passes, stamps aside: sequences of PaseoShape

\* A PaseoRecord without its two stamps, which a pass picks from the past.
PaseoShape == [session : Session, agent : Agent, flagged : BOOLEAN, sub : BOOLEAN,
               up : Agent \cup {Null}, archived : BOOLEAN, settled : BOOLEAN]

ASSUME ClockAssumption == /\ {MaxClock, HookLag, Lease, ZcodeLease, Expiry, BgGrace} \subseteq Nat
                          /\ PaseoPasses \subseteq Seq(PaseoShape)

VARIABLES
    rows,    \* the table, with the writes of an open transaction in it
    txn,     \* the open overlay transaction, or Null
    clock    \* the wall clock all processes share

vars == <<rows, txn, clock>>

Pass == Seq(PaseoRecord)

IsTxn(x) == /\ x = [todo |-> x.todo, pass |-> x.pass, before |-> x.before]
            /\ x.todo \in Pass /\ x.pass \in Pass /\ IsTable(x.before)

TypeOK == /\ IsTable(rows)
          /\ clock \in 0..MaxClock
          /\ txn # Null => IsTxn(txn)

\* What a reader on another connection sees.
Committed == IF txn = Null THEN rows ELSE txn.before

\* A new database, or an upgraded one with a row an older version ended.
LegacyRow(s, unread) == [NewRow(Null, 1, Null, 0) EXCEPT !.ended = TRUE, !.unread = unread, !.done = 0]
Init == /\ \/ rows = [s \in {} |-> Null]
           \/ \E s \in Session, unread \in {Null, 0} : rows = [x \in {s} |-> LegacyRow(x, unread)]
        /\ txn = Null
        /\ clock = 0

-----------------------------------------------------------------------------
Write(tbl) == txn = Null /\ rows' = tbl /\ UNCHANGED <<txn, clock>>

Tick == /\ txn = Null /\ clock < MaxClock
        /\ clock' = clock + 1
        /\ UNCHANGED <<rows, txn>>

(***************************************************************************)
(* Hook helpers.  A helper takes observedAt when it starts and commits     *)
(* when it gets the lock, so two helpers may commit out of order.          *)
(***************************************************************************)
HookInstants == {t \in 0..clock : t + HookLag >= clock}
HookOrigin == {Null} \cup {o \in Origin : ~o.sub /\ o.up = Null}

SessionStartHook(s, origin, t) == Write(SessionStart(rows, s, origin, t))

\* Mutant: compaction taken for a new life of the session.
CompactRestarts(s, origin, t) == Write(SessionStart(rows, s, origin, t))
\* SessionStart with source "compact": membership only.
CompactHook(s, origin, t) == Write(SessionObserved(rows, s, origin, t))

\* A prompt late-joins, works, and when it is Claude's task notification
\* also disarms the background flag.
PromptHook(s, origin, t, notification) ==
    LET joined  == SessionObserved(rows, s, origin, t)
        working == ApplyStatusEvent(joined, s, "Activity", t)
    IN  /\ notification => ProviderOf[s] = "claude"
        /\ Write(IF notification
                 THEN ApplyStatusEvent(working, s, "BackgroundWorkCleared", t)
                 ELSE working)

\* PostToolUse/PreToolUse, a permission or question, a turn end, a failure.
TurnHook(s, kind, t) ==
    /\ kind \in {"Activity", "Attention", "Stop", "StopFailure"}
    /\ Write(ApplyStatusEvent(rows, s, kind, t))

\* Claude's Bash run_in_background and TaskStop: Activity, then the flag.
BackgroundHook(s, kind, t) ==
    /\ ProviderOf[s] = "claude"
    /\ kind \in {"BackgroundWorkStarted", "BackgroundWorkCleared"}
    /\ Write(ApplyStatusEvent(ApplyStatusEvent(rows, s, "Activity", t), s, kind, t))

SessionEndHook(s) == Write(SessionEnd(rows, s))

SubagentStartHook(child, parent, t) ==
    /\ ProviderOf[child] = ProviderOf[parent]
    /\ Write(SubagentStart(rows, child, parent, t))

SubagentStopHook(child) == Write(SubagentStop(rows, child))

(***************************************************************************)
(* Gestures and repairs from the board and from `sessions`.  A gesture     *)
(* takes its instant before it gets the lock, as a hook does.              *)
(***************************************************************************)
Watermarks == {Null, Unconditional} \cup 0..clock
View(s, t, wm) == Write(ViewSession(rows, s, t, wm))
Acknowledge(s, t, wm) == Write(AcknowledgeSession(rows, s, t, wm))
Clear(s) == Write(ClearSession(rows, s))
ClearAll == Write(ClearAllSessions(rows))
OperatorPrune(cutoff) == Write(PruneStaleSessions(rows, cutoff, cutoff))

(***************************************************************************)
(* The daemon's own writes.                                                *)
(***************************************************************************)
SweepDue == Write(SweepExpiredResults(rows, clock - Expiry, clock))
PruneDue == Write(PruneStaleSessions(rows, clock - Lease, clock - ZcodeLease))

Stamps == {Null} \cup 0..clock
\* The records of a pass: shape i with its own stamps.
Dated(shapes, attention, updated) ==
    [i \in DOMAIN shapes |->
        [session |-> shapes[i].session, agent |-> shapes[i].agent,
         flagged |-> shapes[i].flagged, attention |-> attention[i],
         sub |-> shapes[i].sub, up |-> shapes[i].up, updated |-> updated[i],
         archived |-> shapes[i].archived, settled |-> shapes[i].settled]]

BeginPaseoSync(pass) ==
    /\ txn = Null
    /\ txn' = [todo |-> pass, pass |-> pass, before |-> rows]
    /\ UNCHANGED <<rows, clock>>

SyncRecord ==
    /\ txn # Null /\ txn.todo # <<>>
    /\ rows' = SyncPaseoRecord(rows, Head(txn.todo), txn.pass, clock - BgGrace)
    /\ txn' = [txn EXCEPT !.todo = Tail(@)]
    /\ UNCHANGED clock

CommitPaseoSync ==
    /\ txn # Null /\ txn.todo = <<>>
    /\ txn' = Null
    /\ UNCHANGED <<rows, clock>>

\* Any throw, or the death of the process, rolls the whole pass back.
RollBackPaseoSync ==
    /\ txn # Null
    /\ rows' = txn.before /\ txn' = Null
    /\ UNCHANGED clock

(***************************************************************************)
(* An Evener collector update: one thread registered or repaired to the    *)
(* observed status, or reported live, then the reconciliation.             *)
(***************************************************************************)
EvenerRepair(s, parent, status, archived, active, t) ==
    /\ ProviderOf[s] = "evener"
    /\ parent # Null => ProviderOf[parent] = "evener"
    /\ LET joined == IF parent = Null THEN SessionObserved(rows, s, Null, t)
                     ELSE SubagentStart(rows, s, parent, t)
       IN  Write(ReconcileEvener(StatusObserved(joined, s, status, t), archived, active))

-----------------------------------------------------------------------------
HookStep ==
    \E s \in Session, t \in HookInstants :
        \/ \E o \in HookOrigin : SessionStartHook(s, o, t)
        \/ \E o \in HookOrigin : CompactHook(s, o, t)
        \/ \E o \in HookOrigin, n \in BOOLEAN : PromptHook(s, o, t, n)
        \/ \E kind \in StatusEvent : TurnHook(s, kind, t)
        \/ \E kind \in StatusEvent : BackgroundHook(s, kind, t)
        \/ SessionEndHook(s)
        \/ \E p \in Session : SubagentStartHook(s, p, t)
        \/ SubagentStopHook(s)

GestureStep ==
    \/ \E s \in Session, t \in HookInstants, wm \in Watermarks : View(s, t, wm) \/ Acknowledge(s, t, wm)
    \/ \E s \in Session : Clear(s)
    \/ ClearAll
    \/ \E cutoff \in 0..clock : OperatorPrune(cutoff)

PaseoStep ==
    \/ \E shapes \in PaseoPasses :
          \E attention, updated \in [DOMAIN shapes -> Stamps] :
              BeginPaseoSync(Dated(shapes, attention, updated))
    \/ SyncRecord
    \/ CommitPaseoSync
    \/ RollBackPaseoSync

EvenerStep ==
    \E s \in Session, parent \in Session \cup {Null}, status \in Status, t \in HookInstants,
       archived, active \in {Null} \cup SUBSET Session :
        EvenerRepair(s, parent, status, archived, active, t)

Next == Tick \/ HookStep \/ GestureStep \/ SweepDue \/ PruneDue \/ PaseoStep \/ EvenerStep

Spec == Init /\ [][Next]_vars

-----------------------------------------------------------------------------
(***************************************************************************)
(* Safety.                                                                 *)
(***************************************************************************)

\* Every write leaves a table SQLite accepts, whatever the deletions and
\* insertions before it.  A write that broke this would throw and be dropped
\* by the hook helper.
SchemaConstraints == SlotsValid(rows) /\ ParentsValid(rows)

\* The native rows are a forest, whatever order starts and re-parentings of
\* subagents commit in.  The projection rejects the whole board otherwise.
NativeForest == Forest(rows)

\* Slots are reused: churn never drives a card past the number of sessions
\* that can be live together.
SlotsReused == \A s \in TopLevel(rows) : rows[s].slot <= Cardinality(Session)

\* A result the user has not viewed never has a running expiry clock: every
\* path that lands one stops the clock (the sweep's "defensive guard").
UnreadStopsClock == ClocksStopped(rows)

\* The expiry clock of a done card started no earlier than the result it
\* will retire, up to a gesture's wait for the lock, so the 24 hours run
\* from a look at that result.
ClockFollowsResult ==
    \A s \in DOMAIN rows :
        rows[s].viewed # Null /\ rows[s].done # Null =>
            rows[s].done <= rows[s].viewed + HookLag

\* Nothing older than the user's last view or dismissal comes back as
\* unread, from whichever source, up to the lag of a hook in transit.
NothingStaleResurfaces ==
    \A s \in DOMAIN rows :
        rows[s].unread # Null /\ rows[s].acked # Null => rows[s].unread + HookLag >= rows[s].acked

\* The documented list of what clears a ledger in place: a view (unread
\* only), a dismissal, a reused SessionStart, and the expiry sweep, which
\* never takes an unviewed result.  Judged on committed states.
Released_(s, r) ==
    \/ \E x \in Session, t \in HookInstants, wm \in Watermarks : Acknowledge(x, t, wm)
    \/ \E o \in HookOrigin, t \in HookInstants : SessionStartHook(s, o, t)
    \/ SweepDue /\ r.unread = Null
ClearedInPlace(s) ==
    LET old == Committed[s]
        new == Committed'[s]
    IN  (old.unread # Null /\ new.unread = Null) \/ (old.done # Null /\ new.done = Null)
Survivors == DOMAIN Committed \cap DOMAIN Committed'
ReleasedOnly ==
    \A s \in Survivors :
        LET old == Committed[s]
            new == Committed'[s]
        IN  /\ old.unread # Null /\ new.unread = Null =>
                  \/ Released_(s, old)
                  \/ \E x \in Session, t \in HookInstants, wm \in Watermarks : View(x, t, wm)
            /\ old.done # Null /\ new.done = Null => Released_(s, old)

\* Compaction fires SessionStart on a live thread: no restart, so no release.
CompactionReleasesNothing ==
    (\E x \in Session, o \in HookOrigin, t \in HookInstants : CompactHook(x, o, t)) =>
        \A s \in Survivors : ~ClearedInPlace(s)

\* A gesture made from a snapshot leaves a row alone whose result is newer
\* than what the card showed, the pressed row and those below it alike.
NewerResultsSurvive ==
    \A s \in Survivors :
        Committed[s].unread # Null /\ Committed'[s] # Committed[s] =>
            \A x \in Session, t \in HookInstants, wm \in Watermarks \ {Unconditional} :
                View(x, t, wm) \/ Acknowledge(x, t, wm) => wm # Null /\ Committed[s].unread <= wm

LedgersAccounted == ReleasedOnly /\ CompactionReleasesNothing /\ NewerResultsSurvive
\* No committed result leaves a row in any other way than these: not by a
\* compaction, nor by a gesture that was made before it landed.
LedgersClearOnlyByRelease == [][LedgersAccounted]_vars

\* A prune removes whole trees, and none that holds an unviewed result or a
\* running view clock anywhere in it.  Trees with a legacy ended row are the
\* documented exception.
PruneStep == PruneDue \/ \E cutoff \in 0..clock : OperatorPrune(cutoff)
TreesGoWhole ==
    PruneStep /\ (\A s \in DOMAIN rows : ~rows[s].ended) =>
        LET gone == DOMAIN rows \ DOMAIN rows'
            native == NativeParent(rows)
            link == PaseoLinks(StoredLineage(rows))
        IN  /\ \A s \in gone : rows[s].unread = Null /\ ~ClockRuns(rows[s])
            /\ \A s \in DOMAIN native : s \in gone <=> native[s] \in gone
            /\ \A s \in DOMAIN link : s \in gone <=> link[s] \in gone
\* No prune takes part of a tree, or a tree with news in it.
PruneSparesUnviewed == [][TreesGoWhole]_vars

\* An overlay pass that joins every agent to one session leaves no second
\* claimant of those agents behind, so the links of their subagents resolve
\* again after a provider session was rotated.
Claims(pass, agent) == {pass[i].session : i \in {j \in DOMAIN pass : pass[j].agent = agent}}
SoleClaimant(tbl, pass, i) ==
    LET r == pass[i]
    IN  Claims(pass, r.agent) = {r.session} /\ ~r.archived =>
            Carriers(StoredLineage(tbl), r.agent) \subseteq {r.session}
AgentsResolve == CommitPaseoSync => \A i \in DOMAIN txn.pass : SoleClaimant(rows, txn.pass, i)
\* Every overlay pass leaves its agents with one claimant.
RotationLeavesOneClaimant == [][AgentsResolve]_vars

\* A Paseo record never ends a turn that started after the record was
\* written: the retirement it stamps is not older than the status it ends.
SettleEnds(s) == /\ s \in DOMAIN rows \cap DOMAIN rows'
                 /\ rows[s].status \in {"working", "waiting"} /\ rows'[s].status = "idle"
                 /\ rows'[s].origin # Null
SettleSparesNewerTurn ==
    [][SyncRecord => \A s \in Session :
          SettleEnds(s) => rows'[s].statusSince >= rows[s].statusSince]_vars

\* What is true of it: the turn it ends is less than one hook's transit
\* newer than the record, because a late hook may have lowered updated_at.
SettledTurnsRecent ==
    SyncRecord => \A s \in Session :
        SettleEnds(s) => rows'[s].statusSince + HookLag > rows[s].statusSince
\* No repair ends a turn that is newer by a hook's transit or more.
SettleWithinHookLag == [][SettledTurnsRecent]_vars

\* The expiry sweep retires an error only after the user has seen that very
\* error: the view clock it ran on started when the row was already failed.
ExpiryOnlyAfterView ==
    [][SweepDue => \A s \in DOMAIN rows :
          rows[s].status = "error" /\ rows'[s].status = "idle"
          => rows[s].statusSince <= rows[s].viewed]_vars
=============================================================================
