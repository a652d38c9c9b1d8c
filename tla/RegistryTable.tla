--------------------------- MODULE RegistryTable ---------------------------
(***************************************************************************)
(* The active_sessions table and the mutations of src/src/core/registry.ts *)
(* as functions from a table to a table.                                   *)
(*                                                                         *)
(* A table maps the identities of the rows it holds to rows.  An identity  *)
(* stands for the (provider, session_id) pair, so ProviderOf is fixed; a   *)
(* parent_session_id names a session of the child's own provider.          *)
(* Time stamps are naturals (the code compares ISO-8601 UTC strings, whose *)
(* order is chronological) and Null is SQL NULL.                           *)
(*                                                                         *)
(* Left out of a row, because no guard below reads them: title, project,   *)
(* model, activity_line, transcript_path, ghostty_terminal_id, opened_at.  *)
(* An event that writes only those is the identity here.                   *)
(***************************************************************************)
EXTENDS Integers, FiniteSets, Functions

CONSTANTS
    Session,        \* the identities a run may register
    ProviderOf,     \* [Session -> provider name]
    Agent,          \* Paseo agent ids, the values of origin_ref
    Null,           \* SQL NULL
    Unconditional   \* the watermark of an operator gesture: no causal guard

ASSUME SessionAssumption == IsFiniteSet(Session) /\ ProviderOf \in [Session -> STRING]
ASSUME NullAssumption == /\ Null \notin Nat /\ Null \notin Session /\ Null \notin Agent
                         /\ Unconditional \notin Nat /\ Unconditional # Null

Status == {"idle", "working", "waiting", "error"}
Stamp == Nat \cup {Null}
Watermark == Stamp \cup {Unconditional}

\* origin_kind/ref/subagent/parent_ref.  "other" is every kind but 'paseo':
\* no guard tells those apart, and no reference of theirs is ever resolved.
Origin == [kind : {"paseo", "other"}, ref : Agent, sub : BOOLEAN, up : Agent \cup {Null}]

Row == [parent : Session \cup {Null}, slot : Nat \cup {Null},
        status : Status, bg : BOOLEAN, origin : Origin \cup {Null},
        unread : Stamp, done : Stamp, viewed : Stamp, acked : Stamp,
        ended : BOOLEAN, statusSince : Nat, updated : Nat]

IsTable(tbl) == DOMAIN tbl \subseteq Session /\ tbl \in [DOMAIN tbl -> Row]

TopLevel(tbl) == {s \in DOMAIN tbl : tbl[s].parent = Null}

-----------------------------------------------------------------------------
(***************************************************************************)
(* Upward reachability along a partial function "edge" from identities to  *)
(* identities: the least set that holds s and is closed under edge.  It    *)
(* stands for the pointer walks of the code, which all have a visited set. *)
(***************************************************************************)
ClosedUp(edge, X) == \A x \in X \cap DOMAIN edge : edge[x] \in X
Ancestry(edge, s) ==
    {x \in Session : \A X \in SUBSET Session : s \in X /\ ClosedUp(edge, X) => x \in X}

NativeParent(tbl) == [s \in DOMAIN tbl \ TopLevel(tbl) |-> tbl[s].parent]

\* What the schema demands of the rows: roots and only roots have a positive
\* slot, no two share one, and a parent is a row of the child's provider.
SlotsValid(tbl) ==
    /\ \A s \in TopLevel(tbl) : tbl[s].slot \in Nat /\ tbl[s].slot >= 1
    /\ \A s \in DOMAIN tbl \ TopLevel(tbl) : tbl[s].slot = Null
    /\ \A s, r \in TopLevel(tbl) : tbl[s].slot = tbl[r].slot => s = r
ParentsValid(tbl) ==
    \A s \in DOMAIN tbl \ TopLevel(tbl) :
        tbl[s].parent \in DOMAIN tbl /\ ProviderOf[tbl[s].parent] = ProviderOf[s]

\* No nonempty set of rows has all its parents inside it.
Forest(tbl) == \A S \in SUBSET DOMAIN tbl : S # {} => \E s \in S : tbl[s].parent \notin S

\* A result the user has not viewed has no running expiry clock.
ClockStopped(row) == row.unread # Null => row.viewed = Null
ClocksStopped(tbl) == \A s \in DOMAIN tbl : ClockStopped(tbl[s])

\* ON DELETE CASCADE of the self foreign key.
Cascade(tbl, gone) ==
    {s \in DOMAIN tbl : Ancestry(NativeParent(tbl), s) \cap gone # {}}
DeleteRows(tbl, gone) == Restrict(tbl, DOMAIN tbl \ Cascade(tbl, gone))

-----------------------------------------------------------------------------
(***************************************************************************)
(* Paseo lineage.  A lineage maps identities to the origin facts that      *)
(* count for them.  A reference carried by two rows is ambiguous and never *)
(* links; a member of a link cycle loses its link.                         *)
(***************************************************************************)
Carriers(lineage, ref) == {s \in DOMAIN lineage : lineage[s].ref = ref}
NamesParent(lineage, s) == lineage[s].sub /\ lineage[s].up # Null
UniqueLinks(lineage) ==
    [s \in {c \in DOMAIN lineage : /\ NamesParent(lineage, c)
                                   /\ \E p \in DOMAIN lineage :
                                         Carriers(lineage, lineage[c].up) = {p}}
        |-> CHOOSE p \in DOMAIN lineage : Carriers(lineage, lineage[s].up) = {p}]
\* Mutant: members of a link cycle keep their links.
PaseoLinksKeepCycles(lineage) == UniqueLinks(lineage)
PaseoLinks(lineage) ==
    LET link == UniqueLinks(lineage)
    IN  Restrict(link, {s \in DOMAIN link : s \notin Ancestry(link, link[s])})

StoredLineage(tbl) ==
    LET S == {s \in TopLevel(tbl) : tbl[s].origin # Null /\ tbl[s].origin.kind = "paseo"}
    IN  [s \in S |-> tbl[s].origin]

\* The facts of the Paseo snapshot at hand win over the stored ones.
HintedLineage(tbl, hints) ==
    LET S == DOMAIN StoredLineage(tbl) \cup (DOMAIN hints \cap TopLevel(tbl))
    IN  [s \in S |-> IF s \in DOMAIN hints THEN hints[s] ELSE tbl[s].origin]

NoHints == [s \in {} |-> Null]

\* The seed is a member even when it is unknown or native.
\* Mutant: a gesture reaches the row and its direct subagents only.
PaseoChildren(tbl, seed, hints) ==
    LET link == PaseoLinks(HintedLineage(tbl, hints))
    IN  {seed} \cup {s \in DOMAIN link : link[s] = seed}
PaseoSubtree(tbl, seed, hints) ==
    {seed} \cup {s \in Session : seed \in Ancestry(PaseoLinks(HintedLineage(tbl, hints)), s)}
DeletePaseoSubtree(tbl, seed, hints) == DeleteRows(tbl, PaseoSubtree(tbl, seed, hints))

-----------------------------------------------------------------------------
(***************************************************************************)
(* Hook events.                                                            *)
(***************************************************************************)
UsedSlots(tbl) == {tbl[s].slot : s \in TopLevel(tbl)}
\* Mutants: the next slot is a count, or one above the highest in use.
SlotByCount(tbl) == Cardinality(TopLevel(tbl)) + 1
SlotAboveAll(tbl) ==
    CHOOSE n \in 1..(Cardinality(UsedSlots(tbl)) + Cardinality(Session) + 1) :
        \A m \in UsedSlots(tbl) : m < n /\ \E k \in UsedSlots(tbl) \cup {0} : n = k + 1
LowestFreeSlot(tbl) ==
    CHOOSE n \in 1..(Cardinality(DOMAIN tbl) + 1) :
        n \notin UsedSlots(tbl) /\ \A m \in 1..(n - 1) : m \in UsedSlots(tbl)

NewRow(parent, slot, origin, t) ==
    [parent |-> parent, slot |-> slot, status |-> "idle", bg |-> FALSE, origin |-> origin,
     unread |-> Null, done |-> Null, viewed |-> Null, acked |-> Null,
     ended |-> FALSE, statusSince |-> t, updated |-> t]

Insert(tbl, s, row) == [x \in DOMAIN tbl \cup {s} |-> IF x = s THEN row ELSE tbl[x]]
Rewrite(tbl, S, Op(_)) == [x \in DOMAIN tbl |-> IF x \in S THEN Op(tbl[x]) ELSE tbl[x]]

StatusRow(row, status, t) ==
    [row EXCEPT !.status = status, !.updated = t,
                !.statusSince = IF row.status # status THEN t ELSE @]

\* A new life of a stored row: ledgers, end mark, view clock and background
\* flag go; acked_at stays; a null origin keeps the stored one.
Restarted(row, origin, t) ==
    [StatusRow(row, "idle", t) EXCEPT
        !.bg = FALSE, !.unread = Null, !.done = Null, !.viewed = Null, !.ended = FALSE,
        !.origin = IF origin = Null THEN @ ELSE origin]

SessionStart(tbl, s, origin, t) ==
    IF s \in DOMAIN tbl
    THEN Rewrite(tbl, {s} \cap TopLevel(tbl), LAMBDA row : Restarted(row, origin, t))
    ELSE Insert(tbl, s, NewRow(Null, LowestFreeSlot(tbl), origin, t))

SessionObserved(tbl, s, origin, t) ==
    IF s \in DOMAIN tbl
    THEN Rewrite(tbl, {s}, LAMBDA row : [row EXCEPT !.origin = IF origin = Null THEN @ ELSE origin])
    ELSE SessionStart(tbl, s, origin, t)

\* Mutant: only the row itself is refused as its own parent.
ParentIsAnother(tbl, child, parent) == parent \in DOMAIN tbl /\ child # parent
ValidProspectiveParent(tbl, child, parent) ==
    /\ parent \in DOMAIN tbl
    /\ child \notin Ancestry(NativeParent(tbl), parent)

SubagentStart(tbl, child, parent, t) ==
    IF ~ValidProspectiveParent(tbl, child, parent) THEN tbl
    ELSE IF child \in DOMAIN tbl
    THEN Rewrite(tbl, {child} \ TopLevel(tbl),
                 LAMBDA row : [StatusRow(row, "idle", t) EXCEPT !.parent = parent])
    ELSE Insert(tbl, child, NewRow(parent, Null, Null, t))

\* A turn ended.  An outstanding background shell keeps the row working and
\* lands no result; otherwise the result is unviewed news.
\* Mutant: a turn end leaves the view clock of the last result running.
StoppedOnOldClock(row, t) ==
    IF row.bg THEN StatusRow(row, "working", t)
    ELSE [StatusRow(row, "idle", t) EXCEPT !.unread = t, !.done = t]
Stopped(row, t) ==
    IF row.bg THEN StatusRow(row, "working", t)
    ELSE [StatusRow(row, "idle", t) EXCEPT !.unread = t, !.done = t, !.viewed = Null]
Failed(row, t) == [StatusRow(row, "error", t) EXCEPT !.unread = t, !.viewed = Null]

StatusEvent == {"Activity", "Attention", "Stop", "StopFailure",
                "BackgroundWorkStarted", "BackgroundWorkCleared"}
AfterStatusEvent(row, kind, t) ==
    CASE kind = "Activity"  -> StatusRow(row, "working", t)
      [] kind = "Attention" -> StatusRow(row, "waiting", t)
      [] kind = "Stop"        -> Stopped(row, t)
      [] kind = "StopFailure" -> Failed(row, t)
      [] OTHER -> [row EXCEPT !.bg = (kind = "BackgroundWorkStarted"), !.updated = t]
ApplyStatusEvent(tbl, s, kind, t) ==
    Rewrite(tbl, {s}, LAMBDA row : AfterStatusEvent(row, kind, t))

\* An authoritative external snapshot repairs the status and no ledger.
StatusObserved(tbl, s, status, t) ==
    Rewrite(tbl, {s}, LAMBDA row : IF row.status = status THEN row ELSE StatusRow(row, status, t))

SessionEnd(tbl, s) ==
    IF s \in TopLevel(tbl) THEN DeletePaseoSubtree(tbl, s, NoHints) ELSE tbl
SubagentStop(tbl, s) ==
    IF s \in DOMAIN tbl \ TopLevel(tbl) THEN DeleteRows(tbl, {s}) ELSE tbl

-----------------------------------------------------------------------------
(***************************************************************************)
(* Gestures.  A row is consumable when the gesture is unconditional, when  *)
(* it has no unread result, or when its result is no newer than the        *)
(* watermark.                                                              *)
(***************************************************************************)
\* Mutant: a card that showed no result passes for no watermark at all.
ConsumableByNull(row, wm) ==
    wm = Unconditional \/ row.unread = Null \/ wm = Null \/ row.unread <= wm
Consumable(row, wm) ==
    wm = Unconditional \/ row.unread = Null \/ (wm # Null /\ row.unread <= wm)

Viewed(row, at) ==
    [row EXCEPT !.unread = Null, !.viewed = at,
                !.acked = IF row.unread # Null THEN at ELSE @]
ViewSession(tbl, s, at, wm) ==
    LET reached == {x \in PaseoSubtree(tbl, s, NoHints) \cap DOMAIN tbl :
                        /\ Consumable(tbl[x], wm)
                        /\ x = s \/ tbl[x].done # Null \/ tbl[x].unread # Null}
    IN  Rewrite(tbl, reached, LAMBDA row : Viewed(row, at))

\* What dismissal and expiry share: an error is itself a result and retires.
Released(row, at) ==
    [row EXCEPT !.unread = Null, !.done = Null, !.viewed = Null,
                !.status      = IF row.status = "error" THEN "idle" ELSE @,
                !.statusSince = IF row.status = "error" THEN at ELSE @,
                !.bg          = IF row.status = "error" THEN FALSE ELSE @]
HoldsResult(row) == row.unread # Null \/ row.done # Null \/ row.status = "error"
AcknowledgeSession(tbl, s, at, wm) ==
    LET reached == {x \in PaseoSubtree(tbl, s, NoHints) \cap DOMAIN tbl :
                        HoldsResult(tbl[x]) /\ Consumable(tbl[x], wm)}
    IN  Rewrite(tbl, reached, LAMBDA row : [Released(row, at) EXCEPT !.acked = at])

ClearSession(tbl, s) ==
    IF s \in DOMAIN tbl THEN DeletePaseoSubtree(tbl, s, NoHints) ELSE tbl
ClearAllSessions(tbl) == DeleteRows(tbl, DOMAIN tbl)

-----------------------------------------------------------------------------
(***************************************************************************)
(* Maintenance: the viewed-expiry sweep and the stale prune.               *)
(***************************************************************************)
Expired(row, cutoff) ==
    /\ row.viewed # Null /\ row.viewed <= cutoff
    /\ row.unread = Null
    /\ row.status \in {"idle", "error"}
    /\ row.done # Null \/ row.status = "error"
SweepExpiredResults(tbl, cutoff, now) ==
    Rewrite(tbl, {s \in DOMAIN tbl : Expired(tbl[s], cutoff)}, LAMBDA row : Released(row, now))

InLease(tbl, s, cutoff, zcodeCutoff) ==
    tbl[s].updated >= (IF ProviderOf[s] = "zcode" THEN zcodeCutoff ELSE cutoff)
ClockRuns(row) == row.viewed # Null /\ (row.done # Null \/ row.status = "error")
\* Mutant: an unviewed result does not hold its tree.
SeedsInLease(tbl, cutoff, zcodeCutoff) ==
    {s \in DOMAIN tbl : InLease(tbl, s, cutoff, zcodeCutoff) \/ ClockRuns(tbl[s])}
KeepSeeds(tbl, cutoff, zcodeCutoff) ==
    {s \in DOMAIN tbl : \/ InLease(tbl, s, cutoff, zcodeCutoff)
                        \/ tbl[s].unread # Null
                        \/ ClockRuns(tbl[s])}

\* The connected component of the seeds: native and Paseo links, both ways.
ClosedBothWays(edge, X) == \A x \in DOMAIN edge : (x \in X) <=> (edge[x] \in X)
Kept(tbl, seeds) ==
    {s \in DOMAIN tbl :
        \A X \in SUBSET DOMAIN tbl :
            /\ seeds \subseteq X
            /\ ClosedBothWays(NativeParent(tbl), X)
            /\ ClosedBothWays(PaseoLinks(StoredLineage(tbl)), X)
            => s \in X}
PruneStaleSessions(tbl, cutoff, zcodeCutoff) ==
    LET kept == Kept(tbl, KeepSeeds(tbl, cutoff, zcodeCutoff))
    IN  DeleteRows(tbl, {s \in TopLevel(tbl) : s \notin kept \/ tbl[s].ended})

-----------------------------------------------------------------------------
(***************************************************************************)
(* One record of a Paseo overlay pass.  "pass" is the whole pass: it gives *)
(* the lineage hints of an archive and the sessions joined to each agent.  *)
(***************************************************************************)
PaseoRecord == [session : Session, agent : Agent, flagged : BOOLEAN, attention : Stamp,
                sub : BOOLEAN, up : Agent \cup {Null}, updated : Stamp,
                archived : BOOLEAN, settled : BOOLEAN]

OriginOf(r) == [kind |-> "paseo", ref |-> r.agent, sub |-> r.sub, up |-> r.up]
\* The last record of a session wins, as in the Map the code builds.
HintsOf(pass) ==
    [s \in {pass[i].session : i \in DOMAIN pass} |->
        LET last == CHOOSE i \in DOMAIN pass :
                       /\ pass[i].session = s
                       /\ \A j \in DOMAIN pass : pass[j].session = s => j <= i
        IN  OriginOf(pass[last])]

FlagTime(r) == IF r.attention # Null THEN r.attention ELSE r.updated
NewerThan(t, stamp) == stamp = Null \/ t > stamp
\* Mutant: a flag lands whether or not the user has dealt with it.
FlagLandsAgain(row, r) == r.flagged /\ FlagTime(r) # Null
FlagLands(row, r) == r.flagged /\ FlagTime(r) # Null /\ NewerThan(FlagTime(r), row.acked)
Flagged(row, r) ==
    IF FlagLands(row, r) /\ row.unread = Null
    THEN [row EXCEPT !.unread = FlagTime(r), !.viewed = Null,
                     !.done = IF row.done = Null THEN FlagTime(r) ELSE @]
    ELSE row
Mirrored(row, r) == [Flagged(row, r) EXCEPT !.origin = OriginOf(r)]

\* A settled record strictly newer than the last hook repairs a missed
\* turn-end; a background-armed row holds out until its hook is old.
\* Mutant: any settled record ends the turn, however old.
SettlesAtAnyAge(row, r, bgCutoff) ==
    r.settled /\ r.updated # Null /\ row.status \in {"working", "waiting"} /\ ~row.bg
Settles(row, r, bgCutoff) ==
    /\ r.settled /\ r.updated # Null
    /\ row.status \in {"working", "waiting"}
    /\ r.updated > row.updated
    /\ ~row.bg \/ row.updated < bgCutoff
SettleLands(row, r) == /\ NewerThan(r.updated, row.acked)
                       /\ NewerThan(r.updated, row.unread)
                       /\ NewerThan(r.updated, row.done)
\* Mutant: the repaired turn end leaves the view clock running.
SettledOnOldClock(row, r, bgCutoff) ==
    IF Settles(row, r, bgCutoff) /\ SettleLands(row, r)
    THEN [row EXCEPT !.status = "idle", !.statusSince = r.updated, !.bg = FALSE,
                     !.done = r.updated, !.unread = r.updated]
    ELSE row
Settled(row, r, bgCutoff) ==
    IF ~Settles(row, r, bgCutoff) THEN row
    ELSE LET idle == [row EXCEPT !.status = "idle", !.statusSince = r.updated, !.bg = FALSE]
         IN  IF SettleLands(row, r)
             THEN [idle EXCEPT !.done = r.updated, !.unread = r.updated, !.viewed = Null]
             ELSE idle

\* Rows another provider session of the same agent left behind.  Nothing is
\* retired while the pass joins more than one session to the agent.
\* Mutant: rotation is looked for among the rows of one provider only.
AbandonedBySameProvider(tbl, r, pass) ==
    {s \in DOMAIN StoredLineage(tbl) \ {r.session} :
        tbl[s].origin.ref = r.agent /\ ProviderOf[s] = ProviderOf[r.session]}
Abandoned(tbl, r, pass) ==
    IF {pass[i].session : i \in {j \in DOMAIN pass : pass[j].agent = r.agent}} = {r.session}
    THEN {s \in DOMAIN StoredLineage(tbl) \ {r.session} : tbl[s].origin.ref = r.agent}
    ELSE {}
LeftBehind(row, r) ==
    [row EXCEPT !.origin = Null, !.status = "idle", !.bg = FALSE,
                !.statusSince = IF row.status # "idle" /\ r.updated # Null THEN r.updated ELSE @]

SyncPaseoRecord(tbl, r, pass, bgCutoff) ==
    IF r.archived THEN DeletePaseoSubtree(tbl, r.session, HintsOf(pass))
    ELSE LET synced == Rewrite(tbl, {r.session} \cap TopLevel(tbl),
                               LAMBDA row : Settled(Mirrored(row, r), r, bgCutoff))
         IN  Rewrite(synced, Abandoned(synced, r, pass), LAMBDA row : LeftBehind(row, r))

-----------------------------------------------------------------------------
(***************************************************************************)
(* The reconciliation half of an Evener collector update: archived roots   *)
(* go, then every Evener child the accepted snapshot does not list.  A     *)
(* Null set is a snapshot that says nothing.                               *)
(***************************************************************************)
EvenerRows(tbl) == {s \in DOMAIN tbl : ProviderOf[s] = "evener"}
DropArchivedRoots(tbl, archived) ==
    IF archived = Null THEN tbl
    ELSE DeleteRows(tbl, archived \cap EvenerRows(tbl) \cap TopLevel(tbl))
KeepActiveChildren(tbl, active) ==
    IF active = Null THEN tbl
    ELSE DeleteRows(tbl, (EvenerRows(tbl) \ TopLevel(tbl)) \ active)
ReconcileEvener(tbl, archived, active) ==
    KeepActiveChildren(DropArchivedRoots(tbl, archived), active)
=============================================================================
