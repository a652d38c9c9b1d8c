--------------------------- MODULE CodexChildren ---------------------------
(***************************************************************************)
(* Native Codex children: the sweep that reads their rollouts              *)
(* (src/src/core/codex-subagents.ts) and the statement that reconciles the *)
(* registry with it (registry.ts, syncCodexSubagents), among hooks that    *)
(* may be lost and a daemon that may reopen its connection.                *)
(*                                                                         *)
(* A sweep reads one rollout after another and is applied at a later poll, *)
(* so what it brings is old.  A rollout is its latest turn.  Titles,       *)
(* models and paths of the rows are left out.                              *)
(***************************************************************************)
EXTENDS Naturals, SequencesExt

CONSTANTS
    Kid,           \* child threads
    Root,          \* the top-level session they belong to
    Above,         \* the parent of each: the root, or another child
    Null,          \* no row, turn, observation or sweep
    MaxTick,       \* bound: instants
    MaxCommits,    \* bound: hooks that are not lost, the root's start aside
    MaxReopens     \* bound: reopened connections

Instant == 0..MaxTick
Rollout == [started : Instant, observed : Instant, working : BOOLEAN]
ChildRow == [status : {"idle", "working"}, opened : Instant, updated : Instant]
\* version: what became of the data version it read at its start.  gone:
\* ghost, the rows hooks have deleted since, seen by that connection.
Sweep == [version : {"same", "moved", "reopened"}, due : SUBSET Kid,
          got : [Kid -> Rollout \cup {Null}], gone : SUBSET Kid]

ASSUME CodexChildrenAssumption ==
    /\ Above \in [Kid -> Kid \cup {Root}] /\ Root \notin Kid
    /\ {MaxTick, MaxCommits, MaxReopens} \subseteq Nat /\ Null \notin Nat \cup Sweep

VARIABLES
    tick,          \* the time
    turn,          \* of each thread: its rollout's latest turn
    root,          \* the root's row: opened_at
    kids,          \* the children's rows
    sweep,         \* the sweep under way or waiting for its poll
    commits, reopens

counts == <<commits, reopens>>
childrenVars == <<tick, turn, root, kids, sweep, counts>>

ChildrenTypeOK ==
    /\ tick \in Instant
    /\ turn \in [Kid -> Rollout \cup {Null}]
    /\ root \in Instant \cup {Null}
    /\ kids \in [Kid -> ChildRow \cup {Null}]
    /\ sweep \in Sweep \cup {Null}
    /\ commits \in 0..MaxCommits /\ reopens \in 0..MaxReopens

ChildrenInit ==
    /\ tick = 0 /\ turn = [k \in Kid |-> Null]
    /\ root = 0 /\ kids = [k \in Kid |-> Null] /\ sweep = Null
    /\ commits = 0 /\ reopens = 0

\* Names of k's ancestors among the children.
Ancestors[k \in Kid] == IF Above[k] = Root THEN {} ELSE {Above[k]} \cup Ancestors[Above[k]]
Descendants(k) == {j \in Kid : k \in Ancestors[j]}

Opened(tbl, parent) == IF parent = Root THEN root
                       ELSE IF tbl[parent] = Null THEN Null ELSE tbl[parent].opened
\* ON DELETE CASCADE
Delete(tbl, gone) ==
    [k \in Kid |-> IF k \in gone \/ \E a \in gone : k \in Descendants(a) THEN Null ELSE tbl[k]]

-----------------------------------------------------------------------------
(***************************************************************************)
(* The threads, and the hooks they run.                                    *)
(***************************************************************************)
Working(k) == turn[k] # Null /\ turn[k].working
Now(t) == t \in {tick, tick + 1} /\ t <= MaxTick /\ tick' = t

\* A thread is spawned or resumed by the running turn of its parent.
TurnStarts(k, t) ==
    /\ Now(t) /\ root # Null
    /\ Above[k] # Root => Working(Above[k])
    /\ ~Working(k) /\ (turn[k] # Null => turn[k].observed < t)
    /\ turn' = [turn EXCEPT ![k] = [started |-> t, observed |-> t, working |-> TRUE]]
    /\ UNCHANGED <<root, kids, sweep, counts>>
\* A record of the turn: progress, or its end.
TurnMoves(k, t) ==
    /\ Now(t) /\ Working(k) /\ turn[k].observed < t
    /\ \E working \in BOOLEAN :
          turn' = [turn EXCEPT ![k] = [started |-> @.started, observed |-> t,
                                       working |-> working]]
    /\ UNCHANGED <<root, kids, sweep, counts>>

\* A commit of another connection moves the data version of this one.
Seen(gone, back) ==
    /\ UNCHANGED <<tick, turn, reopens>>
    /\ sweep' = IF sweep = Null THEN Null
                ELSE [sweep EXCEPT !.version = IF @ = "same" THEN "moved" ELSE @,
                                   !.gone = IF sweep.version = "reopened" THEN {}
                                            ELSE (@ \cup gone) \ back]
Commits(gone, back) == commits < MaxCommits /\ commits' = commits + 1 /\ Seen(gone, back)

\* SubagentStart, run while the thread works: it registers the child, or
\* resets its row.
HookStart(k) ==
    /\ Working(k) /\ Opened(kids, Above[k]) # Null
    /\ kids' = [kids EXCEPT ![k] = [status |-> "idle", updated |-> tick,
                                    opened |-> IF @ = Null THEN tick ELSE @.opened]]
    /\ Commits({}, {k}) /\ UNCHANGED root
\* Any status event of the child.
HookTouch(k) ==
    /\ Working(k) /\ kids[k] # Null
    /\ kids' = [kids EXCEPT ![k].status = "working", ![k].updated = tick]
    /\ Commits({}, {}) /\ UNCHANGED root
\* SubagentStop deletes the row, and with it those below.
HookStop(k) ==
    /\ ~Working(k) /\ kids[k] # Null
    /\ kids' = Delete(kids, {k})
    /\ Commits({k} \cup Descendants(k), {}) /\ UNCHANGED root
RootEnds ==
    /\ root # Null
    /\ root' = Null /\ kids' = Delete(kids, Kid)
    /\ Commits(Kid, {})
RootStarts ==
    /\ root = Null
    /\ root' = tick /\ UNCHANGED kids
    /\ Seen({}, {}) /\ UNCHANGED commits

-----------------------------------------------------------------------------
(***************************************************************************)
(* The sweep.                                                              *)
(***************************************************************************)
\* The threads of registered parents: the root, and every child with a row.
Listed == {k \in Kid : turn[k] # Null /\ Opened(kids, Above[k]) # Null}

BeginSweep ==
    /\ sweep = Null /\ Listed # {}
    /\ sweep' = [version |-> "same", due |-> Listed, got |-> [k \in Kid |-> Null],
                 gone |-> {}]
    /\ UNCHANGED <<tick, turn, root, kids, counts>>

\* readTurn: nothing is asserted of a rollout that is being written.
ReadRollout(k) ==
    /\ sweep # Null /\ k \in sweep.due
    /\ \E seen \in {turn[k]} \cup (IF Working(k) THEN {Null} ELSE {}) :
          sweep' = [sweep EXCEPT !.due = @ \ {k}, !.got[k] = seen]
    /\ UNCHANGED <<tick, turn, root, kids, counts>>

\* The daemon drops its connection and opens another, which counts anew.
Reopen ==
    /\ sweep # Null /\ sweep.version # "reopened" /\ reopens < MaxReopens
    /\ sweep' = [sweep EXCEPT !.version = "reopened", !.gone = {}] /\ reopens' = reopens + 1
    /\ UNCHANGED <<tick, turn, root, kids, commits>>

Later(a, b) == IF a > b THEN a ELSE b

\* Mutant: a row already touched at the turn's last instant counts as newer.
EndsAfter(row, seen) == row.updated < seen.observed
EndsRow(row, seen) == row.updated <= seen.observed

\* One child of the list, and those whose end it confirms.
SyncChild(acc, k) ==
    LET row    == acc.tbl[k]
        seen   == sweep.got[k]
        opened == Opened(acc.tbl, Above[k])
        Put(new) == [acc EXCEPT !.tbl[k] = new]
    IN  IF opened = Null THEN acc
        ELSE IF row = Null
        THEN IF seen.working /\ seen.started >= opened
             THEN Put([status |-> "working", opened |-> seen.started, updated |-> seen.observed])
             ELSE acc
        ELSE IF seen.working
        THEN IF row.updated <= seen.observed \/ (row.status = "idle" /\ row.updated = row.opened)
             THEN Put([row EXCEPT !.status = "working", !.updated = Later(@, seen.observed)])
             ELSE acc
        ELSE IF EndsRow(row, seen)
        THEN [Put([row EXCEPT !.status = "idle", !.updated = seen.observed])
                 EXCEPT !.ended = @ \cup {k}]
        ELSE acc

\* Confirmed leaves go first, then their confirmed parents: a parent stays
\* while a row below it does.
Removed(acc) ==
    {k \in acc.ended : \A j \in Descendants(k) : acc.tbl[j] # Null => j \in acc.ended}

\* Mutant: the sweep is applied whatever was committed meanwhile.
AnyVersion(valid) == valid \in BOOLEAN
\* PRAGMA data_version against the one of the sweep's start: on a connection
\* opened since, the two have nothing to do with each other.
VersionHolds(valid) ==
    CASE sweep.version = "same"  -> valid
      [] sweep.version = "moved" -> ~valid
      [] OTHER                   -> valid \in BOOLEAN

ApplySweep ==
    /\ sweep # Null /\ sweep.due = {}
    /\ sweep' = Null
    /\ \E valid \in BOOLEAN, order \in SetToSeqs({k \in Kid : sweep.got[k] # Null}) :
          /\ VersionHolds(valid)
          /\ LET acc == FoldLeft(SyncChild, [tbl |-> kids, ended |-> {}], order)
             IN  kids' = IF valid THEN Delete(acc.tbl, Removed(acc)) ELSE kids
    /\ UNCHANGED <<tick, turn, root, counts>>

-----------------------------------------------------------------------------
ChildrenNext ==
    \/ \E k \in Kid, t \in Instant : TurnStarts(k, t) \/ TurnMoves(k, t)
    \/ \E k \in Kid : HookStart(k) \/ HookTouch(k) \/ HookStop(k) \/ ReadRollout(k)
    \/ RootEnds \/ RootStarts
    \/ BeginSweep \/ Reopen \/ ApplySweep

\* The daemon sweeps on; a connection that fails is not one that always fails.
SweepStep == BeginSweep \/ ApplySweep \/ \E k \in Kid : ReadRollout(k)
ChildrenFairness == WF_childrenVars(SweepStep)
ChildrenSpec == ChildrenInit /\ [][ChildrenNext]_childrenVars /\ ChildrenFairness

-----------------------------------------------------------------------------
(***************************************************************************)
(* Properties.                                                             *)
(***************************************************************************)

\* A child whose row a hook deleted while a sweep was out is not registered
\* again by that sweep, whatever its older reading says.  A connection
\* reopened meanwhile is the exception: its data version may be the same.
StoppedStaysGone ==
    [][\A k \in Kid : kids[k] = Null /\ kids'[k] # Null /\ sweep # Null /\ sweep' = Null
         => k \notin sweep.gone]_childrenVars

\* Once every turn has ended the children leave the board, though no stop
\* hook ever came and an old sweep was applied after a reopening.
Quiet == \A k \in Kid : ~Working(k)
EndedChildrenLeave == Quiet ~> (~Quiet \/ \A k \in Kid : kids[k] = Null)
=============================================================================
