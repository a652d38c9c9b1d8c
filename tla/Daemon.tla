------------------------------- MODULE Daemon -------------------------------
(***************************************************************************)
(* The publisher of the snapshot: the poll loop of src/src/core/daemon.ts. *)
(*                                                                         *)
(* One poll is a sequence of steps (pc) on one thread; commits of the      *)
(* helpers and of the Evener collector, which have their own connections,  *)
(* fall between any two of them, and the callbacks of the provider-file    *)
(* sweeps between two polls.  The registry is abstracted to the part the   *)
(* board shows of it.  A step that can throw does so at the price of one   *)
(* fault; the process may die anywhere, at the same price.                 *)
(***************************************************************************)
EXTENDS Naturals, Sequences, FiniteSets

CONSTANTS
    Content,       \* what a committed registry can hold, as far as the board shows it
    Corrupt,       \* the contents whose projection throws
    Failure,       \* the health codes of an unhealthy snapshot
    Nothing,       \* no snapshot yet
    Null,          \* lastSnapshot, lastDataVersion before the first publish
    MaxHistory,    \* bound: commits in a behaviour
    MaxFaults,     \* bound: faults in a behaviour
    Faults,        \* the kinds of fault that may happen
    FirstVersion,  \* the version numbers a new connection may start from
    Heartbeat,     \* DAEMON_HEARTBEAT_MS, in poll intervals
    Stall,         \* TICK_STALL_MS, in poll intervals
    SweepEvery     \* DAEMON_TITLE_INTERVAL_MS, DAEMON_PASEO_INTERVAL_MS

Sweep == {"facts", "paseo"}
\* Where a poll applies a settled sweep and starts the next.
ApplyAt == [facts |-> "applyFacts", paseo |-> "applyPaseo"]
StartAt == [facts |-> "startFacts", paseo |-> "startPaseo"]
FaultKind == {"open", "apply", "list", "prune", "version", "read", "write", "crash"}

ASSUME DaemonAssumption ==
    /\ {MaxHistory, MaxFaults, Heartbeat, Stall, SweepEvery} \subseteq Nat
    /\ 0 < MaxHistory /\ 0 < Heartbeat /\ Heartbeat < Stall
    /\ Faults \subseteq FaultKind
    /\ FirstVersion \subseteq Nat
    /\ Corrupt \subseteq Content
    /\ Failure = {"internal_error", "missing_database", "unsupported_schema"}
    /\ (Content \cup Failure) \cap {Null, Nothing} = {} /\ Content \cap Failure = {}

VARIABLES
    history,       \* every committed content so far, oldest first, with its writer
    file,          \* the snapshot file
    seen,          \* ghost: how far into history the file has brought the board
    pc,            \* where the poll is; "rest" between polls
    version,       \* PRAGMA data_version of the open connection, Null when closed
    lastVersion, last, healthy, age, overdue,       \* DaemonState
    inFlight, pending, sweepAge,                    \* the sweeps and their cadence
    promise,       \* [Sweep -> BOOLEAN]: a running sweep that will call back
    changed,       \* maintain()'s result in this poll
    read,          \* dataVersion of this poll
    taken,         \* the index of the history entry this poll projected
    failed,        \* a write of this poll failed
    faults         \* how many faults have happened

state   == <<lastVersion, last, healthy, age, overdue>>
sweeps  == <<inFlight, pending, sweepAge, promise>>
locals  == <<changed, read, taken, failed>>
world   == <<history, file, seen>>
vars    == <<world, pc, version, state, sweeps, locals, faults>>

Entry == [what : Content, own : BOOLEAN]

Fault(kinds) == /\ kinds \subseteq Faults
                /\ faults + Cardinality(kinds) <= MaxFaults
                /\ faults' = faults + Cardinality(kinds)

TypeOK ==
    /\ history \in Seq(Entry) /\ Len(history) <= MaxHistory
    /\ file \in {Nothing} \cup Content \cup Failure /\ seen \in 0..Len(history)
    /\ pc \in {"rest", "open", "prune", "version", "project", "publish", "finish"}
              \cup {ApplyAt[s] : s \in Sweep} \cup {StartAt[s] : s \in Sweep}
    /\ version \in Nat \cup {Null} /\ lastVersion \in Nat \cup {Null}
    /\ last \in {Null} \cup Content \cup Failure
    /\ {healthy, overdue, changed, failed} \subseteq BOOLEAN
    /\ inFlight \in [Sweep -> BOOLEAN] /\ pending \in [Sweep -> BOOLEAN]
    /\ promise \in [Sweep -> BOOLEAN]
    /\ age \in 0..Stall /\ sweepAge \in [Sweep -> 0..SweepEvery]
    /\ read \in Nat \cup {Null} /\ taken \in 0..Len(history) /\ faults \in 0..MaxFaults

None == [s \in Sweep |-> FALSE]
Init == /\ \E c \in Content : history = <<[what |-> c, own |-> FALSE]>>
        /\ file = Nothing /\ seen = 0
        /\ pc = "rest" /\ version = Null
        /\ lastVersion = Null /\ last = Null /\ healthy = FALSE /\ age = 0 /\ overdue = FALSE
        /\ inFlight = None /\ pending = None /\ promise = None
        /\ sweepAge = [s \in Sweep |-> SweepEvery]
        /\ changed = FALSE /\ read = Null /\ taken = 0 /\ failed = FALSE
        /\ faults = 0

-----------------------------------------------------------------------------
(***************************************************************************)
(* The world around the daemon.                                            *)
(***************************************************************************)
Append1(own) == /\ Len(history) < MaxHistory
                /\ \E c \in Content : history' = Append(history, [what |-> c, own |-> own])

\* A commit on another connection bumps the version this one reads.
ExternalCommit ==
    /\ Append1(FALSE)
    /\ version' = IF version = Null THEN Null ELSE version + 1
    /\ UNCHANGED <<file, seen, pc, state, sweeps, locals, faults>>

\* Mutant: a rejected sweep leaves its flag up.
SettleOnSuccess(s, resolved) ==
    /\ pc = "rest" /\ promise[s]
    /\ promise' = [promise EXCEPT ![s] = FALSE]
    /\ inFlight' = [inFlight EXCEPT ![s] = ~resolved]
    /\ pending' = [pending EXCEPT ![s] = @ \/ resolved]
    /\ UNCHANGED <<world, pc, version, state, sweepAge, locals, faults>>

\* A sweep's promise settles on the event loop, so only between polls.
SettleSweep(s, resolved) ==
    /\ pc = "rest" /\ promise[s]
    /\ promise' = [promise EXCEPT ![s] = FALSE]
    /\ inFlight' = [inFlight EXCEPT ![s] = FALSE]
    /\ pending' = [pending EXCEPT ![s] = @ \/ resolved]
    /\ UNCHANGED <<world, pc, version, state, sweepAge, locals, faults>>

\* The process dies and launchd restarts it.
Crash ==
    /\ Fault({"crash"})
    /\ pc' = "rest" /\ version' = Null
    /\ lastVersion' = Null /\ last' = Null /\ healthy' = FALSE /\ age' = 0 /\ overdue' = FALSE
    /\ inFlight' = None /\ pending' = None /\ promise' = None
    /\ sweepAge' = [s \in Sweep |-> SweepEvery]
    /\ changed' = FALSE /\ read' = Null /\ taken' = 0 /\ failed' = FALSE
    /\ UNCHANGED world

-----------------------------------------------------------------------------
(***************************************************************************)
(* The steps of a poll.                                                    *)
(***************************************************************************)
Goto(from, to) == pc = from /\ pc' = to
Least(a, b) == IF a < b THEN a ELSE b

\* The timer fires, gap poll intervals after it last did.
PollStart(gap) ==
    /\ Goto("rest", "open")
    /\ age' = Least(age + gap, Stall)
    /\ sweepAge' = [s \in Sweep |-> Least(sweepAge[s] + gap, SweepEvery)]
    /\ failed' = FALSE
    /\ UNCHANGED <<world, version, lastVersion, last, healthy, overdue,
                   inFlight, pending, promise, changed, read, taken, faults>>

\* Mutant: the state moves on before the write has worked.
WriteAfterState(content, ok) ==
    IF ok THEN file' = content /\ last' = content /\ age' = 0 /\ UNCHANGED failed
    ELSE failed' = TRUE /\ last' = content /\ UNCHANGED <<file, age>>

\* writeSnapshotAtomically: the new file or the old one, never a mixture.
WriteSnapshot(content, ok) ==
    IF ok THEN file' = content /\ last' = content /\ age' = 0 /\ UNCHANGED failed
    ELSE failed' = TRUE /\ UNCHANGED <<file, last, age>>

\* publishUnhealthy, after a fault of the kinds why; upTo is how far the
\* board is brought when the failure is the registry's own.
PublishUnhealthy(code, upTo, why) ==
    /\ healthy' = FALSE
    /\ \/ /\ last = code
          /\ Fault(why) /\ seen' = upTo
          /\ UNCHANGED <<file, last, age, failed>>
       \/ /\ last # code
          /\ Fault(why) /\ seen' = upTo /\ WriteSnapshot(code, TRUE)
       \/ /\ last # code
          /\ Fault(why \cup {"write"}) /\ UNCHANGED seen /\ WriteSnapshot(code, FALSE)
    /\ UNCHANGED <<history, lastVersion, overdue>>

\* The version numbers of two connections are unrelated.
Open ==
    /\ Goto("open", ApplyAt["facts"])
    /\ IF version # Null THEN UNCHANGED version ELSE version' \in FirstVersion
    /\ UNCHANGED <<world, state, sweeps, locals, faults>>
OpenFails ==
    /\ version = Null
    /\ Goto("open", "finish")
    /\ \E code \in Failure : PublishUnhealthy(code, seen, {"open"})
    /\ UNCHANGED <<version, sweeps, changed, read, taken>>

\* maintain(): own commits are always remembered in changed, for they never
\* bump the version; a throw abandons the rest of the maintenance.
OwnCommit == Append1(TRUE) /\ changed' = TRUE
NoCommit == UNCHANGED <<history, changed>>

\* Mutant: a throw while applying skips to the sweeps.
AbortsToSweeps == StartAt["facts"]
\* Where the poll goes on when maintenance throws.
MaintainAborted == "version"
AfterApply(s) == IF s = "facts" THEN ApplyAt["paseo"] ELSE StartAt["facts"]
ApplyPending(s) ==
    /\ pending[s]
    /\ pending' = [pending EXCEPT ![s] = FALSE]
    /\ \/ /\ Goto(ApplyAt[s], AfterApply(s))
          /\ OwnCommit \/ NoCommit
          /\ UNCHANGED faults
       \* The facts are several transactions, the overlay is one.
       \/ /\ Goto(ApplyAt[s], MaintainAborted)
          /\ (s = "facts" /\ OwnCommit) \/ NoCommit
          /\ Fault({"apply"})
    /\ UNCHANGED <<file, seen, version, state, inFlight, sweepAge, promise,
                   read, taken, failed>>
NothingPending(s) ==
    /\ ~pending[s]
    /\ Goto(ApplyAt[s], AfterApply(s))
    /\ UNCHANGED <<world, version, state, sweeps, locals, faults>>

AfterStart(s) == IF s = "facts" THEN StartAt["paseo"] ELSE "prune"
SweepDue(s) == ~inFlight[s] /\ sweepAge[s] >= SweepEvery
StartSweep(s) ==
    /\ Goto(StartAt[s], AfterStart(s))
    /\ SweepDue(s)
    /\ sweepAge' = [sweepAge EXCEPT ![s] = 0]
    /\ inFlight' = [inFlight EXCEPT ![s] = TRUE]
    /\ promise' = [promise EXCEPT ![s] = TRUE]
    /\ UNCHANGED <<world, version, state, pending, locals, faults>>
\* Listing the title targets throws after the flag is up, before there is a
\* promise to lower it.
StartSweepFails ==
    /\ Goto(StartAt["facts"], MaintainAborted)
    /\ SweepDue("facts")
    /\ Fault({"list"})
    /\ sweepAge' = [sweepAge EXCEPT !["facts"] = 0]
    /\ inFlight' = [inFlight EXCEPT !["facts"] = TRUE]
    /\ UNCHANGED <<world, version, state, pending, promise, locals>>
SweepNotDue(s) ==
    /\ Goto(StartAt[s], AfterStart(s))
    /\ ~SweepDue(s)
    /\ UNCHANGED <<world, version, state, sweeps, locals, faults>>

\* The expiry sweep, then the prune; either commits or throws.  When the
\* last pass was is left open: a pass that is not due commits nothing.
Prune ==
    /\ Goto("prune", "version")
    /\ OwnCommit \/ NoCommit
    /\ UNCHANGED faults \/ Fault({"prune"})
    /\ UNCHANGED <<file, seen, version, state, sweeps, read, taken, failed>>

\* The version is read before the projection: a commit between the two is
\* published now and again noticed by the next poll.
Unchanged(v) == ~changed /\ healthy /\ lastVersion # Null /\ v = lastVersion
ReadDataVersion ==
    /\ Goto("version", IF Unchanged(version) THEN "finish" ELSE "project")
    /\ read' = version
    /\ UNCHANGED <<world, version, state, sweeps, changed, taken, failed, faults>>
ReadDataVersionFails ==
    /\ Goto("version", "finish")
    /\ version' = Null
    /\ PublishUnhealthy("internal_error", seen, {"version"})
    /\ UNCHANGED <<sweeps, changed, read, taken>>

ReadProjection ==
    /\ history[Len(history)].what \notin Corrupt
    /\ Goto("project", "publish")
    /\ taken' = Len(history)
    /\ UNCHANGED <<world, version, state, sweeps, changed, read, failed, faults>>
ReadProjectionFails ==
    /\ Goto("project", "finish")
    /\ IF history[Len(history)].what \in Corrupt
       THEN PublishUnhealthy("internal_error", Len(history), {})
       ELSE PublishUnhealthy("internal_error", seen, {"read"})
    /\ UNCHANGED <<version, sweeps, changed, read, taken>>

\* Mutant: the version of the connection now, not the one read first.
VersionAtPublish == version
PublishedVersion == read

\* publishHealthy: state moves only after the write it depends on.
PublishHealthy ==
    /\ Goto("publish", "finish")
    /\ LET json == history[taken].what
       IN  \/ /\ IF last = json THEN UNCHANGED <<file, last, age, failed>>
                                ELSE WriteSnapshot(json, TRUE)
              /\ seen' = taken /\ lastVersion' = PublishedVersion /\ healthy' = TRUE
              /\ UNCHANGED faults
           \/ /\ last # json /\ WriteSnapshot(json, FALSE)
              /\ Fault({"write"})
              /\ UNCHANGED <<seen, lastVersion, healthy>>
    /\ UNCHANGED <<history, version, overdue, sweeps, changed, read, taken>>

\* maybeHeartbeat, then checkPublishOverdue; the poll's locals are gone.
\* Mutants: a heartbeat one poll too late; the watchdog looks before the
\* heartbeat has had its turn.
HeartbeatLate == last # Null /\ age > Heartbeat
OverdueBeforeHeartbeat == overdue' = (age >= Stall)

HeartbeatDue == last # Null /\ age >= Heartbeat
CheckOverdue == overdue' = (age' >= Stall)
Finish ==
    /\ Goto("finish", "rest")
    /\ \/ /\ ~HeartbeatDue
          /\ UNCHANGED <<file, last, age, failed, faults>>
       \/ /\ HeartbeatDue
          /\ \/ WriteSnapshot(last, TRUE) /\ UNCHANGED faults
             \/ WriteSnapshot(last, FALSE) /\ Fault({"write"})
    /\ CheckOverdue
    /\ changed' = FALSE /\ read' = Null /\ taken' = 0
    /\ UNCHANGED <<history, seen, version, lastVersion, healthy, sweeps>>

-----------------------------------------------------------------------------
PollStep ==
    \/ PollStart(1)
    \/ PollStart(Stall)
    \/ Open \/ OpenFails
    \/ \E s \in Sweep : ApplyPending(s) \/ NothingPending(s)
    \/ \E s \in Sweep : StartSweep(s) \/ SweepNotDue(s)
    \/ StartSweepFails
    \/ Prune
    \/ ReadDataVersion \/ ReadDataVersionFails
    \/ ReadProjection \/ ReadProjectionFails
    \/ PublishHealthy
    \/ Finish

Next == \/ ExternalCommit
        \/ \E s \in Sweep, resolved \in BOOLEAN : SettleSweep(s, resolved)
        \/ Crash
        \/ PollStep

\* setInterval keeps firing and a poll runs to its end; files get read.
Fairness == /\ WF_vars(PollStep)
            /\ \A s \in Sweep : WF_vars(\E resolved \in BOOLEAN : SettleSweep(s, resolved))
Spec == Init /\ [][Next]_vars /\ Fairness

-----------------------------------------------------------------------------
(***************************************************************************)
(* Properties.                                                             *)
(***************************************************************************)

\* The promise of the file, over the committed contents alone: who wrote
\* them, the poll and its memory are the daemon's own business.
Promise == INSTANCE Feed WITH history <- [i \in DOMAIN history |-> history[i].what],
                              file <- file, seen <- seen

\* The daemon implements Feed through own and foreign commits, heartbeats
\* that rewrite an old snapshot, faults and restarts.
FeedKept == Promise!FeedSpec

\* Every commit of another process reaches the board, as itself or as
\* something newer, whatever fails on the way.
ExternalCommitsReachTheBoard ==
    \A i \in 1..MaxHistory :
        (i <= Len(history) /\ ~history[i].own) ~> (seen >= i)

\* A poll whose writes worked leaves a file younger than the heartbeat, on
\* every path out of the poll: the board never calls a live daemon dead.
FreshAfterGoodPoll == pc = "rest" /\ last # Null /\ ~failed => age < Heartbeat

\* Sleep or a stalled loop alone is never reported as overdue publication:
\* the record needs a write that failed in the very poll that makes it.
StallAloneNeverReports == [][overdue' /\ ~overdue => failed']_vars

\* A sweep never starts over a result still waiting to be applied, which
\* its own result would overwrite.
NoResultOverwritten == \A s \in Sweep : ~(inFlight[s] /\ pending[s])

\* The overlay sweep keeps coming back: no failure of its own or of the
\* work around it in the same poll leaves its flag up for good.
PaseoSweepKeepsRunning == []<>promise["paseo"]

\* So does the session-facts sweep.
FactsSweepKeepsRunning == []<>promise["facts"]

\* The board catches up with every commit, the daemon's own included.
BoardCatchesUp == <>[](seen = Len(history))
=============================================================================
