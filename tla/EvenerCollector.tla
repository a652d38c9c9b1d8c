--------------------------- MODULE EvenerCollector ---------------------------
(***************************************************************************)
(* The Evener collector of src/src/core/evener.ts: a client that keeps the *)
(* registry in step with the threads of a hub it reaches over one ordered  *)
(* connection.  A refresh lists, reads and places every thread; between    *)
(* refreshes the hub's notifications are applied as they come.             *)
(*                                                                         *)
(* A step of the collector is one turn of its event loop: a message with   *)
(* the continuation it resumes, or a timer.  The hub is external: it       *)
(* changes when it likes, tells every change once and in order, may take   *)
(* the answer to a request of a refresh well before it sends it, and       *)
(* answers a read of subscribeLive at once.                                *)
(*                                                                         *)
(* Left out: titles, projects, models, turn ids, questions, escalations    *)
(* and system errors; a thread is closed, idle or active.  The lineage of  *)
(* threads is fixed, acyclic and unambiguous.  The check of the threads    *)
(* closed during a refresh never decides: closing one changes the          *)
(* generation, which is checked first.                                     *)
(***************************************************************************)
EXTENDS RegistryTable, SequencesExt

CONSTANTS
    ParentOf,      \* [Session -> Session \cup {Null}]: who started a thread
    MaxChanges,    \* bound: changes at the hub
    MaxFaults      \* bound: lost connections and requests that time out

ASSUME EvenerAssumption ==
    /\ ParentOf \in [Session -> Session \cup {Null}]
    /\ \A S \in SUBSET Session : S # {} => \E s \in S : ParentOf[s] \notin S
    /\ ProviderOf = [s \in Session |-> "evener"]
    /\ MaxChanges \in Nat /\ MaxFaults \in Nat

VARIABLES
    hub,           \* the threads at the hub
    wire,          \* what the hub has sent and the collector not yet received
    conn,          \* "up" when the socket is open and initialized
    index,         \* indices.statesBySessionId
    subscribed,    \* indices.subscribedSessionIds
    rooted,        \* the keys of rootSessionIdBySessionId
    live,          \* per thread, the read of subscribeLive under way, or Null
    refresh,       \* the refresh under way, or NoRefresh
    again,         \* refreshAgain
    timer,         \* refreshTimer: "off", due "now", or the interval after an
                   \* accepted ("interval") or a rejected candidate ("retry")
    rows,          \* the registry
    changes, faults

bounds == <<changes, faults>>
collector == <<conn, index, subscribed, rooted, live, refresh, again, timer, rows>>
vars == <<hub, wire, collector, bounds>>

IsChild(s) == ParentOf[s] # Null
Children == {s \in Session : IsChild(s)}
Orders == SetToSeqs(Children)
Lineage == Restrict(ParentOf, Children)
Above == [s \in Session |-> Ancestry(Lineage, s)]
Below(s) == {x \in Session : s \in Above[x]}

Raw == {"closed", "idle", "active"}
Thread == [raw : Raw, archived : BOOLEAN]
Entry == [raw : Raw, failed : BOOLEAN, registered : BOOLEAN, cleaned : BOOLEAN]
ASSUME EntryAssumption == Null \notin Entry /\ \A S \in SUBSET Session : S # Null
IsIndex(idx) == DOMAIN idx \subseteq Session /\ idx \in [DOMAIN idx -> Entry]
Empty == [s \in {} |-> Null]
NoRefresh == [step |-> "none"]

\* The collector's state is what its types say, and a dead connection leaves
\* nothing of itself behind: no request, no timer, no subscription
\* (disconnect).
TypeOK ==
    /\ hub \in [Session -> Thread]
    /\ conn \in {"down", "up"} /\ again \in BOOLEAN
    /\ IsIndex(index) /\ subscribed \subseteq Session /\ rooted \subseteq Session
    /\ \A s \in Session : live[s] = Null \/ live[s].own \in Entry \cup {Null}
    /\ timer \in {"off", "now", "interval", "retry"}
    /\ refresh # NoRefresh => /\ refresh.step \in {"list", "read", "place"}
                              /\ IsIndex(refresh.candidate)
                              /\ refresh.todo \cup refresh.archived \subseteq DOMAIN refresh.candidate
                              /\ refresh.stale \in BOOLEAN
    /\ IsTable(rows)
    /\ changes \in 0..MaxChanges /\ faults \in 0..MaxFaults
    /\ conn = "down" => /\ wire = <<>> /\ refresh = NoRefresh /\ timer = "off" /\ ~again
                        /\ subscribed = {} /\ live = [s \in Session |-> Null]

\* The collector starts while the hub is in the middle of anything.
HubValid == \A s \in Session :
    /\ hub[s].archived => ~IsChild(s) /\ hub[s].raw = "idle"
    /\ IsChild(s) /\ hub[s].raw # "closed" => hub[ParentOf[s]].raw # "closed"
Init == /\ hub \in [Session -> Thread] /\ HubValid
        /\ wire = <<>> /\ conn = "down"
        /\ index = Empty /\ subscribed = {} /\ rooted = {}
        /\ live = [s \in Session |-> Null]
        /\ refresh = NoRefresh /\ again = FALSE /\ timer = "off"
        /\ rows = Empty
        /\ changes = 0 /\ faults = 0

-----------------------------------------------------------------------------
(***************************************************************************)
(* The hub.  Closing a thread closes what it started.                      *)
(***************************************************************************)
Notice(kind, s) == [kind |-> kind, thread |-> s, raw |-> hub'[s].raw]
Told(notices) == wire' = IF conn = "down" THEN wire ELSE wire \o notices
HubChange == changes < MaxChanges /\ changes' = changes + 1 /\ UNCHANGED <<collector, faults>>

\* A thread is not opened again while its last opening is still being read.
OpenThread(s, raw) ==
    /\ HubChange
    /\ hub[s].raw = "closed" /\ live[s] = Null
    /\ \A i \in DOMAIN wire : wire[i].kind = "liveReply" => wire[i].thread # s
    /\ IsChild(s) => hub[ParentOf[s]].raw # "closed"
    /\ hub' = [hub EXCEPT ![s].raw = raw]
    /\ Told(<<Notice("started", s)>>)
\* A turn brings an archived thread back: its tier changes, as with Archive.
StartTurn(s) ==
    /\ HubChange
    /\ hub[s].raw = "idle"
    /\ hub' = [hub EXCEPT ![s].raw = "active", ![s].archived = FALSE]
    /\ Told(<<Notice("running", s), Notice("status", s)>>
            \o IF hub[s].archived THEN <<Notice("invalidated", s)>> ELSE <<>>)
EndTurn(s, outcome) ==
    /\ HubChange
    /\ hub[s].raw = "active"
    /\ hub' = [hub EXCEPT ![s].raw = "idle"]
    /\ Told(<<Notice(outcome, s), Notice("status", s)>>)
\* Only a thread with nothing open below it is unloaded with a status.
CloseThread(s, kind) ==
    /\ HubChange
    /\ hub[s].raw # "closed"
    /\ kind = "status" => \A x \in Below(s) \ {s} : hub[x].raw = "closed"
    /\ hub' = [x \in Session |-> IF x \in Below(s) THEN [raw |-> "closed", archived |-> FALSE]
                                 ELSE hub[x]]
    /\ Told(<<Notice(kind, s)>>)
Archive(s) ==
    /\ HubChange
    /\ ~IsChild(s) /\ hub[s].raw = "idle" /\ ~hub[s].archived
    /\ hub' = [hub EXCEPT ![s].archived = TRUE]
    /\ Told(<<Notice("invalidated", s)>>)

HubStep == \E s \in Session :
    \/ \E raw \in {"idle", "active"} : OpenThread(s, raw)
    \/ StartTurn(s)
    \/ \E outcome \in {"completed", "failed"} : EndTurn(s, outcome)
    \/ \E kind \in {"closed", "status"} : CloseThread(s, kind)
    \/ Archive(s)

\* thread/list leaves closed threads out.  A read of one says that it is
\* closed, or is refused (Null).  So is the place of one in the navigation,
\* which answers then with a status that is not ok.
Listed == Restrict(hub, {s \in Session : hub[s].raw # "closed"})
Reads(s) == {hub[s]} \cup (IF hub[s].raw = "closed" THEN {Null} ELSE {})
\* The reads of a refresh come in no particular order.
TakeAnswer ==
    /\ refresh # NoRefresh /\ refresh.call = "asked"
    /\ \E at \in IF refresh.step = "list" THEN {Null} ELSE refresh.todo :
       \E answer \in IF refresh.step = "list" THEN {Listed} ELSE Reads(at) :
          refresh' = [refresh EXCEPT !.call = "taken", !.at = at, !.answer = answer]
    /\ UNCHANGED <<hub, wire, conn, index, subscribed, rooted, live, again, timer, rows, bounds>>
Fault == faults < MaxFaults /\ faults' = faults + 1 /\ UNCHANGED <<hub, changes>>
\* The navigation may not know a thread yet that is open.
RefusePlace ==
    /\ Fault
    /\ refresh # NoRefresh /\ refresh.call = "asked" /\ refresh.step = "place"
    /\ \E at \in refresh.todo :
          refresh' = [refresh EXCEPT !.call = "taken", !.at = at, !.answer = Null]
    /\ UNCHANGED <<wire, conn, index, subscribed, rooted, live, again, timer, rows>>
SendAnswer ==
    /\ refresh # NoRefresh /\ refresh.call = "taken"
    /\ refresh' = [refresh EXCEPT !.call = "sent", !.at = Null, !.answer = Null]
    /\ wire' = Append(wire, [kind |-> "refreshReply", thread |-> refresh.at, answer |-> refresh.answer])
    /\ UNCHANGED <<hub, conn, index, subscribed, rooted, live, again, timer, rows, bounds>>
AnswerLive(s) ==
    /\ live[s] # Null /\ ~live[s].answered
    /\ live' = [live EXCEPT ![s].answered = TRUE]
    /\ \E answer \in Reads(s) :
          wire' = Append(wire, [kind |-> "liveReply", thread |-> s, answer |-> answer])
    /\ UNCHANGED <<hub, conn, index, subscribed, rooted, refresh, again, timer, rows, bounds>>

-----------------------------------------------------------------------------
(***************************************************************************)
(* The collector's handlers, as functions from one of its states to the    *)
(* next.  An update reaches the registry within the turn that emits it.    *)
(***************************************************************************)
Now == [conn |-> conn, index |-> index, subscribed |-> subscribed, rooted |-> rooted,
        live |-> live, refresh |-> refresh, again |-> again, timer |-> timer, rows |-> rows]
Enter(next) == \E w \in {next} :
    /\ conn' = w.conn /\ index' = w.index /\ subscribed' = w.subscribed /\ rooted' = w.rooted
    /\ live' = w.live /\ refresh' = w.refresh /\ again' = w.again /\ timer' = w.timer
    /\ rows' = w.rows

\* A refresh already due is put off or brought forward.
ScheduleRefresh(w, due) == [w EXCEPT !.timer = due]
InvalidateRefreshGeneration(w) ==
    IF w.refresh = NoRefresh THEN w ELSE ScheduleRefresh([w EXCEPT !.refresh.stale = TRUE], "now")

\* subscribeLive holds on to the state object it was called with.  When the
\* index no longer has that object, what it said last is kept.
LetGo(w, S) ==
    [w EXCEPT !.live = [s \in Session |->
        IF s \in S /\ @[s] # Null /\ @[s].own = Null THEN [@[s] EXCEPT !.own = w.index[s]] ELSE @[s]]]
Forget(w, S) ==
    [LetGo(w, S) EXCEPT !.index = Restrict(@, DOMAIN @ \ S), !.subscribed = @ \ S, !.rooted = @ \ S]
WholeChain(idx) == {s \in DOMAIN idx : Above[s] \subseteq DOMAIN idx}
Remember(w) == [w EXCEPT !.rooted = (@ \cap DOMAIN w.index) \cup WholeChain(w.index)]

Unknown == [failed |-> FALSE, registered |-> FALSE, cleaned |-> FALSE]
Previous(idx, s) == IF s \in DOMAIN idx THEN idx[s] ELSE Unknown
ParseThread(thread, previous) ==
    [raw |-> thread.raw, failed |-> thread.raw # "active" /\ previous.failed,
     registered |-> previous.registered, cleaned |-> previous.cleaned]
EffectiveStatus(e) ==
    IF e.raw = "active" THEN "working" ELSE IF e.raw = "idle" /\ e.failed THEN "error" ELSE "idle"

EndEvent(tbl, s) == IF IsChild(s) THEN SubagentStop(tbl, s) ELSE SessionEnd(tbl, s)
Put(w, s, e, tbl) == [w EXCEPT !.index = Insert(@, s, e), !.rows = tbl]
\* A child leaves the board when it goes idle, once.
Cleanup(w, s, e) ==
    Put(w, s, [e EXCEPT !.registered = FALSE, !.cleaned = TRUE],
        IF e.cleaned THEN w.rows ELSE SubagentStop(w.rows, s))

ParentRegistered(idx, s) == ParentOf[s] \in DOMAIN idx /\ idx[ParentOf[s]].registered
\* Mutant: a child that left once is not registered again.
HydrateChildOnce(w, s, e) ==
    IF ~ParentRegistered(w.index, s) \/ EffectiveStatus(e) = "idle" THEN Cleanup(w, s, e)
    ELSE IF e.registered \/ e.cleaned THEN Put(w, s, e, StatusObserved(w.rows, s, EffectiveStatus(e), 0))
    ELSE Put(w, s, [e EXCEPT !.registered = TRUE],
             StatusObserved(SubagentStart(w.rows, s, ParentOf[s], 0), s, EffectiveStatus(e), 0))
HydrateChild(w, s, e) ==
    IF ~ParentRegistered(w.index, s) \/ EffectiveStatus(e) = "idle" THEN Cleanup(w, s, e)
    ELSE IF e.registered THEN Put(w, s, e, StatusObserved(w.rows, s, EffectiveStatus(e), 0))
    ELSE Put(w, s, [e EXCEPT !.registered = TRUE, !.cleaned = FALSE],
             StatusObserved(SubagentStart(w.rows, s, ParentOf[s], 0), s, EffectiveStatus(e), 0))
HydrateRoot(w, s, e, liveStart) ==
    LET shown == IF liveStart THEN SessionStart(w.rows, s, Null, 0)
                 ELSE SessionObserved(w.rows, s, Null, 0)
    IN  Put(w, s, [e EXCEPT !.registered = TRUE], StatusObserved(shown, s, EffectiveStatus(e), 0))
HydrateState(w, s, e, liveStart) ==
    IF e.raw = "closed" THEN Put(w, s, [e EXCEPT !.registered = FALSE], EndEvent(w.rows, s))
    ELSE IF IsChild(s) THEN HydrateChild(w, s, e)
    ELSE HydrateRoot(w, s, e, liveStart)

-----------------------------------------------------------------------------
(***************************************************************************)
(* Notifications.                                                          *)
(***************************************************************************)
\* hydrateLiveThread rebuilds the whole index around the thread.
HandleStarted(w, s, raw) ==
    LET e     == ParseThread([raw |-> raw], Previous(w.index, s))
        shown == Remember(HydrateState(LetGo(w, DOMAIN w.index), s, e, TRUE))
    IN  IF s \in w.subscribed THEN shown
        ELSE [shown EXCEPT !.live[s] = [own |-> Null, answered |-> FALSE]]

HandleStatus(w, s, raw) ==
    LET e == [w.index[s] EXCEPT !.raw = raw, !.failed = @ /\ raw # "active"]
    IN  IF IsChild(s) /\ EffectiveStatus(e) = "idle" THEN Cleanup(w, s, e)
        ELSE IF IsChild(s) /\ ~e.registered THEN HydrateState(w, s, e, TRUE)
        ELSE IF raw = "closed" THEN Forget([w EXCEPT !.rows = SessionEnd(@, s)], {s})
        ELSE IF raw = "active" THEN Put(w, s, e, ApplyStatusEvent(w.rows, s, "Activity", 0))
        ELSE Put(w, s, e, StatusObserved(w.rows, s, EffectiveStatus(e), 0))

HandleRunning(w, s) ==
    LET e == [w.index[s] EXCEPT !.raw = "active", !.failed = FALSE]
    IN  IF IsChild(s) /\ ~e.registered THEN HydrateState(w, s, e, TRUE)
        ELSE Put(w, s, e, ApplyStatusEvent(w.rows, s, "Activity", 0))
HandleTerminal(w, s, outcome) ==
    LET e == w.index[s]
    IN  IF IsChild(s) THEN Cleanup(w, s, e)
        ELSE IF outcome = "failed"
        THEN Put(w, s, [e EXCEPT !.failed = TRUE, !.raw = "idle"],
                 ApplyStatusEvent(w.rows, s, "StopFailure", 0))
        ELSE Put(w, s, [e EXCEPT !.failed = FALSE], ApplyStatusEvent(w.rows, s, "Stop", 0))

\* What goes with a root: what the index links below it, and what once was.
\* Each is stopped, unless it left the board before.
Descendants(w, s) ==
    {x \in (DOMAIN w.index \cap Below(s)) \ {s} : x \in w.rooted \cup WholeChain(w.index)}
HandleClosed(w, s) ==
    LET gone  == IF IsChild(s) THEN {s} ELSE Descendants(w, s)
        stops == DeleteRows(w.rows, {x \in gone : ~w.index[x].cleaned} \ TopLevel(w.rows))
        ends  == IF IsChild(s) THEN stops ELSE SessionEnd(stops, s)
    IN  ScheduleRefresh(Forget([w EXCEPT !.rows = ends], gone \cup {s}), "now")

\* A notification about a thread the index does not know asks for a refresh.
HandleNotification(w, m) ==
    LET s == m.thread
    IN  CASE m.kind = "started" -> HandleStarted(w, s, m.raw)
          [] m.kind = "invalidated" -> ScheduleRefresh(w, "now")
          [] m.kind \notin {"started", "invalidated"} /\ s \notin DOMAIN w.index -> ScheduleRefresh(w, "now")
          [] m.kind = "status" /\ s \in DOMAIN w.index -> HandleStatus(w, s, m.raw)
          [] m.kind = "running" /\ s \in DOMAIN w.index -> HandleRunning(w, s)
          [] m.kind = "closed" /\ s \in DOMAIN w.index -> HandleClosed(w, s)
          [] m.kind \in {"completed", "failed"} /\ s \in DOMAIN w.index -> HandleTerminal(w, s, m.kind)

-----------------------------------------------------------------------------
(***************************************************************************)
(* Answers, the refresh and the connection.                                *)
(***************************************************************************)
\* The answer of subscribeLive is read over the state the read began with,
\* and goes into the index even when the thread has left it.
HandleLiveReply(w, m) ==
    LET s    == m.thread
        own  == IF w.live[s].own = Null THEN w.index[s] ELSE w.live[s].own
        done == [w EXCEPT !.live[s] = Null]
    IN  IF w.live[s] = Null THEN w
        ELSE IF m.answer = Null THEN ScheduleRefresh(done, "now")
        ELSE HydrateState([done EXCEPT !.subscribed = @ \cup {s}], s, ParseThread(m.answer, own), FALSE)

Asking(w, step, todo) ==
    [w EXCEPT !.refresh.step = step, !.refresh.todo = todo, !.refresh.call = "asked"]
StartRefresh(w) ==
    IF w.refresh # NoRefresh THEN [w EXCEPT !.again = TRUE]
    ELSE [w EXCEPT !.refresh = [step |-> "list", candidate |-> Empty, todo |-> {}, archived |-> {},
                                stale |-> FALSE, call |-> "asked", at |-> Null, answer |-> Null]]
\* Mutant: an invalidated refresh relies on the timer it already has.
AbandonQuietly(w, due) == [w EXCEPT !.refresh = NoRefresh]
Abandon(w, due) == ScheduleRefresh([w EXCEPT !.refresh = NoRefresh], due)

\* The roots are hydrated first, then the children in sweeps over the list
\* until nothing more can be; a child whose parent is not registered keeps the
\* flags it had.
DeriveState(x, s) ==
    IF s \in x.done \/ s \notin DOMAIN x.w.index \/ (IsChild(s) /\ ~ParentRegistered(x.w.index, s))
    THEN x
    ELSE [w |-> HydrateState(x.w, s, x.w.index[s], FALSE), done |-> x.done \cup {s}]
DeriveCandidateEvents(w, order) ==
    LET list  == SetToSeq(Session \ Children) \o order
        size  == Cardinality(Session)
        sweep[n \in 0..size * size] ==
            IF n = 0 THEN [w |-> w, done |-> {}]
            ELSE DeriveState(sweep[n - 1], list[((n - 1) % size) + 1])
    IN  sweep[size * size].w
ActiveChildren(idx) ==
    {s \in DOMAIN idx : IsChild(s) /\ idx[s].registered /\ EffectiveStatus(idx[s]) # "idle"}

\* The candidate, less the archived roots and what they started, becomes the
\* index; the registry is brought in line with it.
AcceptCandidate(w, order) ==
    LET r       == w.refresh
        kept    == {s \in DOMAIN r.candidate : Above[s] \cap r.archived = {}}
        adopted == [LetGo(w, DOMAIN w.index) EXCEPT !.index = Restrict(r.candidate, kept),
                                                    !.subscribed = kept]
        derived == Remember(DeriveCandidateEvents(adopted, order))
        synced  == [derived EXCEPT !.rows = ReconcileEvener(@, r.archived, ActiveChildren(derived.index)),
                                   !.refresh = NoRefresh, !.again = FALSE]
    IN  ScheduleRefresh(synced, IF w.again THEN "now" ELSE "interval")
\* What the refresh asks for next.  A child whose parent is not in the
\* candidate rejects it.
Advance(w, order) ==
    LET r     == w.refresh
        roots == DOMAIN r.candidate \ Children
    IN  IF r.todo # {} THEN Asking(w, r.step, r.todo)
        ELSE IF r.step = "place" THEN AcceptCandidate(w, order)
        ELSE IF \E s \in DOMAIN r.candidate \cap Children : ParentOf[s] \notin DOMAIN r.candidate
        THEN Abandon(w, "retry")
        ELSE IF roots = {} THEN AcceptCandidate(w, order)
        ELSE Asking(w, "place", roots)
RefreshStep(w, m, order) ==
    LET r == w.refresh
        s == m.thread
    IN  CASE r.step = "list" ->
                LET candidate == [x \in DOMAIN m.answer |-> ParseThread(m.answer[x], Previous(w.index, x))]
                IN  Advance([w EXCEPT !.refresh = [r EXCEPT !.step = "read", !.candidate = candidate,
                                                            !.todo = DOMAIN candidate]], order)
          [] r.step = "read" ->
                Advance([w EXCEPT !.refresh = [r EXCEPT !.candidate[s] = ParseThread(m.answer, @),
                                                        !.todo = @ \ {s}]], order)
          [] r.step = "place" ->
                Advance([w EXCEPT !.refresh = [r EXCEPT !.todo = @ \ {s},
                            !.archived = IF m.answer.archived THEN @ \cup {s} ELSE @]], order)

Disconnected(w) ==
    [w EXCEPT !.conn = "down", !.timer = "off", !.subscribed = {}, !.refresh = NoRefresh,
              !.again = FALSE, !.live = [s \in Session |-> Null]]
\* Mutant: an answer is used whatever changed while it was on its way.
HandleRefreshReplyUnguarded(w, m, order) ==
    IF m.answer = Null
    THEN IF w.refresh.step = "place" THEN Abandon(w, "retry") ELSE Disconnected(w)
    ELSE RefreshStep(w, m, order)
\* A read that is refused throws before the generation is asserted and costs
\* the connection; a place that is refused rejects the candidate.
HandleRefreshReply(w, m, order) ==
    IF m.answer = Null /\ w.refresh.step # "place" THEN Disconnected(w)
    ELSE IF w.refresh.stale THEN Abandon(w, "now")
    ELSE IF m.answer = Null THEN Abandon(w, "retry")
    ELSE RefreshStep(w, m, order)

HandleMessage(w, m, order) ==
    CASE m.kind = "refreshReply" -> HandleRefreshReply(w, m, order)
      [] m.kind = "liveReply"    -> HandleLiveReply(w, m)
      [] OTHER -> HandleNotification(InvalidateRefreshGeneration(w), m)

Deliver ==
    /\ wire # <<>>
    /\ \E order \in Orders : Enter(HandleMessage(Now, Head(wire), order))
    /\ wire' = IF conn' = "down" THEN <<>> ELSE Tail(wire)
    /\ UNCHANGED <<hub, bounds>>
FireRefreshTimer ==
    /\ timer # "off"
    /\ Enter(StartRefresh([Now EXCEPT !.timer = "off"]))
    /\ UNCHANGED <<hub, wire, bounds>>
\* The handshake is one step; the first refresh is part of it.
Connect ==
    /\ conn = "down"
    /\ Enter(StartRefresh([Now EXCEPT !.conn = "up"]))
    /\ UNCHANGED <<hub, wire, bounds>>

\* The socket closes, or a request of the refresh times out: both disconnect.
LoseConnection ==
    /\ Fault
    /\ conn = "up"
    /\ Enter(Disconnected(Now)) /\ wire' = <<>>
LiveReadTimesOut(s) ==
    /\ Fault
    /\ live[s] # Null
    /\ Enter(ScheduleRefresh([Now EXCEPT !.live[s] = Null], "now"))
    /\ UNCHANGED wire

Next ==
    \/ HubStep
    \/ TakeAnswer \/ RefusePlace \/ SendAnswer \/ \E s \in Session : AnswerLive(s)
    \/ Deliver \/ FireRefreshTimer \/ Connect
    \/ LoseConnection \/ \E s \in Session : LiveReadTimesOut(s)

\* The hub answers, what is on the wire comes off it, and timers fire.
Receive == wire # <<>> /\ wire' \in {Tail(wire), <<>>}
Fairness == /\ WF_vars(TakeAnswer) /\ WF_vars(SendAnswer) /\ WF_vars(\E s \in Session : AnswerLive(s))
            /\ WF_wire(Receive) /\ WF_vars(FireRefreshTimer) /\ WF_vars(Connect)
Spec == Init /\ [][Next]_vars /\ Fairness

-----------------------------------------------------------------------------
(***************************************************************************)
(* Properties.                                                             *)
(***************************************************************************)
Visible == {s \in Session : /\ hub[s].raw # "closed"
                            /\ \A x \in Above[s] : ~hub[x].archived}
\* Nothing under way, and no refresh due before the interval is over.
Quiet == /\ conn = "up" /\ refresh = NoRefresh /\ wire = <<>> /\ timer = "interval"
         /\ live = [s \in Session |-> Null]

\* However refreshes, notifications and late answers interleave, at rest the
\* collector knows every thread of the board, and nothing else as open, with
\* the status the hub has: the generation check (assertRefreshGeneration)
\* never lets a snapshot overwrite what came after it.
IndexIsCurrent ==
    Quiet => /\ Visible \subseteq DOMAIN index
             /\ \A s \in DOMAIN index : index[s].raw # "closed" => index[s].raw = hub[s].raw

\* What the board shows of a thread: a root as long as the hub lists it; a
\* child while it and the children above it work.
Shown(s) == \A x \in Above[s] \cap Children : hub[x].raw = "active"
Agrees(s) ==
    IF s \in Visible /\ Shown(s)
    THEN s \in DOMAIN rows /\ (rows[s].status = "working" <=> hub[s].raw = "active")
    ELSE IsChild(s) \/ hub[s].archived => s \notin DOMAIN rows
\* A child missed: the collector takes it, or one above it, to be registered,
\* while the row has gone, by the cascade of a parent's.
Missed(s, known) ==
    /\ s \in Visible /\ Shown(s)
    /\ \E x \in Above[s] \cap Children :
           x \in DOMAIN known /\ known[x].registered /\ x \notin DOMAIN rows

\* A complete refresh is authoritative (the reconciliation half of onUpdate):
\* when one is accepted and no notification is on its way, the rows are those
\* of the hub's threads, whatever the collector and the registry held before.
RefreshEnds == refresh # NoRefresh /\ refresh' = NoRefresh /\ conn' = "up" /\ timer' = "interval"
NothingToTell == \A i \in DOMAIN wire : wire[i].kind \in {"refreshReply", "liveReply"}
RefreshIsAuthoritative ==
    [][RefreshEnds /\ NothingToTell => \A s \in Session : Agrees(s)']_vars
\* So it is but for the children missed before: it loses none itself.
RefreshPutsRight ==
    [][RefreshEnds /\ NothingToTell =>
          \A s \in Session : Agrees(s)' \/ Missed(s, refresh.candidate)]_vars

\* Whatever connections were lost and reads timed out, once the hub is at rest
\* the rows agree with it for good, but for the children missed.
RowsCatchUp == <>[](\A s \in Session : Agrees(s) \/ Missed(s, index))
=============================================================================
