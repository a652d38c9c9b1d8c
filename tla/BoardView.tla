----------------------------- MODULE BoardView -----------------------------
(***************************************************************************)
(* From the snapshot file to the screen and back: the board application    *)
(* (src/app), with the two ends it talks to reduced to one card.           *)
(*                                                                         *)
(* The daemon publishes; the native host watches the file and pushes what  *)
(* it reads; the webview also reads on its own (expiry check, wake-grace   *)
(* re-read, slow pass).  All of it goes through the ingest gate and the    *)
(* deferral latch to ingestNow.  The user presses the card and flicks it   *)
(* away: a local hide, and an acknowledgement that may be lost or refused. *)
(*                                                                         *)
(* A payload is the number of the publication it is a copy of; its age is  *)
(* the publication's.  A result of the card is a number, 0 for none.       *)
(***************************************************************************)
EXTENDS Naturals, Sequences, FiniteSets

CONSTANTS
    Off,           \* no such press, hide, stash or timer
    MaxPubs,       \* bound: publications in a behaviour
    MaxResult,     \* bound: results of the card
    MaxReads,      \* bound: reads in flight at once
    MaxGestures,   \* bound: presses and drags
    MaxFaults,     \* bound: failed reads, failed emits, sleeps, lost calls
    Burst,         \* file events of one publication
    Stale,         \* STALE_SNAPSHOT_AGE_MS
    Grace,         \* WAKE_GRACE_MS
    Hide           \* DISMISS_TTL_MS

ASSUME BoardViewAssumption ==
    /\ {MaxPubs, MaxResult, MaxReads, MaxGestures, MaxFaults, Burst, Stale, Grace, Hide} \subseteq Nat \ {0}
    /\ Off \notin Nat

VARIABLES
    row,           \* the registry: the card's unviewed result
    newest,        \* the last result there was
    pubs,          \* the publications: what each shows of the card, or that it is unhealthy
    ages,          \* the age of each
    events,        \* file events of the generation not emitted yet
    pushes,        \* what the watcher has read, on its way to the webview
    reads,         \* reads in flight: whether the claim holds, the answer, whose
    latest, stash, \* the deferral latch
    busy,          \* a drag or its settle owns the board
    last, good,    \* lastPayload, lastGood
    view,          \* currentView: its snapshot, degraded, whether the card is hidden
    expiry,        \* the payload the expiry check is armed for
    reread,        \* the grace re-read is armed
    grace,         \* what is left of the wake grace
    late,          \* the watchdog has not fired since the last sleep
    press, slide,  \* the captured watermark; the one of the card sliding out
    hide,          \* the dismissal
    acks,          \* the watermarks of the acknowledgements on their way to the registry
    saw,           \* ghost: the newest result the user has pressed
    gestures, faults

daemon  == <<row, newest, pubs, ages>>
host    == <<events, pushes>>
ingest  == <<latest, stash, last, good, view, expiry, reread>>
clock   == <<grace, late>>
gesture == <<press, slide, acks, saw, gestures>>
vars    == <<daemon, host, reads, ingest, busy, clock, gesture, hide, faults>>

Pub == 1..Len(pubs)
Gesture == gestures < MaxGestures /\ gestures' = gestures + 1
Fault == faults < MaxFaults /\ faults' = faults + 1
Asked(slow) == [current |-> TRUE, got |-> Off, slow |-> slow]

TypeOK ==
    /\ row \in 0..newest /\ newest \in 0..MaxResult
    /\ pubs \in Seq([row : 0..MaxResult, ok : BOOLEAN]) /\ Len(pubs) <= MaxPubs
    /\ ages \in [Pub -> 0..Stale + 1]
    /\ events \in 0..Burst /\ pushes \in Seq(Pub)
    /\ reads \subseteq [current : BOOLEAN, got : {Off} \cup 0..Len(pubs), slow : BOOLEAN]
    /\ {latest, stash} \subseteq {Off} \cup 0..Len(pubs)
    /\ {busy, reread, late} \subseteq BOOLEAN
    /\ {last, good} \subseteq 0..Len(pubs)
    /\ view \in [from : 0..Len(pubs), degraded : BOOLEAN, hidden : BOOLEAN]
    /\ expiry \in {Off} \cup Pub /\ grace \in 0..Grace
    /\ {press, slide} \subseteq {Off} \cup 1..MaxResult /\ acks \subseteq 1..MaxResult
    /\ saw \in 0..MaxResult
    /\ hide \in {Off} \cup [left : 0..Hide, mark : 1..MaxResult]
    /\ gestures \in 0..MaxGestures /\ faults \in 0..MaxFaults

Init ==
    /\ row = 0 /\ newest = 0 /\ pubs = <<>> /\ ages = <<>>
    /\ events = 0 /\ pushes = <<>>
    /\ reads = {} /\ latest = Off /\ stash = Off /\ busy = FALSE
    /\ last = 0 /\ good = 0 /\ view = [from |-> 0, degraded |-> TRUE, hidden |-> FALSE]
    /\ expiry = Off /\ reread = FALSE /\ grace = 0 /\ late = FALSE
    /\ press = Off /\ slide = Off /\ hide = Off /\ acks = {} /\ saw = 0
    /\ gestures = 0 /\ faults = 0

-----------------------------------------------------------------------------
(***************************************************************************)
(* Daemon, registry and time.                                              *)
(***************************************************************************)
NewResult ==
    /\ newest < MaxResult
    /\ newest' = newest + 1 /\ row' = newest + 1
    /\ UNCHANGED <<pubs, ages, host, reads, ingest, busy, clock, gesture, hide, faults>>

\* A publication, or a heartbeat that repeats one; it may be unhealthy.
Publish(ok) ==
    /\ Len(pubs) < MaxPubs
    /\ pubs' = Append(pubs, [row |-> row, ok |-> ok])
    /\ ages' = Append(ages, 0)
    /\ events' = Burst
    /\ IF ok THEN UNCHANGED faults ELSE Fault
    /\ UNCHANGED <<row, newest, pushes, reads, ingest, busy, clock, gesture, hide>>

\* sessions ack, one of those in flight: refused when the row holds a newer
\* result than its watermark.
AckArrives ==
    /\ \E mark \in acks : /\ row' = IF row <= mark THEN 0 ELSE row
                          /\ acks' = acks \ {mark}
    /\ UNCHANGED <<newest, pubs, ages, host, reads, ingest, busy, clock, press, slide, saw, gestures,
                   hide, faults>>
AckLost ==
    /\ \E mark \in acks : acks' = acks \ {mark}
    /\ UNCHANGED <<daemon, host, reads, ingest, busy, clock, press, slide, saw, gestures, hide, faults>>

Older(age, by) == IF age + by > Stale + 1 THEN Stale + 1 ELSE age + by
Left(time, by) == IF time > by THEN time - by ELSE 0
\* The check is armed for the threshold, where it re-arms itself with no
\* delay until the payload is past it.
ExpiryDue == expiry # Off /\ ages[expiry] > Stale
Elapse(by) ==
    /\ ages' = [i \in Pub |-> Older(ages[i], by)]
    /\ grace' = Left(grace, by)
    /\ hide' = IF hide = Off THEN Off ELSE [hide EXCEPT !.left = Left(@, by)]
    /\ UNCHANGED <<row, newest, pubs, host, reads, ingest, busy, gesture>>
\* Awake, the watchdog and a due expiry check are served before time goes on.
Tick  == ~late /\ ~ExpiryDue /\ Elapse(1) /\ UNCHANGED <<late, faults>>
\* The machine sleeps past RESUME_GAP_MS; the watchdog wakes with the rest.
Sleep == Elapse(Stale + 1) /\ late' = TRUE /\ Fault
NoteTick ==
    /\ late
    /\ late' = FALSE /\ grace' = Grace
    /\ UNCHANGED <<daemon, host, reads, ingest, busy, gesture, hide, faults>>

-----------------------------------------------------------------------------
(***************************************************************************)
(* The native host: watch_snapshot_directory.                              *)
(***************************************************************************)
\* One event of a burst: the file is read afresh.  Once a generation is
\* emitted the rest of its burst is suppressed; a failed read or emit leaves
\* it to the next event.
WatchEvent ==
    /\ events > 0
    /\ \/ events' = 0 /\ pushes' = Append(pushes, Len(pubs)) /\ UNCHANGED faults
       \/ events' = events - 1 /\ UNCHANGED pushes /\ Fault
    /\ UNCHANGED <<daemon, reads, ingest, busy, clock, gesture, hide>>

-----------------------------------------------------------------------------
(***************************************************************************)
(* Ingest.                                                                 *)
(***************************************************************************)
Degraded(payload) == payload = 0 \/ ages[payload] > Stale \/ ~pubs[payload].ok
\* Evidence a sleep explains: a missing read or an old file.
SleepStale(payload) == payload = 0 \/ ages[payload] > Stale
ShouldHold(payload) == (grace > 0 \/ late) /\ SleepStale(payload)

\* What the snapshot of publication from shows of the card.
Shows(from) == IF from = 0 THEN 0 ELSE pubs[from].row

\* Mutants: the hide never expires; a newer result stays hidden.
HiddenForever(dismissal, from) == dismissal # Off /\ Shows(from) <= dismissal.mark
HiddenBlindly(dismissal, from) == dismissal # Off /\ dismissal.left > 0

\* dismissals.activeKeys: whether the dismissal survives a snapshot.
StillHidden(dismissal, from) ==
    /\ dismissal # Off
    /\ dismissal.left > 0
    /\ Shows(from) <= dismissal.mark

\* Mutant: a hold that does not arm its own re-read.
HoldQuietly(dismissal) ==
    /\ expiry' = Off /\ reread' = FALSE
    /\ hide' = dismissal /\ UNCHANGED <<good, view>>

\* The board keeps what it shows and asks again in a second.
Hold(dismissal) ==
    /\ expiry' = Off /\ reread' = TRUE
    /\ hide' = dismissal /\ UNCHANGED <<good, view>>

Apply(payload, dismissal) ==
    LET bad  == Degraded(payload)
        from == IF bad THEN good ELSE payload
        stay == StillHidden(dismissal, from)
    IN  /\ good' = from
        /\ view' = [from |-> from, degraded |-> bad, hidden |-> stay]
        /\ hide' = IF stay THEN dismissal ELSE Off
        /\ expiry' = IF bad THEN Off ELSE payload
        /\ reread' = FALSE

IngestNow(payload, dismissal) ==
    /\ last' = payload
    /\ IF Degraded(payload) /\ good > 0 /\ ShouldHold(payload)
       THEN Hold(dismissal)
       ELSE Apply(payload, dismissal)

Defer(dismissal) == hide' = dismissal /\ UNCHANGED <<last, good, view, expiry, reread>>

\* createDeferredLatest.submit
Submit(payload, dismissal) ==
    /\ latest' = payload
    /\ IF busy THEN stash' = payload /\ Defer(dismissal)
               ELSE stash' = Off /\ IngestNow(payload, dismissal)

\* ingestGate.next: every claim out so far is void.  A read that lost its
\* claim before the host served it is dropped whatever it brings, so it is
\* forgotten here.
Voided == {[r EXCEPT !.current = FALSE] : r \in {q \in reads : q.got # Off}}

PushArrives ==
    /\ pushes # <<>>
    /\ pushes' = Tail(pushes)
    /\ reads' = Voided
    /\ Submit(Head(pushes), hide)
    /\ UNCHANGED <<daemon, events, busy, clock, gesture, faults>>

\* readAndIngest up to its await.
ClaimRead(slow) == /\ Cardinality(Voided) < MaxReads
                   /\ reads' = Voided \cup {Asked(slow)}

\* The host serves a read: the file as it is now, or a failure.
ServeRead ==
    /\ \E r \in reads :
          /\ r.got = Off
          /\ \/ reads' = (reads \ {r}) \cup {[r EXCEPT !.got = Len(pubs)]} /\ UNCHANGED faults
             \/ reads' = (reads \ {r}) \cup {[r EXCEPT !.got = 0]} /\ Fault
    /\ UNCHANGED <<daemon, host, ingest, busy, clock, gesture, hide>>

\* Mutant: whichever read comes back is applied.
SettleReadUnguarded(r) ==
    /\ r.got # Off
    /\ reads' = reads \ {r}
    /\ Submit(r.got, hide)

\* readAndIngest after its await: a read that lost its claim is dropped.
SettleRead(r) ==
    /\ r.got # Off
    /\ reads' = reads \ {r}
    /\ IF r.current THEN Submit(r.got, hide) ELSE UNCHANGED <<ingest, hide>>
ReadSettles ==
    /\ \E r \in reads : SettleRead(r)
    /\ UNCHANGED <<daemon, host, busy, clock, gesture, faults>>

\* The one-shot check at the payload's expiry.
ExpiryCheck ==
    /\ ExpiryDue
    /\ expiry' = Off
    /\ ClaimRead(FALSE)
    /\ UNCHANGED <<daemon, host, latest, stash, last, good, view, reread, busy, clock, gesture,
                   hide, faults>>
GraceReread ==
    /\ reread
    /\ reread' = FALSE
    /\ ClaimRead(FALSE)
    /\ UNCHANGED <<daemon, host, latest, stash, last, good, view, expiry, busy, clock, gesture,
                   hide, faults>>
\* Every SLOW_PASS_MS: nothing while the board is healthy.  The read of one
\* pass is answered before the next.
SlowPass ==
    /\ last = 0 \/ view.degraded
    /\ \A r \in reads : ~r.slow
    /\ ClaimRead(TRUE)
    /\ UNCHANGED <<daemon, host, ingest, busy, clock, gesture, hide, faults>>

-----------------------------------------------------------------------------
(***************************************************************************)
(* The user.                                                               *)
(***************************************************************************)
OnGrid == Shows(view.from) > 0 /\ ~view.hidden

\* capturePendingPress: the watermark is read when the finger goes down.
PointerDown ==
    /\ press = Off /\ OnGrid /\ Gesture
    /\ press' = Shows(view.from)
    /\ saw' = IF press' > saw THEN press' ELSE saw
    /\ UNCHANGED <<daemon, host, reads, ingest, busy, clock, slide, acks, hide, faults>>
PressEnds ==
    /\ press # Off
    /\ press' = Off
    /\ UNCHANGED <<daemon, host, reads, ingest, busy, clock, slide, acks, saw, gestures, hide, faults>>

\* Mutant: the stamp of the card as it is at the release.
WatermarkAtRelease == Shows(view.from)
Watermark == press

\* flickAway: a card that left the grid cancels; only one press at a time.
FlickAway ==
    /\ press # Off /\ OnGrid /\ slide = Off
    /\ press' = Off
    /\ acks' = acks \cup {Watermark} /\ slide' = Watermark
    /\ UNCHANGED <<daemon, host, reads, ingest, busy, clock, saw, gestures, hide, faults>>

\* The slide is over: the card is hidden and the newest payload reduced again.
SlideEnds ==
    /\ slide # Off
    /\ slide' = Off
    /\ Submit(latest, [left |-> Hide, mark |-> slide])
    /\ UNCHANGED <<daemon, host, reads, busy, clock, press, acks, saw, gestures, faults>>

Drag ==
    /\ ~busy /\ Gesture
    /\ busy' = TRUE
    /\ UNCHANGED <<daemon, host, reads, ingest, clock, press, slide, acks, saw, hide, faults>>

\* Mutant: the drag ends, the stash waits for the next payload.
FlushLater == UNCHANGED <<ingest, hide>>
Flush ==
    IF stash = Off THEN UNCHANGED <<ingest, hide>>
    ELSE stash' = Off /\ IngestNow(stash, hide) /\ UNCHANGED latest

\* The settle animation or its fallback timer: finishSettle's done.
DragSettles ==
    /\ busy
    /\ busy' = FALSE
    /\ Flush
    /\ UNCHANGED <<daemon, host, reads, clock, gesture, faults>>

-----------------------------------------------------------------------------
Timers == ExpiryCheck \/ GraceReread
Next ==
    \/ NewResult
    \/ \E ok \in BOOLEAN : Publish(ok)
    \/ AckArrives \/ AckLost
    \/ Tick \/ Sleep \/ NoteTick
    \/ WatchEvent \/ PushArrives
    \/ ServeRead \/ ReadSettles
    \/ Timers \/ SlowPass
    \/ PointerDown \/ PressEnds \/ FlickAway \/ SlideEnds
    \/ Drag \/ DragSettles

\* Time passes, timers fire, calls return, animations end.  Nothing makes
\* the daemon publish, the watcher deliver or the user act.
Fairness ==
    /\ WF_vars(Tick) /\ WF_vars(NoteTick)
    /\ WF_vars(ServeRead) /\ WF_vars(ReadSettles) /\ WF_vars(PushArrives)
    /\ WF_vars(ExpiryCheck) /\ WF_vars(GraceReread) /\ WF_vars(SlowPass)
    /\ WF_vars(SlideEnds) /\ WF_vars(DragSettles)
Spec == Init /\ [][Next]_vars /\ Fairness

-----------------------------------------------------------------------------
(***************************************************************************)
(* Properties.                                                             *)
(***************************************************************************)

\* When no gesture owns the board, what it last ingested is the newest
\* payload any source has submitted: nothing stays in the latch.
NewestIsIngested == ~busy /\ latest # Off => last = latest /\ stash = Off

\* A read never takes the board back: only a push, which the host may have
\* read before and handed over late, replaces a payload by an older one.
ReadsNeverRegress ==
    [][latest' # latest /\ latest' # Off /\ latest # Off /\ 0 < latest' /\ latest' < latest
         => pushes' # pushes]_vars

\* A card is hidden only while the board's snapshot shows of it what the
\* user had pressed: a newer result in it ends the hide at once.
NothingUnseenHidden == view.hidden => Shows(view.from) <= saw

\* A dismissal consumes no result the user had not on the screen when the
\* finger went down, however the card changed until the flick.
NothingUnseenConsumed == [][row' = 0 /\ row > 0 => row <= saw]_vars

\* Once the daemon is silent the board says so, for good, after any sleep,
\* failed read and gesture.
BoardGoesOffline == <>[]view.degraded

\* A hidden card comes back unless it is gone: no dismissal that was lost or
\* refused hides a card for good.
HiddenCardsReturn == [](view.hidden => <>(~view.hidden))
=============================================================================
