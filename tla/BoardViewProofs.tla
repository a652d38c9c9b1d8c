-------------------------- MODULE BoardViewProofs --------------------------
(***************************************************************************)
(* What the board shows and consumes, for any number of publications,      *)
(* results, reads and gestures.                                            *)
(***************************************************************************)
EXTENDS BoardView, SequenceTheorems, TLAPS

\* The latch is empty and what was submitted last is ingested, or a gesture
\* owns the board and the latch holds it.
LatchInv == IF stash = Off THEN latest # Off => last = latest ELSE busy /\ stash = latest

\* At most one read holds its claim; its answer is as new as anything
\* submitted, since nothing was submitted after the claim.
ClaimInv ==
    \A r \in reads : r.current =>
        /\ \A q \in reads : q.current => q = r
        /\ r.got \notin {Off, 0} /\ latest # Off => latest <= r.got

\* Before the first payload the board shows nothing; a file event follows a
\* publication.
ShownInv ==
    /\ latest = Off => stash = Off /\ view.from = 0 /\ good = 0 /\ slide = Off
    /\ events > 0 => pubs # <<>>

\* Every watermark out is one the user has pressed.
SeenInv ==
    /\ \A mark \in acks \cup ({press, slide} \ {Off}) : mark <= saw
    /\ hide # Off => hide.mark <= saw
    /\ NothingUnseenHidden

Hidden == {Off} \cup [left : 0..Hide, mark : 1..MaxResult]
Payload == 0..Len(pubs)
Read == [current : BOOLEAN, got : {Off} \cup Payload, slow : BOOLEAN]

-----------------------------------------------------------------------------
\* Types.
LEMMA Bounds ==
    /\ MaxPubs \in Nat /\ MaxResult \in Nat /\ MaxGestures \in Nat /\ MaxFaults \in Nat
    /\ Burst \in Nat \ {0} /\ Stale \in Nat /\ Grace \in Nat /\ Hide \in Nat
    /\ Off \notin Nat
  BY BoardViewAssumption

LEMMA Publications ==
    ASSUME TypeOK
    PROVE  /\ Len(pubs) \in Nat
           /\ \A from \in Payload : Shows(from) \in 0..MaxResult
<1>. DEFINE R == [row : 0..MaxResult, ok : BOOLEAN]
<1>1. pubs \in Seq(R) /\ MaxResult \in Nat
  BY BoardViewAssumption DEF TypeOK
<1>. HIDE DEF R
<1>2. Len(pubs) \in Nat
  BY <1>1, LenProperties
<1>3. ASSUME NEW from \in Payload PROVE Shows(from) \in 0..MaxResult
  <2>1. CASE from = 0
    BY <2>1, <1>1 DEF Shows
  <2>2. CASE from # 0
    <3>1. from \in 1..Len(pubs)
      BY <1>2, <2>2 DEF Payload
    <3>2. pubs[from] \in R
      BY <1>1, <3>1, ElementOfSeq
    <3>. QED BY <3>2, <2>2 DEF Shows, R
  <2>. QED BY <2>1, <2>2
<1>. QED BY <1>2, <1>3

IngestTyped == /\ {last', good'} \subseteq Payload
               /\ view' \in [from : Payload, degraded : BOOLEAN, hidden : BOOLEAN]
               /\ expiry' \in {Off} \cup Pub /\ reread' \in BOOLEAN /\ hide' \in Hidden

LEMMA IngestTypes ==
    ASSUME TypeOK, NEW payload \in Payload, NEW dismissal \in Hidden,
           IngestNow(payload, dismissal)
    PROVE  IngestTyped
<1>1. CASE Hold(dismissal)
  BY <1>1 DEF IngestNow, Hold, IngestTyped, TypeOK, Payload, Hidden, Pub
<1>2. CASE Apply(payload, dismissal)
  <2>1. ~Degraded(payload) => payload \in Pub
    BY Publications DEF Degraded, Payload, Pub
  <2>2. StillHidden(dismissal, good) \in BOOLEAN /\ StillHidden(dismissal, payload) \in BOOLEAN
        /\ Degraded(payload) \in BOOLEAN
    BY Publications DEF StillHidden, Degraded, TypeOK, Pub, Payload
  <2>. QED BY <1>2, <2>1, <2>2 DEF IngestNow, Apply, IngestTyped, TypeOK, Payload, Hidden, Pub
<1>. QED BY <1>1, <1>2 DEF IngestNow

LEMMA SubmitTypes ==
    ASSUME TypeOK, NEW payload \in Payload, NEW dismissal \in Hidden,
           Submit(payload, dismissal)
    PROVE  IngestTyped /\ {latest', stash'} \subseteq {Off} \cup Payload
<1>1. CASE busy
  BY <1>1 DEF Submit, Defer, IngestTyped, TypeOK, Payload, Hidden
<1>2. CASE ~busy
  BY <1>2, IngestTypes DEF Submit
<1>. QED BY <1>1, <1>2

LEMMA Budgets ==
    ASSUME TypeOK
    PROVE  /\ Fault => faults' \in 0..MaxFaults
           /\ Gesture => gestures' \in 0..MaxGestures
<1>1. /\ MaxFaults \in Nat /\ faults \in 0..MaxFaults
      /\ MaxGestures \in Nat /\ gestures \in 0..MaxGestures
  BY Bounds DEF TypeOK
<1>. QED BY <1>1 DEF Fault, Gesture

\* A step that only claims or answers a read.
LEMMA ClaimTypes ==
    ASSUME TypeOK, reads' \subseteq Read, expiry' \in {Off} \cup Pub, reread' \in BOOLEAN,
           faults' \in 0..MaxFaults,
           UNCHANGED <<daemon, host, latest, stash, last, good, view, busy, clock, gesture, hide>>
    PROVE  TypeOK'
  BY DEF TypeOK, Read, Payload, Pub, daemon, host, clock, gesture

LEMMA Arrived ==
    ASSUME TypeOK, pushes # <<>>
    PROVE  Head(pushes) \in Pub /\ Tail(pushes) \in Seq(Pub) /\ Head(pushes) # Off
<1>1. pushes \in Seq(Pub)
  BY DEF TypeOK
<1>2. Head(pushes) \in Pub /\ Tail(pushes) \in Seq(Pub)
  BY <1>1, HeadTailProperties
<1>. QED BY <1>2, Publications, Bounds DEF Pub

LEMMA ReadSteps ==
    ASSUME TypeOK, \/ PushArrives \/ ServeRead \/ ReadSettles
                   \/ ExpiryCheck \/ GraceReread \/ SlowPass
    PROVE  TypeOK'
<1>0. reads \subseteq Read /\ Voided \subseteq Read /\ \A slow \in BOOLEAN : Asked(slow) \in Read
  <2>1. reads \subseteq Read
    BY DEF TypeOK, Read, Payload
  <2>2. ASSUME NEW r \in Read PROVE [r EXCEPT !.current = FALSE] \in Read
    BY DEF Read
  <2>3. Voided \subseteq Read
    BY <2>1, <2>2 DEF Voided
  <2>. QED BY <2>1, <2>3 DEF Read, Asked
<1>1. CASE PushArrives
  <2>1. Head(pushes) \in Payload /\ Tail(pushes) \in Seq(Pub)
    BY <1>1, Arrived, Publications DEF PushArrives, Pub, Payload
  <2>2. hide \in Hidden
    BY DEF TypeOK, Hidden
  <2>3. IngestTyped /\ {latest', stash'} \subseteq {Off} \cup Payload
    BY <1>1, <2>1, <2>2, SubmitTypes DEF PushArrives
  <2>. QED BY <1>0, <1>1, <2>1, <2>3
           DEF PushArrives, TypeOK, IngestTyped, Payload, Read, Hidden, Pub, daemon, clock, gesture
<1>2. CASE ServeRead
  <2>1. PICK r \in reads, got \in Payload :
           /\ reads' = (reads \ {r}) \cup {[r EXCEPT !.got = got]}
           /\ UNCHANGED faults \/ Fault
    BY <1>2, Publications DEF ServeRead, Payload
  <2>2. [r EXCEPT !.got = got] \in Read
    BY <1>0 DEF Read
  <2>3. reads' \subseteq Read
    BY <1>0, <2>1, <2>2
  <2>4. faults' \in 0..MaxFaults
    BY <2>1, Budgets DEF TypeOK
  <2>5. UNCHANGED <<daemon, host, ingest, busy, clock, gesture, hide>>
    BY <1>2 DEF ServeRead
  <2>6. expiry' \in {Off} \cup Pub /\ reread' \in BOOLEAN
    BY <2>5 DEF TypeOK, ingest
  <2>. QED BY <2>3, <2>4, <2>5, <2>6, ClaimTypes DEF ingest
<1>3. CASE ReadSettles
  <2>1. PICK r \in reads : SettleRead(r)
    BY <1>3 DEF ReadSettles
  <2>2. r.got \in Payload /\ reads' \subseteq Read
    BY <1>0, <2>1 DEF SettleRead, Read
  <2>3. hide \in Hidden
    BY DEF TypeOK, Hidden
  <2>4. CASE r.current
    <3>1. IngestTyped /\ {latest', stash'} \subseteq {Off} \cup Payload
      BY <2>1, <2>2, <2>3, <2>4, SubmitTypes DEF SettleRead
    <3>. QED BY <1>3, <2>2, <3>1
             DEF ReadSettles, TypeOK, IngestTyped, Payload, Read, Hidden, Pub, daemon, host, clock, gesture
  <2>5. CASE ~r.current
    BY <1>3, <2>1, <2>2, <2>5
       DEF SettleRead, ReadSettles, TypeOK, Payload, Read, Pub, daemon, host, ingest, clock, gesture
  <2>. QED BY <2>4, <2>5
<1>4. CASE ExpiryCheck \/ GraceReread \/ SlowPass
  <2>1. PICK slow \in BOOLEAN : ClaimRead(slow)
    BY <1>4 DEF ExpiryCheck, GraceReread, SlowPass
  <2>2. reads' \subseteq Read
    BY <1>0, <2>1 DEF ClaimRead
  <2>3. expiry' \in {Off} \cup Pub /\ reread' \in BOOLEAN /\ faults' \in 0..MaxFaults
    BY <1>4 DEF ExpiryCheck, GraceReread, SlowPass, TypeOK, ingest
  <2>4. UNCHANGED <<daemon, host, latest, stash, last, good, view, busy, clock, gesture, hide>>
    BY <1>4 DEF ExpiryCheck, GraceReread, SlowPass, ingest
  <2>. QED BY <2>2, <2>3, <2>4, ClaimTypes
<1>. QED BY <1>1, <1>2, <1>3, <1>4

LEMMA GestureSteps ==
    ASSUME TypeOK, ShownInv, \/ PointerDown \/ PressEnds \/ FlickAway \/ SlideEnds
                   \/ Drag \/ DragSettles
    PROVE  TypeOK'
<1>1. CASE PointerDown
  <2>1. press' \in 1..MaxResult /\ saw' \in 0..MaxResult
    BY <1>1, Publications DEF PointerDown, OnGrid, TypeOK, Payload
  <2>. QED BY <1>1, <2>1, Budgets
           DEF PointerDown, TypeOK, Pub, daemon, host, ingest, clock
<1>2. CASE PressEnds
  BY <1>2 DEF PressEnds, TypeOK, Pub, daemon, host, ingest, clock
<1>3. CASE FlickAway
  BY <1>3 DEF FlickAway, Watermark, TypeOK, Pub, daemon, host, ingest, clock
<1>4. CASE SlideEnds
  <2>1. latest \in Payload
    BY <1>4 DEF SlideEnds, ShownInv, TypeOK, Payload
  <2>2. slide \in 1..MaxResult /\ Hide \in Nat
    BY <1>4, Bounds DEF SlideEnds, TypeOK
  <2>3. [left |-> Hide, mark |-> slide] \in Hidden
    BY <2>2 DEF Hidden
  <2>4. IngestTyped /\ {latest', stash'} \subseteq {Off} \cup Payload
    BY <1>4, <2>1, <2>3, SubmitTypes DEF SlideEnds
  <2>. QED BY <1>4, <2>4
           DEF SlideEnds, IngestTyped, TypeOK, Payload, Hidden, Pub, daemon, host, clock
<1>5. CASE Drag
  BY <1>5, Budgets DEF Drag, TypeOK, Pub, daemon, host, ingest, clock
<1>6. CASE DragSettles
  <2>1. CASE stash = Off
    BY <1>6, <2>1 DEF DragSettles, Flush, TypeOK, Pub, daemon, host, ingest, clock, gesture
  <2>2. CASE stash # Off
    <3>1. stash \in Payload /\ hide \in Hidden
      BY <2>2 DEF TypeOK, Payload, Hidden
    <3>2. IngestTyped
      BY <1>6, <2>2, <3>1, IngestTypes DEF DragSettles, Flush
    <3>. QED BY <1>6, <2>2, <3>2
             DEF DragSettles, Flush, IngestTyped, TypeOK, Payload, Hidden, Pub, daemon, host, clock, gesture
  <2>. QED BY <2>1, <2>2
<1>. QED BY <1>1, <1>2, <1>3, <1>4, <1>5, <1>6

\* A publication is added to the others.
LEMMA Appended ==
    ASSUME TypeOK, NEW ok \in BOOLEAN, Publish(ok)
    PROVE  /\ pubs' \in Seq([row : 0..MaxResult, ok : BOOLEAN])
           /\ Len(pubs') = Len(pubs) + 1
           /\ \A i \in Pub : pubs'[i] = pubs[i]
<1>. DEFINE R == [row : 0..MaxResult, ok : BOOLEAN]
            pub == [row |-> row, ok |-> ok]
<1>1. pubs \in Seq(R) /\ pub \in R
  <2>1. row \in 0..MaxResult
    BY Bounds DEF TypeOK
  <2>. QED BY <2>1, Publications DEF TypeOK
<1>2. pubs' = Append(pubs, pub)
  BY DEF Publish
<1>. HIDE DEF R, pub
<1>3. pubs' \in Seq(R) /\ Len(pubs') = Len(pubs) + 1 /\ \A i \in 1..Len(pubs) : pubs'[i] = pubs[i]
  BY <1>1, <1>2, AppendProperties
<1>. QED BY <1>3 DEF R, Pub

LEMMA OutsideSteps ==
    ASSUME TypeOK, ShownInv, \/ NewResult \/ (\E ok \in BOOLEAN : Publish(ok))
                   \/ AckArrives \/ AckLost \/ Tick \/ Sleep \/ NoteTick \/ WatchEvent
    PROVE  TypeOK'
<1>1. CASE NewResult
  BY <1>1, Bounds DEF NewResult, TypeOK, Pub, host, ingest, clock, gesture
<1>2. ASSUME NEW ok \in BOOLEAN, Publish(ok) PROVE TypeOK'
  <2>1. Len(pubs) \in Nat /\ ages' = Append(ages, 0)
    BY <1>2, Publications DEF Publish
  <2>3. /\ pubs' \in Seq([row : 0..MaxResult, ok : BOOLEAN])
        /\ Len(pubs') = Len(pubs) + 1
    BY <1>2, Appended
  <2>4. Payload \subseteq Payload' /\ Pub \subseteq Pub'
    BY <2>1, <2>3 DEF Payload, Pub
  <2>5. ages' \in [Pub' -> 0..Stale + 1]
    <3>1. ages \in Seq(0..Stale + 1) /\ Len(ages) = Len(pubs) /\ 0 \in 0..Stale + 1
      <4>1. ages \in [1..Len(pubs) -> 0..Stale + 1]
        BY DEF TypeOK, Pub
      <4>. QED BY <2>1, <4>1, Bounds, IsASeq
    <3>2. ages' \in Seq(0..Stale + 1) /\ Len(ages') = Len(pubs')
      BY <2>1, <2>3, <3>1, AppendProperties
    <3>. QED BY <3>2, LenProperties DEF Pub
  <2>6. Seq(Pub) \subseteq Seq(Pub')
    BY <2>4, SeqMonotonic
  <2>7. Len(pubs') <= MaxPubs /\ Burst \in 0..Burst /\ faults' \in 0..MaxFaults
    <3>1. Len(pubs) < MaxPubs /\ (UNCHANGED faults \/ Fault)
      BY <1>2 DEF Publish
    <3>2. faults \in 0..MaxFaults
      BY DEF TypeOK
    <3>. QED BY <2>1, <2>3, <3>1, <3>2, Bounds, Budgets
  <2>8. UNCHANGED <<row, newest, pushes, reads, ingest, busy, clock, gesture, hide>> /\ events' = Burst
    BY <1>2 DEF Publish
  <2>. QED BY <2>3, <2>4, <2>5, <2>6, <2>7, <2>8 DEF TypeOK, Payload, ingest, clock, gesture
<1>3. CASE AckArrives
  BY <1>3 DEF AckArrives, TypeOK, Pub, host, ingest, clock
<1>4. CASE AckLost
  BY <1>4 DEF AckLost, TypeOK, Pub, daemon, host, ingest, clock
<1>5. CASE Tick \/ Sleep
  <2>1. PICK by \in Nat : Elapse(by)
    BY <1>5, Bounds DEF Tick, Sleep
  <2>2. ages' \in [Pub -> 0..Stale + 1]
    <3>1. ASSUME NEW age \in 0..Stale + 1 PROVE Older(age, by) \in 0..Stale + 1
      BY Bounds DEF Older
    <3>. QED BY <2>1, <3>1 DEF Elapse, TypeOK
  <2>3. grace' \in 0..Grace
    <3>1. grace \in 0..Grace /\ grace' = Left(grace, by)
      BY <2>1 DEF Elapse, TypeOK
    <3>. QED BY <3>1, Bounds DEF Left
  <2>4. hide' \in Hidden
    <3>1. CASE hide = Off
      BY <2>1, <3>1 DEF Elapse, Hidden
    <3>2. CASE hide # Off
      <4>1. hide \in [left : 0..Hide, mark : 1..MaxResult] /\ Left(hide.left, by) \in 0..Hide
        <5>1. hide \in [left : 0..Hide, mark : 1..MaxResult]
          BY <3>2 DEF TypeOK
        <5>2. hide.left \in 0..Hide
          BY <5>1
        <5>. QED BY <5>1, <5>2, Bounds DEF Left
      <4>2. hide' = [hide EXCEPT !.left = Left(hide.left, by)]
        BY <2>1, <3>2 DEF Elapse
      <4>. QED BY <4>1, <4>2 DEF Hidden
    <3>. QED BY <3>1, <3>2
  <2>5. late' \in BOOLEAN /\ faults' \in 0..MaxFaults
    BY <1>5, Budgets DEF Tick, Sleep, TypeOK
  <2>6. UNCHANGED <<row, newest, pubs, host, reads, ingest, busy, gesture>>
    BY <2>1 DEF Elapse
  <2>. QED BY <2>2, <2>3, <2>4, <2>5, <2>6 DEF TypeOK, Pub, Hidden, host, ingest, gesture
<1>6. CASE NoteTick
  <2>1. late' \in BOOLEAN /\ grace' \in 0..Grace
    <3>1. late' = FALSE /\ grace' = Grace
      BY <1>6 DEF NoteTick
    <3>2. Grace \in 0..Grace
      BY Bounds
    <3>. QED BY <3>1, <3>2, Zenon
  <2>2. UNCHANGED <<daemon, host, reads, ingest, busy, gesture, hide, faults>>
    BY <1>6 DEF NoteTick
  <2>. QED BY <2>1, <2>2 DEF TypeOK, Pub, daemon, host, ingest, gesture
<1>7. CASE WatchEvent
  <2>1. events \in Nat \ {0} /\ events \in 0..Burst
    BY <1>7, Bounds DEF WatchEvent, TypeOK
  <2>2. events' \in 0..Burst
    BY <1>7, <2>1, Bounds DEF WatchEvent
  <2>3. pushes' \in Seq(Pub)
    <3>1. pushes \in Seq(Pub)
      BY DEF TypeOK
    <3>2. Len(pubs) \in Pub
      BY <2>1, Publications, EmptySeq, LenProperties DEF ShownInv, TypeOK, Pub
    <3>3. Append(pushes, Len(pubs)) \in Seq(Pub)
      BY <3>1, <3>2, AppendProperties
    <3>. QED BY <1>7, <3>1, <3>3 DEF WatchEvent
  <2>4. faults' \in 0..MaxFaults
    BY <1>7, Budgets DEF WatchEvent, TypeOK
  <2>. QED BY <1>7, <2>2, <2>3, <2>4
           DEF WatchEvent, TypeOK, Pub, daemon, ingest, clock, gesture
<1>. QED BY <1>1, <1>2, <1>3, <1>4, <1>5, <1>6, <1>7

-----------------------------------------------------------------------------
\* The invariants, action by action.
IInv == TypeOK /\ ShownInv /\ LatchInv /\ ClaimInv /\ SeenInv

LEMMA InitInv == Init => IInv
<1>. SUFFICES ASSUME Init PROVE IInv
  OBVIOUS
<1>1. TypeOK
  <2>1. pubs = <<>> /\ ages = <<>> /\ pushes = <<>> /\ Len(pubs) = 0 /\ Pub = {}
    BY EmptySeq DEF Init, Pub
  <2>2. /\ pubs \in Seq([row : 0..MaxResult, ok : BOOLEAN]) /\ pushes \in Seq(Pub)
        /\ ages \in [Pub -> 0..Stale + 1]
    BY <2>1, EmptySeq
  <2>3. view \in [from : 0..Len(pubs), degraded : BOOLEAN, hidden : BOOLEAN]
    BY <2>1 DEF Init
  <2>4. Len(pubs) <= MaxPubs /\ 0 \in 0..Burst /\ 0 \in 0..Grace /\ 0 \in 0..MaxResult
    BY <2>1, Bounds
  <2>5. row \in 0..newest /\ gestures \in 0..MaxGestures /\ faults \in 0..MaxFaults
    BY Bounds DEF Init
  <2>. QED BY <2>1, <2>2, <2>3, <2>4, <2>5 DEF Init, TypeOK
<1>2. ShownInv /\ LatchInv /\ ClaimInv /\ SeenInv
  BY Bounds DEF Init, ShownInv, LatchInv, ClaimInv, SeenInv, NothingUnseenHidden
<1>. QED BY <1>1, <1>2 DEF IInv

LEMMA TypeStep == IInv /\ [Next]_vars => TypeOK'
<1>. SUFFICES ASSUME IInv, [Next]_vars PROVE TypeOK'
  OBVIOUS
<1>1. CASE UNCHANGED vars
  BY <1>1 DEF IInv, TypeOK, vars, Pub, daemon, host, ingest, clock, gesture
<1>. QED BY <1>1, ReadSteps, GestureSteps, OutsideSteps DEF IInv, Next, Timers

\* The latch: only Submit and the flush move it, and only a gesture's start
\* and end decide whether it may hold anything.
LEMMA SubmitLatches ==
    ASSUME LatchInv, NEW payload, payload # Off, NEW dismissal, Submit(payload, dismissal), UNCHANGED busy
    PROVE  LatchInv' /\ latest' = payload
  BY DEF LatchInv, Submit, IngestNow

Quiet == \/ NewResult \/ \E ok \in BOOLEAN : Publish(ok)
         \/ AckArrives \/ AckLost \/ Tick \/ Sleep \/ NoteTick
         \/ WatchEvent \/ ServeRead \/ SlowPass
         \/ PointerDown \/ PressEnds \/ FlickAway \/ UNCHANGED vars

LEMMA Steps ==
    [Next]_vars => \/ PushArrives \/ ReadSettles \/ SlideEnds \/ Drag \/ DragSettles
                   \/ ExpiryCheck \/ GraceReread \/ Quiet
  BY Zenon DEF Next, Timers, Quiet

\* What is neither a payload nor a timer nor the end of a gesture leaves the
\* board as it is.
LEMMA QuietSteps == Quiet => UNCHANGED <<ingest, busy>>
<1>1. NewResult \/ (\E ok \in BOOLEAN : Publish(ok)) \/ AckArrives \/ AckLost
         => UNCHANGED <<ingest, busy>>
  BY DEF NewResult, Publish, AckArrives, AckLost
<1>2. Tick \/ Sleep \/ NoteTick \/ WatchEvent => UNCHANGED <<ingest, busy>>
  BY DEF Tick, Sleep, Elapse, NoteTick, WatchEvent
<1>3. ServeRead \/ SlowPass => UNCHANGED <<ingest, busy>>
  BY DEF ServeRead, SlowPass
<1>4. PointerDown \/ PressEnds \/ FlickAway \/ UNCHANGED vars => UNCHANGED <<ingest, busy>>
  BY DEF PointerDown, PressEnds, FlickAway, vars
<1>. QED BY <1>1, <1>2, <1>3, <1>4 DEF Quiet

LEMMA LatchStep == IInv /\ [Next]_vars => LatchInv'
<1>. SUFFICES ASSUME IInv, [Next]_vars PROVE LatchInv'
  OBVIOUS
<1>0. LatchInv /\ TypeOK /\ ShownInv
  BY DEF IInv
<1>1. CASE PushArrives
  <2>1. Head(pushes) # Off
    BY <1>0, <1>1, Arrived DEF PushArrives
  <2>. QED BY <1>0, <1>1, <2>1, SubmitLatches DEF PushArrives
<1>2. CASE ReadSettles
  BY <1>0, <1>2, SubmitLatches DEF ReadSettles, SettleRead, LatchInv, ingest
<1>3. CASE SlideEnds
  BY <1>0, <1>3, SubmitLatches DEF SlideEnds, ShownInv
<1>4. CASE Drag
  BY <1>0, <1>4 DEF Drag, LatchInv, ingest
<1>5. CASE DragSettles
  <2>1. CASE stash = Off
    BY <1>0, <1>5, <2>1 DEF DragSettles, Flush, LatchInv, ingest
  <2>2. CASE stash # Off
    <3>1. stash' = Off /\ last' = stash /\ latest' = latest /\ latest = stash
      BY <1>0, <1>5, <2>2 DEF DragSettles, Flush, IngestNow, LatchInv
    <3>. QED BY <3>1 DEF LatchInv
  <2>. QED BY <2>1, <2>2
<1>6. CASE ExpiryCheck \/ GraceReread
  <2>1. stash' = stash /\ latest' = latest /\ last' = last /\ busy' = busy
    BY <1>6 DEF ExpiryCheck, GraceReread
  <2>. QED BY <1>0, <2>1 DEF LatchInv
<1>7. CASE UNCHANGED <<ingest, busy>>
  <2>1. stash' = stash /\ latest' = latest /\ last' = last /\ busy' = busy
    BY <1>7 DEF ingest
  <2>. QED BY <1>0, <2>1 DEF LatchInv
<1>. QED
  BY <1>1, <1>2, <1>3, <1>4, <1>5, <1>6, <1>7, QuietSteps, Steps

LEMMA OtherPublications ==
    [Next]_vars => \/ \E ok \in BOOLEAN : Publish(ok)
                   \/ WatchEvent \/ UNCHANGED <<pubs, events>>
<1>1. PushArrives \/ ReadSettles \/ SlideEnds \/ Drag \/ DragSettles \/ ExpiryCheck
         \/ GraceReread => UNCHANGED <<pubs, events>>
  BY DEF PushArrives, ReadSettles, SlideEnds, Drag, DragSettles, ExpiryCheck, GraceReread, daemon, host
<1>2. NewResult \/ AckArrives \/ AckLost \/ Tick \/ Sleep \/ NoteTick => UNCHANGED <<pubs, events>>
  BY DEF NewResult, AckArrives, AckLost, Tick, Sleep, Elapse, NoteTick, daemon, host
<1>3. ServeRead \/ SlowPass \/ PointerDown \/ PressEnds \/ FlickAway \/ UNCHANGED vars
         => UNCHANGED <<pubs, events>>
  BY DEF ServeRead, SlowPass, PointerDown, PressEnds, FlickAway, vars, daemon, host
<1>. QED BY <1>1, <1>2, <1>3, Steps DEF Quiet

LEMMA OtherViews ==
    [Next]_vars => \/ PushArrives \/ ReadSettles \/ SlideEnds \/ DragSettles \/ FlickAway
                   \/ UNCHANGED <<latest, stash, view, good, slide>>
<1>1. Drag \/ ExpiryCheck \/ GraceReread => UNCHANGED <<latest, stash, view, good, slide>>
  BY DEF Drag, ExpiryCheck, GraceReread, ingest, gesture
<1>2. NewResult \/ (\E ok \in BOOLEAN : Publish(ok)) \/ AckArrives \/ AckLost \/ Tick
         \/ Sleep \/ NoteTick => UNCHANGED <<latest, stash, view, good, slide>>
  BY DEF NewResult, Publish, AckArrives, AckLost, Tick, Sleep, Elapse, NoteTick, ingest, gesture
<1>3. WatchEvent \/ ServeRead \/ SlowPass \/ PointerDown \/ PressEnds \/ UNCHANGED vars
         => UNCHANGED <<latest, stash, view, good, slide>>
  BY DEF WatchEvent, ServeRead, SlowPass, PointerDown, PressEnds, vars, ingest, gesture
<1>. QED BY <1>1, <1>2, <1>3, Steps DEF Quiet

\* The claims: a new one voids the others, an answer is the newest file there
\* is, and whatever is submitted between takes the claim away.
LEMMA VoidedClaims ==
    ASSUME TypeOK PROVE \A r \in Voided : ~r.current
<1>1. ASSUME NEW r \in reads PROVE ~[r EXCEPT !.current = FALSE].current
  BY DEF TypeOK
<1>. QED BY <1>1 DEF Voided

LEMMA OtherClaims ==
    [Next]_vars => \/ PushArrives \/ ReadSettles \/ ServeRead
                   \/ \E slow \in BOOLEAN : ClaimRead(slow)
                   \/ UNCHANGED reads /\ (latest' = latest \/ SlideEnds)
<1>1. ExpiryCheck \/ GraceReread \/ SlowPass => \E slow \in BOOLEAN : ClaimRead(slow)
  BY DEF ExpiryCheck, GraceReread, SlowPass
<1>2. Drag \/ DragSettles \/ SlideEnds => UNCHANGED reads /\ (latest' = latest \/ SlideEnds)
  BY DEF Drag, DragSettles, Flush, SlideEnds, ingest
<1>3. Quiet => ServeRead \/ SlowPass \/ UNCHANGED <<reads, latest>>
  BY DEF Quiet, NewResult, Publish, AckArrives, AckLost, Tick, Sleep, Elapse, NoteTick,
         WatchEvent, PointerDown, PressEnds, FlickAway, vars, ingest
<1>. QED BY <1>1, <1>2, <1>3, Steps

LEMMA ClaimStep == IInv /\ [Next]_vars => ClaimInv'
<1>. SUFFICES ASSUME IInv, [Next]_vars PROVE ClaimInv'
  OBVIOUS
<1>0. ClaimInv /\ TypeOK /\ ShownInv
  BY DEF IInv
<1>1. CASE PushArrives
  BY <1>0, <1>1, VoidedClaims DEF PushArrives, ClaimInv
<1>2. CASE ReadSettles
  <2>1. PICK r \in reads : SettleRead(r)
    BY <1>2 DEF ReadSettles
  <2>2. CASE r.current
    <3>1. \A q \in reads' : ~q.current
      BY <1>0, <2>1, <2>2 DEF SettleRead, ClaimInv
    <3>. QED BY <3>1 DEF ClaimInv
  <2>3. CASE ~r.current
    <3>1. latest' = latest /\ reads' \subseteq reads
      BY <2>1, <2>3 DEF SettleRead, ingest
    <3>. QED BY <1>0, <3>1 DEF ClaimInv
  <2>. QED BY <2>2, <2>3
<1>3. CASE ServeRead
  <2>1. PICK r \in reads, got \in {0, Len(pubs)} :
           r.got = Off /\ reads' = (reads \ {r}) \cup {[r EXCEPT !.got = got]}
    BY <1>3 DEF ServeRead
  <2>2. r \in Read /\ latest \in {Off} \cup Payload /\ latest' = latest
    BY <1>0, <1>3 DEF TypeOK, Read, Payload, ServeRead, ingest
  <2>. DEFINE served == [r EXCEPT !.got = got]
  <2>3. served.current = r.current /\ served.got = got
    BY <2>2 DEF Read
  <2>. HIDE DEF served
  <2>4. reads' = (reads \ {r}) \cup {served}
    BY <2>1 DEF served
  <2>5. latest # Off => latest <= Len(pubs)
    BY <1>0, <2>2, Publications DEF Payload
  <2>. QED BY <1>0, <2>1, <2>2, <2>3, <2>4, <2>5 DEF ClaimInv
<1>4. ASSUME NEW slow \in BOOLEAN, ClaimRead(slow) PROVE ClaimInv'
  <2>1. reads' = Voided \cup {Asked(slow)} /\ Asked(slow).got = Off
    BY <1>4 DEF ClaimRead, Asked
  <2>. QED BY <1>0, <2>1, VoidedClaims DEF ClaimInv
<1>5. CASE UNCHANGED reads /\ (latest' = latest \/ SlideEnds)
  <2>1. latest' = latest
    BY <1>5 DEF SlideEnds, Submit
  <2>. QED BY <1>0, <1>5, <2>1 DEF ClaimInv
<1>. QED BY <1>1, <1>2, <1>3, <1>4, <1>5, OtherClaims

LEMMA ShownStep == IInv /\ [Next]_vars => ShownInv'
<1>. SUFFICES ASSUME IInv, [Next]_vars PROVE ShownInv'
  OBVIOUS
<1>0. ShownInv /\ LatchInv /\ TypeOK
  BY DEF IInv
<1>1. (events > 0 => pubs # <<>>)'
  <2>1. CASE \E ok \in BOOLEAN : Publish(ok)
    <3>1. Len(pubs') = Len(pubs) + 1 /\ Len(pubs) \in Nat /\ Len(<<>>) = 0
      BY <1>0, <2>1, Appended, Publications, EmptySeq
    <3>2. pubs' # <<>>
      BY <3>1
    <3>. QED BY <3>2
  <2>2. CASE WatchEvent
    BY <1>0, <2>2 DEF WatchEvent, ShownInv, daemon
  <2>3. CASE UNCHANGED <<pubs, events>>
    BY <1>0, <2>3 DEF ShownInv
  <2>. QED BY <2>1, <2>2, <2>3, OtherPublications
<1>2. (latest = Off => stash = Off /\ view.from = 0 /\ good = 0 /\ slide = Off)'
  <2>1. CASE PushArrives \/ ReadSettles
    <3>1. latest' # Off \/ UNCHANGED <<ingest, slide>>
      BY <1>0, <2>1, Arrived DEF PushArrives, ReadSettles, SettleRead, Submit, gesture
    <3>. QED BY <1>0, <3>1 DEF ShownInv, ingest
  <2>2. CASE SlideEnds
    BY <1>0, <2>2 DEF SlideEnds, Submit, ShownInv
  <2>3. CASE DragSettles
    <3>1. CASE stash = Off
      BY <1>0, <2>3, <3>1 DEF DragSettles, Flush, ShownInv, ingest, gesture
    <3>2. CASE stash # Off
      BY <1>0, <2>3, <3>2 DEF DragSettles, Flush, ShownInv
    <3>. QED BY <3>1, <3>2
  <2>4. CASE FlickAway
    BY <1>0, <2>4 DEF FlickAway, OnGrid, Shows, ShownInv, ingest
  <2>5. CASE UNCHANGED <<latest, stash, view, good, slide>>
    BY <1>0, <2>5 DEF ShownInv
  <2>. QED BY <2>1, <2>2, <2>3, <2>4, <2>5, OtherViews
<1>. QED BY <1>1, <1>2 DEF ShownInv

\* The watermarks: one is captured from the card as it is seen, and handed on.
Pressed(dismissal) == dismissal # Off => dismissal.mark <= saw

LEMMA IngestSeen ==
    ASSUME TypeOK, SeenInv, NEW payload \in Payload, NEW dismissal \in Hidden, Pressed(dismissal),
           UNCHANGED <<pubs, saw>>,
           IngestNow(payload, dismissal)
    PROVE  (hide # Off => hide.mark <= saw)' /\ NothingUnseenHidden'
<1>1. CASE Hold(dismissal)
  BY <1>1 DEF Hold, SeenInv, NothingUnseenHidden, Shows, Pressed
<1>2. CASE Apply(payload, dismissal)
  <2>1. PICK from \in Payload : /\ view'.from = from
                               /\ view'.hidden = StillHidden(dismissal, from)
                               /\ hide' = IF StillHidden(dismissal, from) THEN dismissal ELSE Off
    BY <1>2 DEF Apply, TypeOK, Payload
  <2>2. Shows(from) \in Nat /\ saw \in Nat
    BY <2>1, Publications, Bounds DEF TypeOK
  <2>3. StillHidden(dismissal, from) => dismissal.mark \in Nat /\ dismissal.mark <= saw
                                        /\ Shows(from) <= dismissal.mark
    BY Bounds DEF StillHidden, Hidden, Pressed
  <2>4. view'.hidden => Shows(from) <= saw
    BY <2>1, <2>2, <2>3
  <2>5. Shows(view.from)' = Shows(from)
    BY <2>1 DEF Shows
  <2>. QED BY <2>1, <2>3, <2>4, <2>5 DEF NothingUnseenHidden
<1>. QED BY <1>1, <1>2 DEF IngestNow

LEMMA SubmitSeen ==
    ASSUME TypeOK, SeenInv, NEW payload \in Payload, NEW dismissal \in Hidden, Pressed(dismissal),
           UNCHANGED <<pubs, saw>>,
           Submit(payload, dismissal)
    PROVE  (hide # Off => hide.mark <= saw)' /\ NothingUnseenHidden'
<1>1. CASE busy
  BY <1>1 DEF Submit, Defer, SeenInv, NothingUnseenHidden, Shows, Pressed
<1>2. CASE ~busy
  BY <1>2, IngestSeen DEF Submit
<1>. QED BY <1>1, <1>2

Marks == \A mark \in acks \cup ({press, slide} \ {Off}) : mark <= saw

LEMMA SeenStep == IInv /\ [Next]_vars => SeenInv'
<1>. SUFFICES ASSUME IInv, [Next]_vars PROVE SeenInv'
  OBVIOUS
<1>0. /\ TypeOK /\ ShownInv /\ LatchInv /\ SeenInv /\ Marks
      /\ hide \in Hidden /\ Pressed(hide)
  BY DEF IInv, SeenInv, Marks, TypeOK, Hidden, Pressed
<1>1. CASE PushArrives
  <2>1. Head(pushes) \in Payload
    BY <1>0, <1>1, Arrived, Publications DEF PushArrives, Pub, Payload
  <2>2. UNCHANGED <<pubs, saw, press, slide, acks>>
    BY <1>1 DEF PushArrives, daemon, gesture
  <2>. QED BY <1>0, <1>1, <2>1, <2>2, SubmitSeen DEF PushArrives, SeenInv
<1>2. CASE ReadSettles
  <2>1. PICK r \in reads : SettleRead(r)
    BY <1>2 DEF ReadSettles
  <2>2. UNCHANGED <<pubs, saw, press, slide, acks>>
    BY <1>2 DEF ReadSettles, daemon, gesture
  <2>3. r.got \in Payload
    BY <1>0, <2>1 DEF SettleRead, TypeOK, Payload
  <2>4. CASE r.current
    BY <1>0, <2>1, <2>2, <2>3, <2>4, SubmitSeen DEF SettleRead, SeenInv
  <2>5. CASE ~r.current
    BY <1>0, <2>1, <2>2, <2>5 DEF SettleRead, SeenInv, NothingUnseenHidden, Shows, ingest
  <2>. QED BY <2>4, <2>5
<1>3. CASE SlideEnds
  <2>1. UNCHANGED <<pubs, saw, press, acks>> /\ slide' = Off /\ slide # Off
    BY <1>3 DEF SlideEnds, daemon
  <2>2. latest \in Payload /\ slide \in 1..MaxResult /\ slide <= saw
    BY <1>0, <2>1 DEF ShownInv, TypeOK, Payload, Marks
  <2>. DEFINE dismissal == [left |-> Hide, mark |-> slide]
  <2>3. dismissal \in Hidden /\ Pressed(dismissal)
    BY <2>2, Bounds DEF Hidden, Pressed
  <2>4. Submit(latest, dismissal)
    BY <1>3 DEF SlideEnds
  <2>. HIDE DEF dismissal
  <2>5. (hide # Off => hide.mark <= saw)' /\ NothingUnseenHidden'
    BY <1>0, <2>1, <2>2, <2>3, <2>4, SubmitSeen
  <2>6. Marks'
    BY <1>0, <2>1 DEF Marks
  <2>. QED BY <2>5, <2>6 DEF SeenInv, Marks
<1>4. CASE DragSettles
  <2>1. UNCHANGED <<pubs, saw, press, slide, acks>>
    BY <1>4 DEF DragSettles, daemon, gesture
  <2>2. CASE stash = Off
    BY <1>0, <1>4, <2>1, <2>2 DEF DragSettles, Flush, SeenInv, NothingUnseenHidden, Shows, ingest
  <2>3. CASE stash # Off
    <3>1. stash \in Payload /\ IngestNow(stash, hide)
      BY <1>0, <1>4, <2>3 DEF DragSettles, Flush, TypeOK, Payload
    <3>. QED BY <1>0, <2>1, <3>1, IngestSeen DEF SeenInv
  <2>. QED BY <2>2, <2>3
<1>5. CASE PointerDown
  <2>1. press' \in Nat /\ saw \in Nat /\ saw' = (IF press' > saw THEN press' ELSE saw)
    BY <1>0, <1>5, Publications, Bounds DEF PointerDown, TypeOK, Payload
  <2>2. press' <= saw' /\ saw <= saw' /\ saw' \in Nat
    BY <2>1
  <2>3. UNCHANGED <<pubs, view, slide, acks, hide>>
    BY <1>5 DEF PointerDown, daemon, ingest
  <2>4. /\ acks \cup ({slide} \ {Off}) \subseteq Nat
        /\ hide # Off => hide.mark \in Nat
        /\ Shows(view.from) \in Nat
    <3>1. acks \cup ({slide} \ {Off}) \subseteq 1..MaxResult
      BY <1>0 DEF TypeOK
    <3>2. hide # Off => hide.mark \in 1..MaxResult
      BY <1>0 DEF Hidden
    <3>3. Shows(view.from) \in 0..MaxResult
      BY <1>0, Publications DEF TypeOK, Payload
    <3>. QED BY <3>1, <3>2, <3>3, Bounds
  <2>5. Marks'
    BY <1>0, <2>1, <2>2, <2>3, <2>4 DEF Marks
  <2>6. (hide # Off => hide.mark <= saw)' /\ NothingUnseenHidden'
    BY <1>0, <2>1, <2>2, <2>3, <2>4 DEF SeenInv, NothingUnseenHidden, Shows
  <2>. QED BY <2>5, <2>6 DEF SeenInv, Marks
<1>6. CASE PressEnds \/ FlickAway \/ AckArrives \/ AckLost
  <2>1. UNCHANGED <<pubs, view, saw, hide>>
    BY <1>6 DEF PressEnds, FlickAway, AckArrives, AckLost, daemon, ingest
  <2>2. acks' \cup ({press', slide'} \ {Off}) \subseteq acks \cup ({press, slide} \ {Off})
    <3>1. CASE PressEnds
      BY <3>1 DEF PressEnds
    <3>2. CASE FlickAway
      BY <3>2 DEF FlickAway, Watermark
    <3>3. CASE AckArrives \/ AckLost
      BY <3>3 DEF AckArrives, AckLost
    <3>. QED BY <1>6, <3>1, <3>2, <3>3
  <2>3. Marks'
    BY <1>0, <2>1, <2>2 DEF Marks
  <2>. QED BY <1>0, <2>1, <2>3 DEF SeenInv, NothingUnseenHidden, Shows, Marks
<1>7. ASSUME NEW ok \in BOOLEAN, Publish(ok) PROVE SeenInv'
  <2>1. UNCHANGED <<view, saw, hide, press, slide, acks>>
    BY <1>7 DEF Publish, ingest, gesture
  <2>2. Shows(view.from)' = Shows(view.from)
    <3>1. view.from = 0 \/ view.from \in Pub
      BY <1>0, Publications DEF TypeOK, Pub
    <3>. QED BY <1>0, <1>7, <2>1, <3>1, Appended DEF Shows
  <2>. QED BY <1>0, <2>1, <2>2 DEF SeenInv, NothingUnseenHidden
<1>8. CASE Tick \/ Sleep
  <2>1. PICK by : Elapse(by)
    BY <1>8 DEF Tick, Sleep
  <2>2. UNCHANGED <<pubs, view, saw, press, slide, acks>>
    BY <2>1 DEF Elapse, ingest, gesture
  <2>3. (hide # Off => hide.mark <= saw)'
    <3>1. CASE hide = Off
      BY <2>1, <3>1 DEF Elapse
    <3>2. CASE hide # Off
      <4>1. hide'.mark = hide.mark
        BY <1>0, <2>1, <3>2 DEF Elapse, Hidden
      <4>. QED BY <1>0, <2>2, <3>2, <4>1 DEF SeenInv
    <3>. QED BY <3>1, <3>2
  <2>. QED BY <1>0, <2>2, <2>3 DEF SeenInv, NothingUnseenHidden, Shows
<1>9. CASE UNCHANGED <<pubs, view, saw, hide, press, slide, acks>>
  BY <1>0, <1>9 DEF SeenInv, NothingUnseenHidden, Shows
<1>10. Drag \/ ExpiryCheck \/ GraceReread \/ NewResult \/ NoteTick
          => UNCHANGED <<pubs, view, saw, hide, press, slide, acks>>
  BY DEF Drag, ExpiryCheck, GraceReread, NewResult, NoteTick, daemon, ingest, gesture
<1>11. WatchEvent \/ ServeRead \/ SlowPass \/ UNCHANGED vars
          => UNCHANGED <<pubs, view, saw, hide, press, slide, acks>>
  BY DEF WatchEvent, ServeRead, SlowPass, vars, daemon, ingest, gesture
<1>. QED
  BY <1>1, <1>2, <1>3, <1>4, <1>5, <1>6, <1>7, <1>8, <1>9, <1>10, <1>11, Steps DEF Quiet

-----------------------------------------------------------------------------
\* The inductive invariant the theorems below follow from.
THEOREM BoardSafety == Spec => []IInv
<1>1. IInv /\ [Next]_vars => IInv'
  BY TypeStep, ShownStep, LatchStep, ClaimStep, SeenStep DEF IInv
<1>. QED BY <1>1, InitInv, PTL DEF Spec

\* Every payload in the board, on its way to it or in a timer is one that was
\* published, every watermark a result there was.
THEOREM BoardTypeCorrect == Spec => []TypeOK
<1>1. IInv => TypeOK
  BY DEF IInv
<1>. QED BY <1>1, BoardSafety, PTL

\* When no gesture owns the board, what was last submitted is what it last
\* ingested (createDeferredLatest loses nothing).
THEOREM NewestAlwaysIngested == Spec => []NewestIsIngested
<1>1. IInv => NewestIsIngested
  BY DEF IInv, LatchInv, NewestIsIngested
<1>. QED BY <1>1, BoardSafety, PTL

\* A read never takes the board back (ingestGate): only a push replaces a
\* payload by an older one.
THEOREM ReadsNeverTakeBack == Spec => ReadsNeverRegress
<1>1. ASSUME IInv, [Next]_vars
      PROVE  [latest' # latest /\ latest' # Off /\ latest # Off /\ 0 < latest' /\ latest' < latest
                => pushes' # pushes]_vars
  <2>1. CASE PushArrives
    <3>1. pushes \in Seq(Pub) /\ pushes # <<>> /\ pushes' = Tail(pushes)
      BY <1>1, <2>1 DEF PushArrives, IInv, TypeOK
    <3>2. Len(pushes') # Len(pushes)
      BY <3>1, HeadTailProperties, LenProperties
    <3>. QED BY <3>2
  <2>2. CASE ReadSettles
    <3>1. PICK r \in reads : SettleRead(r)
      BY <2>2 DEF ReadSettles
    <3>2. CASE r.current
      <4>1. latest' = r.got /\ r.got # Off
        BY <3>1, <3>2 DEF SettleRead, Submit
      <4>2. r.got \in Payload /\ latest \in {Off} \cup Payload
        BY <1>1, <3>1, <4>1 DEF IInv, TypeOK, Payload
      <4>3. r.got # 0 /\ latest # Off => latest <= r.got
        BY <1>1, <3>2, <4>1 DEF IInv, ClaimInv
      <4>. QED BY <1>1, <4>1, <4>2, <4>3, Publications DEF Payload, IInv
    <3>3. CASE ~r.current
      BY <3>1, <3>3 DEF SettleRead, ingest
    <3>. QED BY <3>2, <3>3
  <2>3. CASE latest' = latest
    BY <2>3
  <2>4. CASE SlideEnds \/ DragSettles \/ FlickAway
    BY <2>4 DEF SlideEnds, Submit, DragSettles, Flush, FlickAway, ingest
  <2>. QED BY <1>1, <2>1, <2>2, <2>3, <2>4, OtherViews
<1>. QED BY <1>1, BoardSafety, PTL DEF Spec, ReadsNeverRegress

LEMMA OtherRows ==
    [Next]_vars => AckArrives \/ NewResult \/ row' = row
<1>1. PushArrives \/ ReadSettles \/ SlideEnds \/ Drag \/ DragSettles \/ ExpiryCheck
         \/ GraceReread => row' = row
  BY DEF PushArrives, ReadSettles, SlideEnds, Drag, DragSettles, ExpiryCheck, GraceReread, daemon
<1>2. Tick \/ Sleep \/ NoteTick \/ WatchEvent \/ (\E ok \in BOOLEAN : Publish(ok)) \/ AckLost
         => row' = row
  BY DEF Tick, Sleep, Elapse, NoteTick, WatchEvent, Publish, AckLost, daemon
<1>3. ServeRead \/ SlowPass \/ PointerDown \/ PressEnds \/ FlickAway \/ UNCHANGED vars => row' = row
  BY DEF ServeRead, SlowPass, PointerDown, PressEnds, FlickAway, vars, daemon
<1>. QED BY <1>1, <1>2, <1>3, Steps DEF Quiet

\* A dismissal consumes only what was on the screen when the finger went down
\* (the watermark of flickAway).
THEOREM OnlySeenConsumed == Spec => NothingUnseenConsumed
<1>1. ASSUME IInv, [Next]_vars PROVE [row' = 0 /\ row > 0 => row <= saw]_vars
  <2>1. row \in Nat /\ newest \in Nat /\ saw \in Nat
    BY <1>1, Bounds DEF IInv, TypeOK
  <2>2. CASE AckArrives
    <3>1. PICK mark \in acks : mark \in Nat /\ mark <= saw /\ row' = IF row <= mark THEN 0 ELSE row
      BY <1>1, <2>2, Bounds DEF AckArrives, IInv, TypeOK, SeenInv
    <3>. QED BY <2>1, <3>1
  <2>3. CASE NewResult
    BY <2>1, <2>3 DEF NewResult
  <2>4. CASE row' = row
    BY <2>1, <2>4
  <2>. QED BY <1>1, <2>2, <2>3, <2>4, OtherRows
<1>. QED BY <1>1, BoardSafety, PTL DEF Spec, NothingUnseenConsumed

\* A card is hidden only while it shows what the user had pressed
\* (dismissals.activeKeys).
THEOREM HiddenWasSeen == Spec => []NothingUnseenHidden
<1>1. IInv => NothingUnseenHidden
  BY DEF IInv, SeenInv
<1>. QED BY <1>1, BoardSafety, PTL
=============================================================================
