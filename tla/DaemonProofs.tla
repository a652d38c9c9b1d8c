---------------------------- MODULE DaemonProofs ----------------------------
(***************************************************************************)
(* The daemon implements Feed, for any registry contents, any number of    *)
(* commits and faults, and any intervals.                                  *)
(***************************************************************************)
EXTENDS Daemon, SequenceTheorems, FiniteSetTheorems, TLAPS

\* What the board was last shown is in the file, and a projection under way
\* is of a commit the board has not gone past.
FileInv ==
    /\ history \in Seq(Entry) /\ history # <<>>
    /\ seen \in 0..Len(history)
    /\ last # Null => file = last
    /\ pc = "publish" => /\ taken \in 1..Len(history) /\ seen <= taken
                         /\ history[taken].what \notin Corrupt

\* A poll that reached its end without a snapshot has failed to write one.
WriteInv ==
    /\ age \in 0..Stall
    /\ healthy => last # Null
    /\ pc = "finish" /\ last = Null => failed
    /\ FreshAfterGoodPoll

\* A result is applied before its sweep starts again.
SweepInv ==
    /\ {inFlight, pending, promise} \subseteq [Sweep -> BOOLEAN]
    /\ \A s \in Sweep : promise[s] => inFlight[s]
    /\ pc \in {"applyPaseo", "startFacts", "startPaseo"} => ~pending["facts"]
    /\ pc \in {"startFacts", "startPaseo"} => ~pending["paseo"]
    /\ NoResultOverwritten

Contents == [i \in DOMAIN history |-> history[i].what]

-----------------------------------------------------------------------------
LEMMA EntryWhat == \A e \in Entry : e.what \in Content
  BY DEF Entry

LEMMA HistoryFacts ==
    ASSUME FileInv
    PROVE  /\ Len(history) \in Nat \ {0} /\ DOMAIN history = 1..Len(history)
           /\ \A i \in 1..Len(history) : history[i].what \in Content
           /\ Contents \in Seq(Content) /\ Len(Contents) = Len(history)
<1>1. history \in Seq(Entry) /\ history # <<>>
  BY DEF FileInv
<1>2. Len(history) \in Nat /\ Len(history) # 0 /\ DOMAIN history = 1..Len(history)
  BY <1>1, LenProperties, EmptySeq
<1>3. \A i \in 1..Len(history) : history[i].what \in Content
  BY <1>1, ElementOfSeq, EntryWhat
<1>4. Contents \in [1..Len(history) -> Content]
  BY <1>2, <1>3 DEF Contents
<1>5. Contents \in Seq(Content) /\ Len(Contents) = Len(history)
  BY <1>2, <1>4, IsASeq, LenProperties
<1>. QED BY <1>2, <1>3, <1>5

\* A commit adds one entry, and its content to the contents.
LEMMA CommitAppends ==
    ASSUME FileInv, NEW own \in BOOLEAN, Append1(own)
    PROVE  /\ history' \in Seq(Entry) /\ Len(history') = Len(history) + 1
           /\ \A i \in 1..Len(history) : history'[i] = history[i]
           /\ \E c \in Content : Contents' = Append(Contents, c)
<1>1. PICK c \in Content : history' = Append(history, [what |-> c, own |-> own])
  BY DEF Append1
<1>. DEFINE e == [what |-> c, own |-> own]
<1>2. e \in Entry /\ e.what = c
  BY DEF Entry
<1>3. history \in Seq(Entry) /\ Len(history) \in Nat
  BY HistoryFacts DEF FileInv
<1>. HIDE DEF e
<1>4. history' = Append(history, e)
  BY <1>1 DEF e
<1>5. /\ history' \in Seq(Entry) /\ Len(history') = Len(history) + 1
      /\ \A i \in 1..Len(history) : history'[i] = history[i]
      /\ history'[Len(history) + 1] = e
  BY <1>2, <1>3, <1>4, AppendProperties
<1>6. DOMAIN history' = 1..(Len(history) + 1)
  BY <1>5, LenProperties
<1>7. Contents' = [i \in 1..(Len(history) + 1) |-> history'[i].what]
  BY <1>6 DEF Contents
<1>8. Append(Contents, c) \in Seq(Content) /\ Len(Append(Contents, c)) = Len(history) + 1
      /\ \A i \in 1..Len(history) : Append(Contents, c)[i] = Contents[i]
      /\ Append(Contents, c)[Len(history) + 1] = c
  BY HistoryFacts, AppendProperties
<1>9. Contents' = Append(Contents, c)
  <2>1. \A i \in 1..Len(history) : Contents[i] = history[i].what
    BY HistoryFacts DEF Contents
  <2>2. Contents' \in Seq(Content) /\ Len(Contents') = Len(history) + 1
    <3>1. \A i \in 1..(Len(history) + 1) : history'[i].what \in Content
      BY <1>2, <1>3, <1>5, HistoryFacts
    <3>2. Contents' \in [1..(Len(history) + 1) -> Content]
      BY <1>7, <3>1
    <3>. QED BY <1>3, <3>2, IsASeq, LenProperties
  <2>3. \A i \in 1..(Len(history) + 1) : Contents'[i] = Append(Contents, c)[i]
    BY <1>2, <1>3, <1>5, <1>7, <1>8, <2>1
  <2>. QED BY <1>8, <2>2, <2>3, SeqEqual
<1>. QED BY <1>5, <1>9

-----------------------------------------------------------------------------
(***************************************************************************)
(* What the two ways to publish do, whatever step they are part of.        *)
(***************************************************************************)
LEMMA Codes == /\ {Null, Nothing} \cap (Content \cup Failure) = {}
               /\ "internal_error" \in Failure
  BY DaemonAssumption

LEMMA Intervals == /\ Heartbeat \in Nat /\ Stall \in Nat /\ SweepEvery \in Nat
                   /\ 0 < Heartbeat /\ Heartbeat < Stall
  BY DaemonAssumption

\* A failure is in the file, or nothing of the file has moved.
LEMMA PublishUnhealthyFacts ==
    ASSUME FileInv, WriteInv, NEW code \in Failure, NEW upTo \in Nat, NEW why,
           PublishUnhealthy(code, upTo, why)
    PROVE  /\ UNCHANGED <<history, overdue>> /\ ~healthy' /\ age' \in 0..Stall
           /\ last' # Null => file' = last'
           /\ last' = Null => failed'
           /\ \/ file' \in Failure /\ seen' = upTo
              \/ UNCHANGED <<file, seen>>
<1>1. code # Null /\ 0 \in 0..Stall
  BY Codes, Intervals
<1>2. age \in 0..Stall /\ (last # Null => file = last)
  BY DEF FileInv, WriteInv
<1>3. UNCHANGED <<history, overdue>> /\ ~healthy'
  BY DEF PublishUnhealthy
<1>4. CASE last = code /\ seen' = upTo /\ UNCHANGED <<file, last, age, failed>>
  BY <1>1, <1>2, <1>3, <1>4
<1>5. CASE seen' = upTo /\ file' = code /\ last' = code /\ age' = 0
  BY <1>1, <1>2, <1>3, <1>5
<1>6. CASE failed' = TRUE /\ UNCHANGED <<file, last, age, seen>>
  BY <1>1, <1>2, <1>3, <1>6
<1>. QED BY <1>4, <1>5, <1>6 DEF PublishUnhealthy, WriteSnapshot

\* The failures are published with the board left where it is, or brought
\* to the registry that cannot be projected.
FailsTo(upTo) ==
    /\ upTo = seen \/ (upTo = Len(history) /\ history[upTo].what \in Corrupt)
    /\ \E code \in Failure, why \in SUBSET FaultKind : PublishUnhealthy(code, upTo, why)
LEMMA Failing ==
    ASSUME OpenFails \/ ReadDataVersionFails \/ ReadProjectionFails
    PROVE  pc' = "finish" /\ \E upTo \in {seen, Len(history)} : FailsTo(upTo)
<1>0. /\ "internal_error" \in Failure
      /\ {"open"} \in SUBSET FaultKind /\ {"version"} \in SUBSET FaultKind
      /\ {"read"} \in SUBSET FaultKind /\ {} \in SUBSET FaultKind
  BY Codes DEF FaultKind
<1>1. CASE OpenFails
  BY <1>0, <1>1 DEF OpenFails, Goto, FailsTo
<1>2. CASE ReadDataVersionFails
  BY <1>0, <1>2 DEF ReadDataVersionFails, Goto, FailsTo
<1>3. CASE ReadProjectionFails
  BY <1>0, <1>3 DEF ReadProjectionFails, Goto, FailsTo
<1>. QED BY <1>1, <1>2, <1>3

\* A commit is in the file and the board is at it, or nothing has moved.
LEMMA PublishHealthyFacts ==
    ASSUME FileInv, WriteInv, PublishHealthy
    PROVE  /\ UNCHANGED <<history, overdue>> /\ pc' = "finish" /\ age' \in 0..Stall
           /\ last' # Null => file' = last'
           /\ last' = Null => failed'
           /\ healthy' => last' # Null
           /\ \/ file' = history[taken].what /\ seen' = taken
              \/ UNCHANGED <<file, seen>>
           /\ taken \in 1..Len(history) /\ seen <= taken
           /\ history[taken].what \notin Corrupt
<1>. DEFINE json == history[taken].what
<1>1. /\ pc = "publish" /\ pc' = "finish" /\ UNCHANGED <<history, overdue>>
      /\ \/ /\ IF last = json THEN UNCHANGED <<file, last, age, failed>>
                              ELSE WriteSnapshot(json, TRUE)
            /\ seen' = taken /\ healthy' = TRUE
         \/ /\ last # json /\ WriteSnapshot(json, FALSE)
            /\ UNCHANGED <<seen, healthy>>
  BY DEF PublishHealthy, Goto
<1>2. /\ taken \in 1..Len(history) /\ seen <= taken
      /\ history[taken].what \notin Corrupt
  BY <1>1 DEF FileInv
<1>3. json # Null /\ 0 \in 0..Stall
  BY <1>2, Codes, Intervals, HistoryFacts
<1>4. age \in 0..Stall /\ (last # Null => file = last) /\ (healthy => last # Null)
  BY DEF FileInv, WriteInv
<1>. HIDE DEF json
<1>5. CASE UNCHANGED <<file, last, age, failed>> /\ last = json /\ seen' = taken
  BY <1>1, <1>2, <1>3, <1>4, <1>5 DEF json
<1>6. CASE file' = json /\ last' = json /\ age' = 0 /\ seen' = taken
  BY <1>1, <1>2, <1>3, <1>4, <1>6 DEF json
<1>7. CASE failed' = TRUE /\ UNCHANGED <<file, last, age, seen, healthy>>
  BY <1>1, <1>2, <1>3, <1>4, <1>7
<1>. QED BY <1>1, <1>5, <1>6, <1>7 DEF WriteSnapshot

\* The heartbeat rewrites what is in the file already.
LEMMA FinishFacts ==
    ASSUME FileInv, WriteInv, Finish
    PROVE  /\ UNCHANGED <<history, file, last, seen, healthy>>
           /\ pc = "finish" /\ pc' = "rest" /\ age' \in 0..Stall
           /\ last # Null /\ ~failed' => age' < Heartbeat
           /\ last = Null => failed'
           /\ overdue' /\ ~overdue => failed'
<1>1. /\ pc = "finish" /\ pc' = "rest" /\ UNCHANGED <<history, seen, healthy>>
      /\ overdue' = (age' >= Stall)
  BY DEF Finish, Goto, CheckOverdue
<1>2. age \in 0..Stall /\ (last # Null => file = last) /\ (last = Null => failed)
  BY <1>1 DEF FileInv, WriteInv
<1>3. 0 < Heartbeat /\ Heartbeat < Stall /\ Heartbeat \in Nat /\ Stall \in Nat
  BY Intervals
<1>4. CASE ~HeartbeatDue /\ UNCHANGED <<file, last, age, failed>>
  <2>1. CASE last = Null
    BY <1>1, <1>2, <1>4, <2>1
  <2>2. CASE last # Null
    <3>1. age < Heartbeat /\ age' = age
      BY <1>2, <1>3, <1>4, <2>2 DEF HeartbeatDue
    <3>2. ~(age' >= Stall) /\ age' < Heartbeat
      BY <3>1, <1>2, <1>3
    <3>. QED BY <1>1, <1>2, <1>4, <2>2, <3>1, <3>2
  <2>. QED BY <2>1, <2>2
<1>5. CASE HeartbeatDue /\ WriteSnapshot(last, TRUE)
  <2>1. file' = last /\ last' = last /\ age' = 0 /\ last # Null
    BY <1>5 DEF WriteSnapshot, HeartbeatDue
  <2>2. ~(age' >= Stall) /\ age' < Heartbeat /\ age' \in 0..Stall
    BY <2>1, <1>3
  <2>. QED BY <1>1, <1>2, <2>1, <2>2
<1>6. CASE HeartbeatDue /\ WriteSnapshot(last, FALSE)
  BY <1>1, <1>2, <1>6 DEF WriteSnapshot, HeartbeatDue
<1>. QED BY <1>4, <1>5, <1>6 DEF Finish

-----------------------------------------------------------------------------
(***************************************************************************)
(* The steps that leave the file and the daemon's view of it alone, and    *)
(* the commits.                                                            *)
(***************************************************************************)
Quiet ==
    /\ UNCHANGED <<file, seen, last, healthy, overdue>> /\ age' \in 0..Stall
    /\ UNCHANGED history \/ \E own \in BOOLEAN : Append1(own)
    /\ pc' = "rest" => pc = "rest" /\ UNCHANGED <<age, failed>>
    /\ pc' = "finish" => healthy \/ (pc = "finish" /\ UNCHANGED failed)
    /\ pc' = "publish" =>
         \/ pc = "publish" /\ UNCHANGED taken
         \/ /\ UNCHANGED history /\ taken' = Len(history)
            /\ history[Len(history)].what \notin Corrupt

Waiting ==
    \/ ExternalCommit
    \/ \E s \in Sweep, resolved \in BOOLEAN : SettleSweep(s, resolved)
    \/ PollStart(1) \/ PollStart(Stall)
    \/ Open
    \/ \E s \in Sweep : ApplyPending(s) \/ NothingPending(s)
    \/ \E s \in Sweep : StartSweep(s) \/ SweepNotDue(s)
    \/ StartSweepFails
    \/ Prune
    \/ ReadDataVersion
    \/ ReadProjection

LEMMA NextCases ==
    ASSUME Next
    PROVE  \/ Waiting
           \/ Crash
           \/ OpenFails \/ ReadDataVersionFails \/ ReadProjectionFails
           \/ PublishHealthy
           \/ Finish
  BY DEF Next, PollStep, Waiting

\* Where a step of the maintenance goes: never to the publication.
LEMMA Places ==
    ASSUME NEW s \in Sweep
    PROVE  {AfterApply(s), AfterStart(s), MaintainAborted}
             \cap {"rest", "finish", "publish"} = {}
  BY DEF AfterApply, AfterStart, MaintainAborted, ApplyAt, StartAt, Sweep

LEMMA WaitingIsQuiet ==
    ASSUME WriteInv, Waiting
    PROVE  Quiet
<1>0. age \in 0..Stall /\ Stall \in Nat
  BY Intervals DEF WriteInv
<1>1. CASE ExternalCommit
  BY <1>0, <1>1 DEF ExternalCommit, Quiet, state, sweeps, locals
<1>2. CASE \E s \in Sweep, resolved \in BOOLEAN : SettleSweep(s, resolved)
  BY <1>0, <1>2 DEF SettleSweep, Quiet, world, state, locals
<1>3. ASSUME NEW gap \in Nat, PollStart(gap)
      PROVE  Quiet
  <2>1. age' = IF age + gap < Stall THEN age + gap ELSE Stall
    BY <1>3 DEF PollStart, Least
  <2>2. age' \in 0..Stall
    BY <1>0, <2>1
  <2>. QED BY <1>3, <2>2 DEF PollStart, Goto, Quiet, world
<1>4. CASE Open
  BY <1>0, <1>4 DEF Open, Goto, Quiet, world, state, locals, ApplyAt
<1>5. ASSUME NEW s \in Sweep, ApplyPending(s)
      PROVE  Quiet
  <2>1. UNCHANGED history \/ Append1(TRUE)
    BY <1>5 DEF ApplyPending, OwnCommit, NoCommit
  <2>2. pc' \in {AfterApply(s), MaintainAborted}
    BY <1>5 DEF ApplyPending, Goto
  <2>3. UNCHANGED <<file, seen, last, healthy, overdue, age>>
    BY <1>5 DEF ApplyPending, state
  <2>. QED BY <1>0, <2>1, <2>2, <2>3, Places DEF Quiet
<1>6. ASSUME NEW s \in Sweep, NothingPending(s) \/ StartSweep(s) \/ SweepNotDue(s)
      PROVE  Quiet
  <2>1. pc' \in {AfterApply(s), AfterStart(s)}
    BY <1>6 DEF NothingPending, StartSweep, SweepNotDue, Goto
  <2>2. UNCHANGED <<history, file, seen, last, healthy, overdue, age>>
    BY <1>6 DEF NothingPending, StartSweep, SweepNotDue, world, state
  <2>. QED BY <1>0, <2>1, <2>2, Places DEF Quiet
<1>7. CASE StartSweepFails
  BY <1>0, <1>7 DEF StartSweepFails, Goto, MaintainAborted, Quiet, world, state
<1>8. CASE Prune
  <2>1. UNCHANGED history \/ Append1(TRUE)
    BY <1>8 DEF Prune, OwnCommit, NoCommit
  <2>. QED BY <1>0, <1>8, <2>1 DEF Prune, Goto, Quiet, state
<1>9. CASE ReadDataVersion
  BY <1>0, <1>9 DEF ReadDataVersion, Goto, Unchanged, Quiet, world, state
<1>10. CASE ReadProjection
  BY <1>0, <1>10 DEF ReadProjection, Goto, Quiet, world, state
<1>. QED BY <1>0, <1>1, <1>2, <1>3, <1>4, <1>5, <1>6, <1>7, <1>8, <1>9, <1>10
         DEF Waiting

-----------------------------------------------------------------------------
(***************************************************************************)
(* The two invariants of the file.                                         *)
(***************************************************************************)
PollInv == FileInv /\ WriteInv

\* A quiet step keeps both.
LEMMA QuietKeeps ==
    ASSUME PollInv, Quiet
    PROVE  PollInv'
<1>1. /\ history \in Seq(Entry) /\ history # <<>> /\ Len(history) \in Nat \ {0}
      /\ seen \in 0..Len(history)
  BY HistoryFacts DEF PollInv, FileInv
<1>2. /\ history' \in Seq(Entry) /\ history' # <<>>
      /\ Len(history') \in Nat /\ Len(history') >= Len(history)
      /\ \A i \in 1..Len(history) : history'[i] = history[i]
  <2>1. CASE UNCHANGED history
    BY <1>1, <2>1
  <2>2. CASE \E own \in BOOLEAN : Append1(own)
    <3>1. /\ history' \in Seq(Entry) /\ Len(history') = Len(history) + 1
          /\ \A i \in 1..Len(history) : history'[i] = history[i]
      BY <2>2, CommitAppends DEF PollInv
    <3>. QED BY <1>1, <3>1, EmptySeq
  <2>. QED BY <2>1, <2>2 DEF Quiet
<1>3. seen' \in 0..Len(history')
  BY <1>1, <1>2 DEF Quiet
<1>4. last' # Null => file' = last'
  BY DEF PollInv, FileInv, Quiet
<1>5. ASSUME pc' = "publish"
      PROVE  /\ taken' \in 1..Len(history') /\ seen' <= taken'
             /\ history'[taken'].what \notin Corrupt
  <2>1. CASE pc = "publish" /\ UNCHANGED taken
    <3>1. /\ taken \in 1..Len(history) /\ seen <= taken
          /\ history[taken].what \notin Corrupt
      BY <2>1 DEF PollInv, FileInv
    <3>2. history'[taken'] = history[taken] /\ seen' = seen /\ taken' = taken
      BY <1>2, <2>1, <3>1 DEF Quiet
    <3>. QED BY <1>1, <1>2, <3>1, <3>2
  <2>2. CASE /\ UNCHANGED history /\ taken' = Len(history)
             /\ history[Len(history)].what \notin Corrupt
    <3>1. seen' = seen
      BY DEF Quiet
    <3>. QED BY <1>1, <2>2, <3>1
  <2>. QED BY <1>5, <2>1, <2>2 DEF Quiet
<1>6. FileInv'
  BY <1>2, <1>3, <1>4, <1>5 DEF FileInv
<1>7. WriteInv'
  BY DEF PollInv, WriteInv, Quiet, FreshAfterGoodPoll
<1>. QED BY <1>6, <1>7 DEF PollInv

\* So does a failure, published or not.
LEMMA FailureFacts ==
    ASSUME PollInv, OpenFails \/ ReadDataVersionFails \/ ReadProjectionFails
    PROVE  /\ pc' = "finish" /\ UNCHANGED <<history, overdue>> /\ ~healthy'
           /\ age' \in 0..Stall
           /\ last' # Null => file' = last'
           /\ last' = Null => failed'
           /\ \/ /\ file' \in Failure
                 /\ seen' = seen \/ (/\ seen' = Len(history)
                                     /\ history[Len(history)].what \in Corrupt)
              \/ UNCHANGED <<file, seen>>
<1>1. pc' = "finish" /\ \E upTo \in {seen, Len(history)} : FailsTo(upTo)
  BY Failing
<1>2. PICK upTo \in {seen, Len(history)}, code \in Failure, why \in SUBSET FaultKind :
        /\ upTo = seen \/ (upTo = Len(history) /\ history[upTo].what \in Corrupt)
        /\ PublishUnhealthy(code, upTo, why)
  BY <1>1 DEF FailsTo
<1>3. upTo \in Nat
  BY HistoryFacts DEF PollInv, FileInv
<1>4. /\ UNCHANGED <<history, overdue>> /\ ~healthy' /\ age' \in 0..Stall
      /\ last' # Null => file' = last'
      /\ last' = Null => failed'
      /\ \/ file' \in Failure /\ seen' = upTo
         \/ UNCHANGED <<file, seen>>
  BY <1>2, <1>3, PublishUnhealthyFacts DEF PollInv
<1>. QED BY <1>1, <1>2, <1>4

LEMMA InitPollInv == Init => PollInv
<1>. SUFFICES ASSUME Init PROVE PollInv
  OBVIOUS
<1>1. PICK c \in Content : history = <<[what |-> c, own |-> FALSE]>>
  BY DEF Init
<1>2. [what |-> c, own |-> FALSE] \in Entry
  BY DEF Entry
<1>3. history \in Seq(Entry) /\ history # <<>> /\ Len(history) = 1
  BY <1>1, <1>2
<1>4. FileInv
  BY <1>3 DEF Init, FileInv
<1>5. WriteInv
  BY Intervals DEF Init, WriteInv, FreshAfterGoodPoll
<1>. QED BY <1>4, <1>5 DEF PollInv

LEMMA NextPollInv == PollInv /\ [Next]_vars => PollInv'
<1>. SUFFICES ASSUME PollInv, [Next]_vars PROVE PollInv'
  OBVIOUS
<1>0. /\ history \in Seq(Entry) /\ history # <<>> /\ Len(history) \in Nat
      /\ seen \in 0..Len(history)
  BY HistoryFacts DEF PollInv, FileInv
<1>1. CASE Waiting
  BY <1>1, WaitingIsQuiet, QuietKeeps DEF PollInv
<1>2. CASE Crash
  <2>1. /\ pc' = "rest" /\ last' = Null /\ ~healthy' /\ age' = 0
        /\ UNCHANGED <<history, seen>>
    BY <1>2 DEF Crash, world
  <2>2. FileInv'
    BY <1>0, <2>1 DEF FileInv
  <2>3. WriteInv'
    BY <2>1, Intervals DEF WriteInv, FreshAfterGoodPoll
  <2>. QED BY <2>2, <2>3 DEF PollInv
<1>3. CASE OpenFails \/ ReadDataVersionFails \/ ReadProjectionFails
  <2>1. /\ pc' = "finish" /\ UNCHANGED history /\ ~healthy' /\ age' \in 0..Stall
        /\ last' # Null => file' = last'
        /\ last' = Null => failed'
        /\ seen' \in {seen, Len(history)}
    BY <1>3, FailureFacts
  <2>2. FileInv'
    BY <1>0, <2>1 DEF FileInv
  <2>3. WriteInv'
    BY <2>1 DEF WriteInv, FreshAfterGoodPoll
  <2>. QED BY <2>2, <2>3 DEF PollInv
<1>4. CASE PublishHealthy
  <2>1. /\ pc' = "finish" /\ UNCHANGED history /\ age' \in 0..Stall
        /\ last' # Null => file' = last'
        /\ last' = Null => failed'
        /\ healthy' => last' # Null
        /\ seen' \in {seen, taken} /\ taken \in 1..Len(history)
    BY <1>4, PublishHealthyFacts DEF PollInv
  <2>2. seen' \in 0..Len(history)
    BY <1>0, <2>1
  <2>3. FileInv'
    BY <1>0, <2>1, <2>2 DEF FileInv
  <2>4. WriteInv'
    BY <2>1 DEF WriteInv, FreshAfterGoodPoll
  <2>. QED BY <2>3, <2>4 DEF PollInv
<1>5. CASE Finish
  <2>1. /\ UNCHANGED <<history, file, last, seen, healthy>>
        /\ pc' = "rest" /\ age' \in 0..Stall
        /\ last # Null /\ ~failed' => age' < Heartbeat
    BY <1>5, FinishFacts DEF PollInv
  <2>2. FileInv'
    BY <1>0, <2>1 DEF PollInv, FileInv
  <2>3. WriteInv'
    BY <2>1 DEF PollInv, WriteInv, FreshAfterGoodPoll
  <2>. QED BY <2>2, <2>3 DEF PollInv
<1>6. CASE UNCHANGED vars
  BY <1>6 DEF vars, world, state, locals, PollInv, FileInv, WriteInv, FreshAfterGoodPoll
<1>. QED BY <1>1, <1>2, <1>3, <1>4, <1>5, <1>6, NextCases

-----------------------------------------------------------------------------
(***************************************************************************)
(* The invariant of the sweeps.                                            *)
(***************************************************************************)
Later == {"applyPaseo", "startFacts", "startPaseo"}

\* A step that leaves the sweeps alone and does not go on in the maintenance.
LEMMA SweepsAlone ==
    ASSUME SweepInv, UNCHANGED <<inFlight, pending, promise>>,
           pc' \in Later => pc' = pc
    PROVE  SweepInv'
  BY DEF SweepInv, NoResultOverwritten, Later

LEMMA InitSweepInv == Init => SweepInv
  BY DEF Init, None, SweepInv, NoResultOverwritten

LEMMA NextSweepInv == SweepInv /\ [Next]_vars => SweepInv'
<1>. SUFFICES ASSUME SweepInv, [Next]_vars PROVE SweepInv'
  OBVIOUS
<1>. USE DEF Later, Goto
<1>1. CASE ExternalCommit
  BY <1>1, SweepsAlone DEF ExternalCommit, sweeps
<1>2. ASSUME NEW s \in Sweep, NEW resolved \in BOOLEAN, SettleSweep(s, resolved)
      PROVE  SweepInv'
  <2>1. /\ pc = "rest" /\ pc' = pc /\ promise[s]
        /\ promise' = [promise EXCEPT ![s] = FALSE]
        /\ inFlight' = [inFlight EXCEPT ![s] = FALSE]
        /\ pending' = [pending EXCEPT ![s] = @ \/ resolved]
    BY <1>2 DEF SettleSweep
  <2>2. {inFlight', pending', promise'} \subseteq [Sweep -> BOOLEAN]
    BY <2>1 DEF SweepInv
  <2>3. \A r \in Sweep : promise'[r] => inFlight'[r]
    BY <2>1 DEF SweepInv
  <2>4. \A r \in Sweep : ~(inFlight'[r] /\ pending'[r])
    BY <2>1 DEF SweepInv, NoResultOverwritten
  <2>. QED BY <2>1, <2>2, <2>3, <2>4 DEF SweepInv, NoResultOverwritten
<1>3. CASE Crash
  BY <1>3 DEF Crash, None, SweepInv, NoResultOverwritten
<1>4. ASSUME NEW gap, PollStart(gap) PROVE SweepInv'
  BY <1>4, SweepsAlone DEF PollStart
<1>5. CASE Open \/ OpenFails
  BY <1>5, SweepsAlone DEF Open, OpenFails, sweeps, ApplyAt
<1>6. ASSUME NEW s \in Sweep, ApplyPending(s) PROVE SweepInv'
  <2>1. /\ pc = ApplyAt[s] /\ pc' \in {AfterApply(s), MaintainAborted}
        /\ pending' = [pending EXCEPT ![s] = FALSE]
        /\ UNCHANGED <<inFlight, promise>>
    BY <1>6 DEF ApplyPending
  <2>2. ~pending'[s] /\ \A r \in Sweep : pending'[r] => pending[r]
    BY <2>1 DEF SweepInv
  <2>3. pending' \in [Sweep -> BOOLEAN]
    BY <2>1 DEF SweepInv
  <2>4. NoResultOverwritten'
    BY <2>1, <2>2 DEF SweepInv, NoResultOverwritten
  <2>5. /\ pc' \in Later => ~pending'["facts"]
        /\ pc' \in {"startFacts", "startPaseo"} => ~pending'["paseo"]
    <3>1. CASE s = "facts"
      BY <2>1, <2>2, <3>1 DEF AfterApply, MaintainAborted, ApplyAt, StartAt, Sweep
    <3>2. CASE s = "paseo"
      BY <2>1, <2>2, <3>2 DEF AfterApply, MaintainAborted, ApplyAt, StartAt, Sweep, SweepInv
    <3>. QED BY <3>1, <3>2 DEF Sweep
  <2>. QED BY <2>1, <2>3, <2>4, <2>5 DEF SweepInv
<1>7. ASSUME NEW s \in Sweep, NothingPending(s) PROVE SweepInv'
  <2>1. /\ pc = ApplyAt[s] /\ pc' = AfterApply(s) /\ ~pending[s]
        /\ UNCHANGED <<inFlight, pending, promise>>
    BY <1>7 DEF NothingPending, sweeps
  <2>2. CASE s = "facts"
    BY <2>1, <2>2 DEF AfterApply, ApplyAt, StartAt, Sweep, SweepInv, NoResultOverwritten
  <2>3. CASE s = "paseo"
    BY <2>1, <2>3 DEF AfterApply, ApplyAt, StartAt, Sweep, SweepInv, NoResultOverwritten
  <2>. QED BY <2>2, <2>3 DEF Sweep
<1>8. ASSUME NEW s \in Sweep, StartSweep(s) PROVE SweepInv'
  <2>1. /\ pc = StartAt[s] /\ pc' = AfterStart(s)
        /\ inFlight' = [inFlight EXCEPT ![s] = TRUE]
        /\ promise' = [promise EXCEPT ![s] = TRUE]
        /\ UNCHANGED pending
    BY <1>8 DEF StartSweep
  <2>2. ~pending["facts"] /\ ~pending["paseo"] /\ pc' \in {"startPaseo", "prune"}
    BY <2>1 DEF SweepInv, StartAt, AfterStart, Sweep
  <2>3. NoResultOverwritten'
    BY <2>1, <2>2 DEF NoResultOverwritten, Sweep
  <2>4. {inFlight', promise'} \subseteq [Sweep -> BOOLEAN]
        /\ \A r \in Sweep : promise'[r] => inFlight'[r]
    BY <2>1 DEF SweepInv
  <2>. QED BY <2>1, <2>2, <2>3, <2>4 DEF SweepInv
<1>9. CASE StartSweepFails
  <2>1. /\ pc = "startFacts" /\ pc' = "version"
        /\ inFlight' = [inFlight EXCEPT !["facts"] = TRUE]
        /\ UNCHANGED <<pending, promise>>
    BY <1>9 DEF StartSweepFails, StartAt, MaintainAborted, Sweep
  <2>2. ~pending["facts"] /\ ~pending["paseo"]
    BY <2>1 DEF SweepInv
  <2>3. NoResultOverwritten'
    BY <2>1, <2>2 DEF NoResultOverwritten, Sweep
  <2>4. inFlight' \in [Sweep -> BOOLEAN] /\ \A r \in Sweep : promise'[r] => inFlight'[r]
    BY <2>1 DEF SweepInv
  <2>. QED BY <2>1, <2>2, <2>3, <2>4 DEF SweepInv
<1>10. ASSUME NEW s \in Sweep, SweepNotDue(s) PROVE SweepInv'
  <2>1. /\ pc = StartAt[s] /\ pc' = AfterStart(s)
        /\ UNCHANGED <<inFlight, pending, promise>>
    BY <1>10 DEF SweepNotDue, sweeps
  <2>2. ~pending["facts"] /\ ~pending["paseo"]
    BY <2>1 DEF SweepInv, StartAt, Sweep
  <2>. QED BY <2>1, <2>2 DEF SweepInv, NoResultOverwritten
<1>11. CASE Prune
  BY <1>11, SweepsAlone DEF Prune, sweeps
<1>12. CASE ReadDataVersion \/ ReadDataVersionFails
  BY <1>12, SweepsAlone DEF ReadDataVersion, ReadDataVersionFails, sweeps
<1>13. CASE ReadProjection \/ ReadProjectionFails
  BY <1>13, SweepsAlone DEF ReadProjection, ReadProjectionFails, sweeps
<1>14. CASE PublishHealthy \/ Finish
  BY <1>14, SweepsAlone DEF PublishHealthy, Finish, sweeps
<1>15. CASE UNCHANGED vars
  BY <1>15, SweepsAlone DEF vars, sweeps
<1>. QED BY <1>1, <1>2, <1>3, <1>4, <1>5, <1>6, <1>7, <1>8, <1>9, <1>10, <1>11, <1>12,
            <1>13, <1>14, <1>15 DEF Next, PollStep

-----------------------------------------------------------------------------
(***************************************************************************)
(* The refinement of Feed, step by step.                                   *)
(***************************************************************************)
LEMMA InitPromise == Init => Promise!FeedInit
<1>. SUFFICES ASSUME Init PROVE Promise!FeedInit
  OBVIOUS
<1>1. PICK c \in Content : history = <<[what |-> c, own |-> FALSE]>>
  BY DEF Init
<1>2. DOMAIN history = 1..1 /\ history[1].what = c
  BY <1>1
<1>3. Contents = [i \in 1..1 |-> c]
  BY <1>2 DEF Contents
<1>4. Contents = <<c>>
  BY <1>3
<1>. QED BY <1>4 DEF Init, Promise!FeedInit, Contents

LEMMA StepPromise ==
    ASSUME PollInv, [Next]_vars
    PROVE  [Promise!FeedNext]_(Promise!FeedVars)
<1>0. /\ history \in Seq(Entry) /\ Len(history) \in Nat \ {0}
      /\ Contents \in Seq(Content) /\ Len(Contents) = Len(history)
      /\ \A i \in 1..Len(history) : Contents[i] = history[i].what
      /\ seen \in 0..Len(history)
  BY HistoryFacts DEF PollInv, FileInv, Contents
<1>1. ASSUME UNCHANGED <<history, file, seen>>
      PROVE  UNCHANGED Promise!FeedVars
  BY <1>1 DEF Promise!FeedVars
<1>2. ASSUME NEW own \in BOOLEAN, Append1(own), UNCHANGED <<file, seen>>
      PROVE  Promise!Commit
  <2>1. \E c \in Content : Contents' = Append(Contents, c)
    BY <1>2, CommitAppends DEF PollInv
  <2>. QED BY <1>2, <2>1 DEF Promise!Commit, Contents
<1>3. CASE Waiting
  <2>1. Quiet
    BY <1>3, WaitingIsQuiet DEF PollInv
  <2>. QED BY <1>1, <1>2, <2>1 DEF Quiet, Promise!FeedNext
<1>4. CASE Crash
  BY <1>1, <1>4 DEF Crash, world
<1>5. CASE OpenFails \/ ReadDataVersionFails \/ ReadProjectionFails
  <2>1. /\ UNCHANGED history
        /\ \/ /\ file' \in Failure
              /\ seen' = seen \/ (/\ seen' = Len(history)
                                  /\ history[Len(history)].what \in Corrupt)
           \/ UNCHANGED <<file, seen>>
    BY <1>5, FailureFacts
  <2>2. CASE UNCHANGED <<file, seen>>
    BY <1>1, <2>1, <2>2
  <2>3. CASE file' \in Failure /\ seen' = seen
    <3>1. Contents' = Contents
      BY <2>1 DEF Contents
    <3>. QED BY <2>3, <3>1 DEF Promise!FeedNext, Promise!Fail, Contents
  <2>4. CASE /\ file' \in Failure /\ seen' = Len(history)
             /\ history[Len(history)].what \in Corrupt
    <3>1. Contents' = Contents
      BY <2>1 DEF Contents
    <3>2. seen' \in 1..Len(Contents) /\ seen' >= seen /\ Contents[seen'] \in Corrupt
      BY <1>0, <2>4
    <3>. QED BY <2>4, <3>1, <3>2
             DEF Promise!FeedNext, Promise!Fail, Promise!Reached, Contents
  <2>. QED BY <2>1, <2>2, <2>3, <2>4
<1>6. CASE PublishHealthy
  <2>1. /\ UNCHANGED history
        /\ \/ file' = history[taken].what /\ seen' = taken
           \/ UNCHANGED <<file, seen>>
        /\ taken \in 1..Len(history) /\ seen <= taken
        /\ history[taken].what \notin Corrupt
    BY <1>6, PublishHealthyFacts DEF PollInv
  <2>2. CASE UNCHANGED <<file, seen>>
    BY <1>1, <2>1, <2>2
  <2>3. CASE file' = history[taken].what /\ seen' = taken
    <3>1. Contents' = Contents
      BY <2>1 DEF Contents
    <3>2. taken \in 1..Len(Contents) /\ taken >= seen /\ Contents[taken] \notin Corrupt
          /\ file' = Contents[taken] /\ seen' = taken
      BY <1>0, <2>1, <2>3
    <3>. QED BY <3>1, <3>2
             DEF Promise!FeedNext, Promise!Show, Promise!Reached, Contents
  <2>. QED BY <2>1, <2>2, <2>3
<1>7. CASE Finish
  <2>1. UNCHANGED <<history, file, seen>>
    BY <1>7, FinishFacts DEF PollInv
  <2>. QED BY <1>1, <2>1
<1>8. CASE UNCHANGED vars
  BY <1>1, <1>8 DEF vars, world
<1>. QED BY <1>3, <1>4, <1>5, <1>6, <1>7, <1>8, NextCases

-----------------------------------------------------------------------------
(***************************************************************************)
(* Type correctness.                                                       *)
(***************************************************************************)
LEMMA FaultTyped ==
    ASSUME faults \in 0..MaxFaults, NEW kinds, Fault(kinds)
    PROVE  faults' \in 0..MaxFaults
<1>1. IsFiniteSet(FaultKind)
  <2>. DEFINE Pair(a, b) == {a} \cup {b}
  <2>1. \A a, b : IsFiniteSet(Pair(a, b))
    BY FS_Singleton, FS_Union
  <2>2. FaultKind = (Pair("open", "apply") \cup Pair("list", "prune"))
                    \cup (Pair("version", "read") \cup Pair("write", "crash"))
    BY DEF FaultKind
  <2>. HIDE DEF Pair
  <2>3. IsFiniteSet(Pair("open", "apply") \cup Pair("list", "prune"))
        /\ IsFiniteSet(Pair("version", "read") \cup Pair("write", "crash"))
    BY <2>1, FS_Union
  <2>. QED BY <2>2, <2>3, FS_Union
<1>2. IsFiniteSet(kinds)
  BY <1>1, FS_Subset, DaemonAssumption DEF Fault
<1>3. Cardinality(kinds) \in Nat /\ MaxFaults \in Nat
  BY <1>2, FS_CardinalityType, DaemonAssumption
<1>. QED BY <1>3 DEF Fault

LEMMA CommitTyped ==
    ASSUME TypeOK, NEW own \in BOOLEAN, Append1(own)
    PROVE  /\ history' \in Seq(Entry) /\ Len(history') <= MaxHistory
           /\ 0..Len(history) \subseteq 0..Len(history')
<1>1. PICK c \in Content : history' = Append(history, [what |-> c, own |-> own])
  BY DEF Append1
<1>2. [what |-> c, own |-> own] \in Entry
  BY DEF Entry
<1>3. /\ history \in Seq(Entry) /\ Len(history) \in Nat /\ MaxHistory \in Nat
      /\ Len(history) < MaxHistory
  BY DaemonAssumption, LenProperties DEF TypeOK, Append1
<1>. DEFINE e == [what |-> c, own |-> own]
<1>. HIDE DEF e
<1>4. e \in Entry /\ history' = Append(history, e)
  BY <1>1, <1>2 DEF e
<1>5. history' \in Seq(Entry) /\ Len(history') = Len(history) + 1
  BY <1>3, <1>4, AppendProperties
<1>. QED BY <1>3, <1>5

\* The world, the poll, the daemon's state and the sweeps.
WorldTyped ==
    /\ history \in Seq(Entry) /\ Len(history) <= MaxHistory
    /\ file \in {Nothing} \cup Content \cup Failure /\ seen \in 0..Len(history)
    /\ taken \in 0..Len(history)
PollTyped ==
    /\ pc \in {"rest", "open", "prune", "version", "project", "publish", "finish"}
              \cup {ApplyAt[s] : s \in Sweep} \cup {StartAt[s] : s \in Sweep}
    /\ version \in Nat \cup {Null} /\ lastVersion \in Nat \cup {Null}
    /\ read \in Nat \cup {Null} /\ faults \in 0..MaxFaults
StateTyped ==
    /\ last \in {Null} \cup Content \cup Failure
    /\ healthy \in BOOLEAN /\ overdue \in BOOLEAN
    /\ changed \in BOOLEAN /\ failed \in BOOLEAN
    /\ age \in 0..Stall
SweepsTyped ==
    /\ inFlight \in [Sweep -> BOOLEAN] /\ pending \in [Sweep -> BOOLEAN]
    /\ promise \in [Sweep -> BOOLEAN]
    /\ sweepAge \in [Sweep -> 0..SweepEvery]

LEMMA Zeros == 0 \in 0..Stall /\ 0 \in 0..SweepEvery
  BY Intervals

LEMMA TypeParts == TypeOK <=> WorldTyped /\ PollTyped /\ StateTyped /\ SweepsTyped
  BY DEF TypeOK, WorldTyped, PollTyped, StateTyped, SweepsTyped

LEMMA MaintainPlaces ==
    ASSUME NEW s \in Sweep
    PROVE  {AfterApply(s), AfterStart(s), MaintainAborted}
             \subseteq {"prune", "version"} \cup {ApplyAt[r] : r \in Sweep}
                                            \cup {StartAt[r] : r \in Sweep}
  BY DEF AfterApply, AfterStart, MaintainAborted, Sweep

\* Publishing a failure keeps the types.
LEMMA UnhealthyTyped ==
    ASSUME TypeOK, NEW code \in Failure, NEW upTo \in {seen, Len(history)}, NEW why,
           PublishUnhealthy(code, upTo, why), UNCHANGED <<changed, taken>>
    PROVE  WorldTyped' /\ StateTyped' /\ faults' \in 0..MaxFaults /\ UNCHANGED lastVersion
<1>0. WorldTyped /\ PollTyped /\ StateTyped /\ 0 \in 0..Stall /\ Len(history) \in Nat
  BY TypeParts, Intervals, LenProperties DEF WorldTyped
<1>1. faults' \in 0..MaxFaults
  BY <1>0, FaultTyped DEF PublishUnhealthy, PollTyped
<1>2. /\ UNCHANGED <<history, lastVersion, overdue>> /\ healthy' = FALSE
      /\ file' \in {file, code} /\ last' \in {last, code} /\ age' \in {age, 0}
      /\ failed' \in {failed, TRUE} /\ seen' \in {seen, upTo}
  BY DEF PublishUnhealthy, WriteSnapshot
<1>3. seen' \in 0..Len(history)
  BY <1>0, <1>2 DEF WorldTyped
<1>4. WorldTyped'
  BY <1>0, <1>2, <1>3 DEF WorldTyped
<1>5. StateTyped'
  BY <1>0, <1>2 DEF StateTyped
<1>. QED BY <1>1, <1>2, <1>4, <1>5


LEMMA NextTypeOK == TypeOK /\ PollInv /\ [Next]_vars => TypeOK'
<1>. SUFFICES ASSUME TypeOK, PollInv, [Next]_vars PROVE TypeOK'
  OBVIOUS
<1>0. WorldTyped /\ PollTyped /\ StateTyped /\ SweepsTyped /\ Len(history) \in Nat
  BY TypeParts, LenProperties DEF WorldTyped
<1>. USE <1>0 DEF Goto
<1>p. ASSUME WorldTyped', PollTyped', StateTyped', SweepsTyped'
      PROVE  TypeOK'
  BY <1>p DEF TypeOK, WorldTyped, PollTyped, StateTyped, SweepsTyped
<1>w. ASSUME UNCHANGED <<history, file, seen>>, taken' \in {taken, Len(history)}
      PROVE  WorldTyped'
  BY <1>w DEF WorldTyped
<1>c. ASSUME NEW own \in BOOLEAN, Append1(own), UNCHANGED <<file, seen, taken>>
      PROVE  WorldTyped'
  BY <1>c, CommitTyped DEF WorldTyped
<1>s. ASSUME UNCHANGED <<last, healthy, overdue, age, failed>>, changed' \in {changed, TRUE, FALSE}
      PROVE  StateTyped'
  BY <1>s DEF StateTyped
<1>v. ASSUME UNCHANGED sweeps PROVE SweepsTyped'
  BY <1>v DEF SweepsTyped, sweeps
<1>1. CASE ExternalCommit
  <2>1. PollTyped'
    <3>1. version' \in Nat \cup {Null}
      BY <1>1 DEF ExternalCommit, PollTyped
    <3>. QED BY <1>1, <3>1 DEF ExternalCommit, PollTyped, state, locals
  <2>. QED BY <1>1, <2>1, <1>c, <1>s, <1>v, <1>p DEF ExternalCommit, state, locals
<1>2. ASSUME NEW s \in Sweep, NEW resolved \in BOOLEAN, SettleSweep(s, resolved)
      PROVE  TypeOK'
  <2>1. SweepsTyped'
    BY <1>2 DEF SettleSweep, SweepsTyped
  <2>. QED BY <1>2, <2>1, <1>w, <1>s, <1>p
           DEF SettleSweep, PollTyped, world, state, locals
<1>3. CASE Crash
  <2>1. WorldTyped'
    BY <1>3 DEF Crash, WorldTyped, world
  <2>s. StateTyped'
    BY <1>3, Zeros DEF Crash, StateTyped
  <2>2. SweepsTyped'
    <3>1. SweepEvery \in 0..SweepEvery
      BY Intervals
    <3>. QED BY <1>3, <3>1 DEF Crash, None, SweepsTyped
  <2>3. PollTyped'
    BY <1>3, FaultTyped DEF Crash, PollTyped
  <2>. QED BY <2>1, <2>s, <2>2, <2>3, <1>p
<1>4. ASSUME NEW gap \in Nat, PollStart(gap) PROVE TypeOK'
  <2>1. \A n, m \in Nat : Least(n + gap, m) \in 0..m
    BY DEF Least
  <2>2. age' \in 0..Stall
    BY <1>4, <2>1, Intervals DEF PollStart, StateTyped
  <2>3. sweepAge' \in [Sweep -> 0..SweepEvery]
    <3>1. \A s \in Sweep : Least(sweepAge[s] + gap, SweepEvery) \in 0..SweepEvery
      <4>1. \A s \in Sweep : sweepAge[s] \in 0..SweepEvery
        BY DEF SweepsTyped
      <4>2. \A s \in Sweep : sweepAge[s] \in Nat /\ SweepEvery \in Nat
        BY <4>1, Intervals
      <4>. HIDE <1>0
      <4>. QED BY <2>1, <4>2
    <3>. QED BY <1>4, <3>1 DEF PollStart
  <2>4. StateTyped'
    BY <1>4, <2>2 DEF PollStart, StateTyped
  <2>. QED BY <1>4, <2>3, <2>4, <1>w, <1>p DEF PollStart, PollTyped, SweepsTyped, world
<1>5. CASE Open
  <2>1. version' \in Nat \cup {Null} /\ pc' \in {ApplyAt[s] : s \in Sweep}
    BY <1>5, DaemonAssumption DEF Open, PollTyped, Sweep
  <2>. QED BY <1>5, <2>1, <1>w, <1>s, <1>v, <1>p DEF Open, PollTyped, world, state, locals
<1>6. CASE OpenFails \/ ReadDataVersionFails \/ ReadProjectionFails
  <2>1. /\ pc' = "finish" /\ version' \in {version, Null} /\ UNCHANGED <<changed, read, taken>>
        /\ UNCHANGED sweeps
        /\ \E why : \E code \in Failure, upTo \in {seen, Len(history)} :
              PublishUnhealthy(code, upTo, why)
    BY <1>6, Codes DEF OpenFails, ReadDataVersionFails, ReadProjectionFails
  <2>2. WorldTyped' /\ StateTyped' /\ faults' \in 0..MaxFaults /\ UNCHANGED lastVersion
    BY <2>1, UnhealthyTyped
  <2>. QED BY <2>1, <2>2, <1>v, <1>p DEF PollTyped
<1>7. ASSUME NEW s \in Sweep, ApplyPending(s) PROVE TypeOK'
  <2>1. /\ (Append1(TRUE) /\ changed' = TRUE) \/ UNCHANGED <<history, changed>>
        /\ pc' \in {AfterApply(s), MaintainAborted}
        /\ UNCHANGED faults \/ Fault({"apply"})
        /\ pending' = [pending EXCEPT ![s] = FALSE]
        /\ UNCHANGED <<file, seen, version, state, inFlight, sweepAge, promise, read, taken, failed>>
    BY <1>7 DEF ApplyPending, OwnCommit, NoCommit
  <2>2. PollTyped'
    BY <2>1, FaultTyped, MaintainPlaces DEF PollTyped, state
  <2>3. SweepsTyped'
    BY <2>1 DEF SweepsTyped
  <2>. QED BY <2>1, <2>2, <2>3, <1>w, <1>c, <1>s, <1>p DEF state
<1>8. ASSUME NEW s \in Sweep, NothingPending(s) \/ SweepNotDue(s) PROVE TypeOK'
  <2>1. pc' \in {AfterApply(s), AfterStart(s)}
        /\ UNCHANGED <<world, version, state, sweeps, locals, faults>>
    BY <1>8 DEF NothingPending, SweepNotDue
  <2>. QED BY <2>1, <1>w, <1>s, <1>v, MaintainPlaces, <1>p
           DEF PollTyped, world, state, locals
<1>9. ASSUME NEW s \in Sweep, StartSweep(s) PROVE TypeOK'
  <2>1. SweepsTyped'
    BY <1>9, Zeros DEF StartSweep, SweepsTyped
  <2>. QED BY <1>9, <2>1, <1>w, <1>s, MaintainPlaces, <1>p
           DEF StartSweep, PollTyped, world, state, locals
<1>10. CASE StartSweepFails
  <2>1. SweepsTyped'
    BY <1>10, Zeros DEF StartSweepFails, SweepsTyped
  <2>2. PollTyped'
    BY <1>10, FaultTyped DEF StartSweepFails, PollTyped, MaintainAborted, state, locals
  <2>. QED BY <1>10, <2>1, <2>2, <1>w, <1>s, <1>p DEF StartSweepFails, world, state, locals
<1>11. CASE Prune
  <2>1. (Append1(TRUE) /\ changed' = TRUE) \/ UNCHANGED <<history, changed>>
    BY <1>11 DEF Prune, OwnCommit, NoCommit
  <2>2. PollTyped'
    BY <1>11, FaultTyped DEF Prune, PollTyped, state
  <2>. QED BY <1>11, <2>1, <2>2, <1>w, <1>c, <1>s, <1>v, <1>p DEF Prune, state
<1>12. CASE ReadDataVersion \/ ReadProjection
  <2>1. /\ pc' \in {"finish", "project", "publish"} /\ read' \in {read, version}
        /\ taken' \in {taken, Len(history)}
        /\ UNCHANGED <<world, version, state, sweeps, changed, failed, faults>>
    BY <1>12 DEF ReadDataVersion, ReadProjection
  <2>. QED BY <2>1, <1>w, <1>s, <1>v, <1>p DEF PollTyped, world, state
<1>13. CASE PublishHealthy
  <2>. DEFINE json == history[taken].what
  <2>1. taken \in 1..Len(history) /\ json \in Content
    BY <1>13, HistoryFacts DEF PublishHealthy, PollInv, FileInv
  <2>2. /\ pc' = "finish" /\ UNCHANGED <<history, version, overdue, sweeps, changed, read, taken>>
        /\ file' \in {file, json} /\ last' \in {last, json} /\ age' \in {age, 0}
        /\ failed' \in {failed, TRUE} /\ seen' \in {seen, taken}
        /\ lastVersion' \in {lastVersion, read} /\ healthy' \in {healthy, TRUE}
        /\ UNCHANGED faults \/ Fault({"write"})
    BY <1>13 DEF PublishHealthy, WriteSnapshot, PublishedVersion
  <2>. HIDE DEF json
  <2>3. WorldTyped'
    BY <2>1, <2>2 DEF WorldTyped
  <2>4. StateTyped'
    BY <2>1, <2>2, Zeros DEF StateTyped
  <2>5. PollTyped'
    BY <2>2, FaultTyped DEF PollTyped
  <2>. QED BY <2>2, <2>3, <2>4, <2>5, <1>v, <1>p
<1>14. CASE Finish
  <2>1. /\ pc' = "rest" /\ UNCHANGED <<history, seen, version, lastVersion, healthy, sweeps>>
        /\ file' \in {file, last} /\ last' = last /\ age' \in {age, 0}
        /\ failed' \in {failed, TRUE} /\ overdue' = (age' >= Stall)
        /\ changed' = FALSE /\ read' = Null /\ taken' = 0
        /\ UNCHANGED faults \/ Fault({"write"})
        /\ HeartbeatDue \/ UNCHANGED file
    BY <1>14 DEF Finish, WriteSnapshot, CheckOverdue
  <2>2. file' \in {Nothing} \cup Content \cup Failure
    BY <2>1 DEF HeartbeatDue, WorldTyped, StateTyped
  <2>3. WorldTyped'
    BY <2>1, <2>2 DEF WorldTyped
  <2>4. overdue' \in BOOLEAN
    BY <2>1
  <2>5. StateTyped'
    <3>1. age' \in 0..Stall /\ last' \in {Null} \cup Content \cup Failure
      BY <2>1, Intervals DEF StateTyped
    <3>2. healthy' \in BOOLEAN /\ failed' \in BOOLEAN /\ changed' \in BOOLEAN
      BY <2>1, Zenon DEF StateTyped
    <3>. QED BY <2>4, <3>1, <3>2 DEF StateTyped
  <2>6. PollTyped'
    BY <2>1, FaultTyped DEF PollTyped
  <2>. QED BY <2>1, <2>3, <2>5, <2>6, <1>v, <1>p
<1>15. CASE UNCHANGED vars
  BY <1>15, <1>w, <1>s, <1>v, <1>p DEF vars, world, state, locals, PollTyped
<1>. QED BY <1>1, <1>2, <1>3, <1>4, <1>5, <1>6, <1>7, <1>8, <1>9, <1>10, <1>11, <1>12,
            <1>13, <1>14, <1>15, Intervals DEF Next, PollStep

LEMMA InitTypeOK == Init => TypeOK
<1>. SUFFICES ASSUME Init PROVE TypeOK
  OBVIOUS
<1>1. history \in Seq(Entry) /\ Len(history) = 1
  <2>1. PICK c \in Content : history = <<[what |-> c, own |-> FALSE]>>
    BY DEF Init
  <2>2. [what |-> c, own |-> FALSE] \in Entry
    BY DEF Entry
  <2>. QED BY <2>1, <2>2
<1>2. WorldTyped
  BY <1>1, DaemonAssumption DEF Init, WorldTyped
<1>s. StateTyped
  BY Zeros DEF Init, StateTyped
<1>3. PollTyped /\ SweepsTyped
  BY DaemonAssumption DEF Init, None, PollTyped, SweepsTyped
<1>. QED BY <1>2, <1>s, <1>3, TypeParts

-----------------------------------------------------------------------------
(***************************************************************************)
(* The theorems.                                                           *)
(***************************************************************************)

\* The inductive invariant of the daemon: what the file says is what the
\* daemon last published, a poll that ends without a snapshot has failed to
\* write one, and a sweep's result is applied before the sweep runs again.
THEOREM DaemonSafety == Spec => [](PollInv /\ SweepInv)
<1>1. Init => PollInv /\ SweepInv
  BY InitPollInv, InitSweepInv
<1>2. PollInv /\ SweepInv /\ [Next]_vars => (PollInv /\ SweepInv)'
  BY NextPollInv, NextSweepInv
<1>. QED BY <1>1, <1>2, PTL DEF Spec

\* Every variable of the daemon keeps its type.
THEOREM DaemonTypeCorrect == Spec => []TypeOK
<1>1. TypeOK /\ PollInv /\ [Next]_vars => TypeOK'
  BY NextTypeOK
<1>. QED BY <1>1, InitTypeOK, DaemonSafety, PTL DEF Spec

\* The snapshot file only ever holds a committed content or an explicit
\* failure, and never one older than it has shown before, through own and
\* foreign commits, faults of every kind and restarts (daemon.ts, the whole
\* poll loop).
THEOREM DaemonImplementsFeed == Spec => FeedKept
<1>1. Init => Promise!FeedInit
  BY InitPromise
<1>2. PollInv /\ [Next]_vars => [Promise!FeedNext]_(Promise!FeedVars)
  BY StepPromise
<1>. QED BY <1>1, <1>2, DaemonSafety, PTL DEF Spec, FeedKept, Promise!FeedSpec

\* Between two polls the file is younger than the heartbeat unless the last
\* poll failed to write (maybeHeartbeat).
THEOREM FreshBetweenPolls == Spec => []FreshAfterGoodPoll
<1>1. PollInv => FreshAfterGoodPoll
  BY DEF PollInv, WriteInv
<1>. QED BY <1>1, DaemonSafety, PTL

\* A sweep's result is applied before the sweep can run again and overwrite
\* it (maintain).
THEOREM ResultsKept == Spec => []NoResultOverwritten
<1>1. SweepInv => NoResultOverwritten
  BY DEF SweepInv
<1>. QED BY <1>1, DaemonSafety, PTL

\* However long the machine slept, publication is reported overdue only by a
\* poll that failed to write (checkPublishOverdue).
THEOREM OverdueNeedsFailure == Spec => StallAloneNeverReports
<1>1. PollInv /\ [Next]_vars => [overdue' /\ ~overdue => failed']_vars
  <2>. SUFFICES ASSUME PollInv, [Next]_vars, ~(UNCHANGED vars), overdue', ~overdue
                PROVE  failed'
    OBVIOUS
  <2>1. CASE Waiting
    BY <2>1, WaitingIsQuiet DEF Quiet, PollInv
  <2>2. CASE Crash
    BY <2>2 DEF Crash
  <2>3. CASE OpenFails \/ ReadDataVersionFails \/ ReadProjectionFails
    BY <2>3, FailureFacts
  <2>4. CASE PublishHealthy
    BY <2>4, PublishHealthyFacts DEF PollInv
  <2>5. CASE Finish
    BY <2>5, FinishFacts DEF PollInv
  <2>. QED BY <2>1, <2>2, <2>3, <2>4, <2>5, NextCases
<1>. QED BY <1>1, DaemonSafety, PTL DEF Spec, StallAloneNeverReports
=============================================================================
