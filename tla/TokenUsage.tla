----------------------------- MODULE TokenUsage -----------------------------
(***************************************************************************)
(* The token-usage collector (src/src/core/token-usage.ts) and the file it *)
(* publishes: a total asked for on one side of midnight and answered on    *)
(* the other, a clock set back, a total corrected downwards, writes that   *)
(* fail, restarts that start from the file.                                *)
(*                                                                         *)
(* An instant is a number, and so are the days and half hours it falls in. *)
(* What agentsview prints is a total or a failure.  The bound of 96 points *)
(* a curve is left out: a day has at most 50 half hours.  So are the day,  *)
(* total and instant of the last answer: nothing here reads them again.    *)
(***************************************************************************)
EXTENDS Naturals, SequencesExt, FiniteSetsExt

CONSTANTS
    DayLength, BucketLength,   \* in instants; days begin with a bucket
    SampleLimit,   \* TOKEN_USAGE_SAMPLE_LIMIT
    Missing,       \* no curves, no file
    MaxInstant,    \* bound: the last instant
    MaxTotal,      \* bound: tokens a day
    MaxMishaps     \* bound: clocks set back, failed writes and restarts

ASSUME TokenUsageAssumption ==
    /\ {DayLength, BucketLength, SampleLimit} \subseteq Nat \ {0}
    /\ {MaxInstant, MaxTotal, MaxMishaps} \subseteq Nat
    /\ Missing \notin Nat

VARIABLES
    clock,
    usage,         \* state.snapshot
    published,     \* the file
    written,       \* lastWrittenJson
    mishaps

tokenVars == <<clock, usage, published, written, mishaps>>

Time == 0..MaxInstant
DayOf(t) == t \div DayLength
Days == 0..DayOf(MaxInstant)

EmptySnapshot == [unavailable |-> TRUE, samples |-> <<>>, curves |-> Missing]

-----------------------------------------------------------------------------
(***************************************************************************)
(* The day curves.                                                         *)
(***************************************************************************)
\* The members of a finite set of numbers, in order.
InOrder(S) == [k \in 1..Cardinality(S) |-> CHOOSE n \in S : Cardinality({m \in S : m <= n}) = k]

\* The latest point of each half hour.
RetainLatest(points) ==
    LET Kept(i) == \/ i = Len(points)
                   \/ points[i].at \div BucketLength # points[i + 1].at \div BucketLength
        kept == InOrder({i \in DOMAIN points : Kept(i)})
    IN  [k \in DOMAIN kept |-> points[kept[k]]]

TotalOfLast(points) == IF points = <<>> THEN 0 ELSE Last(points).total

\* A day is extended with its running max; a new one turns the old into
\* yesterday if it was the day before.  A repeated or stepped-back instant
\* is dropped.
AppendDayCurvePoint(curves, day, at, total) ==
    IF curves # Missing /\ curves.today.day = day
    THEN LET points == curves.today.points
         IN  IF points # <<>> /\ at <= Last(points).at THEN curves
             ELSE [today |-> [day |-> day, points |-> RetainLatest(Append(points,
                      [at |-> at, total |-> Max({total, TotalOfLast(points)})]))],
                   yesterday |-> curves.yesterday]
    ELSE [today |-> [day |-> day, points |-> <<[at |-> at, total |-> total]>>],
          yesterday |-> IF curves # Missing /\ curves.today.day + 1 = day
                           /\ curves.today.points # <<>>
                        THEN curves.today ELSE Missing]

\* Mutant: recovered points are not raised to the running max.
TotalAsRead(seen, at) == Max({p.total : p \in {q \in seen : q.at = at}})
TotalRaised(seen, at) == Max({p.total : p \in {q \in seen : q.at <= at}})

\* Retained samples fill the half hours the curve lacks: those before its
\* end that fit beneath the next point.  All is put in order again, and
\* raised to the running max.
RecoverActiveDayCurve(curves, day, samples) ==
    LET points == curves.today.points
        Fits(s) == /\ s.day = day /\ points # <<>> /\ s.at < Last(points).at
                   /\ s.total <= points[Min({i \in DOMAIN points : points[i].at >= s.at})].total
        seen == ToSet(points) \cup {[at |-> s.at, total |-> s.total] :
                                       s \in {r \in ToSet(samples) : Fits(r)}}
        order == InOrder({p.at : p \in seen})
    IN  IF curves.today.day # day THEN curves
        ELSE [today |-> [day |-> day, points |-> RetainLatest([i \in DOMAIN order |->
                            [at |-> order[i], total |-> TotalRaised(seen, order[i])]])],
              yesterday |-> curves.yesterday]

\* A seeded curve passes, becomes yesterday, or is dropped.
ReconcileSeeded(curves, day) ==
    IF curves = Missing \/ curves.today.day = day THEN curves
    ELSE IF curves.today.day + 1 = day
    THEN [today |-> [day |-> day, points |-> <<>>], yesterday |-> curves.today]
    ELSE Missing

\* parseTokenUsageSnapshot, as far as a snapshot of this shape can fail it.
Increasing(points) ==
    \A i \in 2..Len(points) : /\ points[i - 1].at < points[i].at
                              /\ points[i - 1].total <= points[i].total
Accepted(snapshot) ==
    /\ Len(snapshot.samples) <= SampleLimit
    /\ snapshot.curves # Missing =>
          /\ Increasing(snapshot.curves.today.points)
          /\ snapshot.curves.yesterday # Missing => Increasing(snapshot.curves.yesterday.points)

-----------------------------------------------------------------------------
(***************************************************************************)
(* The collector.                                                          *)
(***************************************************************************)
Seeded == [unavailable |-> published.unavailable, samples |-> published.samples,
           curves |-> ReconcileSeeded(published.curves, DayOf(clock'))]

\* Mutant: the write guard starts from the reconciled state.
SeedFromState(readable) ==
    /\ usage' = (IF readable THEN Seeded ELSE EmptySnapshot)
    /\ written' = (IF readable THEN Seeded ELSE Missing)
\* A collector is made: from the file, if it can be read.  The write guard
\* starts from the bytes on the disk.
Seed(readable) ==
    /\ usage' = (IF readable THEN Seeded ELSE EmptySnapshot)
    /\ written' = (IF readable THEN published ELSE Missing)

\* There is no file yet, or one of a build that kept samples but no curves.
TokenInit ==
    /\ clock = 0 /\ mishaps = 0
    /\ \/ published = Missing /\ usage = EmptySnapshot /\ written = Missing
       \/ \E total \in 0..MaxTotal :
             LET sample == [at |-> 0, total |-> total, day |-> 0]
             IN  /\ published = [unavailable |-> FALSE, samples |-> <<sample>>, curves |-> Missing]
                 /\ usage = published /\ written = published

Mishap == mishaps < MaxMishaps /\ mishaps' = mishaps + 1

Restart(t) ==
    /\ Mishap
    /\ t >= clock /\ clock' = t
    /\ \E readable \in BOOLEAN :
          /\ readable => published # Missing /\ Accepted(published)
          /\ Seed(readable)
    /\ UNCHANGED published

Tick == /\ clock < MaxInstant /\ clock' = clock + 1
        /\ UNCHANGED <<usage, published, written, mishaps>>
SetBack(t) == /\ Mishap
              /\ t < clock /\ clock' = t
              /\ UNCHANGED <<usage, published, written>>

\* Only what differs from the last write is written.
Publish ==
    \/ usage' = written /\ UNCHANGED <<published, written, mishaps>>
    \/ /\ usage' # written
       /\ published' = usage' /\ written' = usage' /\ UNCHANGED mishaps
    \/ /\ usage' # written /\ Mishap
       /\ UNCHANGED <<published, written>>

\* pollNow.  Nothing else touches the collector while a run of the helper is
\* out, so a poll is one step; the day was read before the run, and the run
\* is over within the instant or in the next.
AskedDay == {DayOf(t) : t \in {u \in Time : u = clock \/ u + 1 = clock}}

TotalUnknown ==
    /\ usage' = [unavailable |-> TRUE, samples |-> usage.samples, curves |-> usage.curves]
    /\ Publish
    /\ UNCHANGED clock

\* An observation the curve did not take joins no ring either.
Ring(samples, sample) ==
    LET all == Append(samples, sample)
    IN  IF Len(all) > SampleLimit THEN Tail(all) ELSE all
TotalKnown(asked, total) ==
    LET appended == AppendDayCurvePoint(usage.curves, asked, clock, total)
        sample   == [at |-> clock, total |-> total, day |-> asked]
    IN  /\ usage' = [unavailable |-> FALSE,
                     samples |-> IF appended # usage.curves THEN Ring(usage.samples, sample)
                                                            ELSE usage.samples,
                     curves |-> RecoverActiveDayCurve(appended, asked, usage.samples)]
        /\ Publish
        /\ UNCHANGED clock

UsagePoll ==
    \/ TotalUnknown
    \/ \E asked \in AskedDay, total \in 0..MaxTotal : TotalKnown(asked, total)
TokenNext == Tick \/ (\E t \in Time : SetBack(t) \/ Restart(t)) \/ UsagePoll

TokenSpec == TokenInit /\ [][TokenNext]_tokenVars

-----------------------------------------------------------------------------
(***************************************************************************)
(* Properties.                                                             *)
(***************************************************************************)
Point == [at : Time, total : 0..MaxTotal]
IsCurve(c) == c.day \in Days /\ \A i \in DOMAIN c.points : c.points[i] \in Point
IsSnapshot(s) ==
    /\ s.unavailable \in BOOLEAN
    /\ \A i \in DOMAIN s.samples : s.samples[i] \in [at : Time, total : 0..MaxTotal, day : Days]
    /\ s.curves # Missing => /\ IsCurve(s.curves.today)
                             /\ s.curves.yesterday # Missing => IsCurve(s.curves.yesterday)
TokenTypeOK ==
    /\ clock \in Time /\ IsSnapshot(usage)
    /\ \A s \in {published, written} \ {Missing} : IsSnapshot(s)
    /\ mishaps \in 0..MaxMishaps

YesterdayBeforeToday(s) ==
    s.curves # Missing /\ s.curves.yesterday # Missing =>
        s.curves.yesterday.day + 1 = s.curves.today.day

\* What the collector would publish its reader accepts, and yesterday's
\* curve is that of the day before today's: whatever the clock, the answers,
\* the restarts and the samples recovered did to it.
CurvesReadable == Accepted(usage) /\ YesterdayBeforeToday(usage)

\* What the collector takes to be in the file is what is there: a state the
\* file lacks, whether a write failed or a seed had to be reconciled, is
\* written by the next poll, through however long an outage of the helper.
GuardKnowsTheFile == written # Missing => written = published
=============================================================================
