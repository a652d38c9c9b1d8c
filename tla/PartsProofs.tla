------------------------------- MODULE PartsProofs ---------------------------
(***************************************************************************)
(* Proofs about the parts that run on their own: the migrations, native    *)
(* Codex children, the two usage collectors, and the hands on the board.   *)
(***************************************************************************)
EXTENDS Touch, Migrations, CodexChildren, TokenUsage, Quota, NaturalSetTheorems

-----------------------------------------------------------------------------
(****************************************************************************)
(* Migrations: no upgrade loses a column or its values, for any number of  *)
(* interrupted inits.                                                      *)
(****************************************************************************)

\* Columns that may be there before the version that brings them.
Early(v) == IF v = 14 THEN {"done_since"} ELSE
            IF v = 16 THEN {"viewed_since", "ended_at"} ELSE {}

\* The version below which no init is when it reaches a step.
Floor == [pre5 |-> 0, to5 |-> 4, post5 |-> 5, to8 |-> 7, post8 |-> 8, to10 |-> 9,
          post10 |-> 10, to12 |-> 11, to13 |-> 12, to14 |-> 13, to15 |-> 14,
          to16 |-> 15, to17 |-> 16]

Shaped == /\ Shape(version) \ columns \subseteq (IF version = 7 THEN {"model"} ELSE {})
          /\ columns \ Shape(version) \subseteq Early(version)

\* A step that finds its init's version behind its floor would copy or alter
\* a table of another shape: the stamp is the version read or the floor,
\* whichever is higher.
Placed == pc # "idle" => /\ read < Latest
                         /\ version = IF read < Floor[pc] THEN Floor[pc] ELSE read

MigrationsInv == /\ MigrationsTypeOK
        /\ Shaped /\ Placed
        /\ intact \subseteq columns
        /\ had \ intact \subseteq {"activity_line"}

-----------------------------------------------------------------------------
LEMMA BornValues ==
    /\ Column = {"base", "ghostty_terminal_id", "background_outstanding", "transcript_path",
                 "model", "origin", "unread_since", "acked_at", "status_since",
                 "origin_parent_ref", "activity_line", "done_since", "viewed_since", "ended_at"}
    /\ \A c \in Column :
          /\ Born[c] \in {1, 2, 3, 4, 6, 7, 9, 11, 15, 17}
          /\ Born[c] = 6 <=> c = "model"
          /\ Born[c] = 15 <=> c = "done_since"
          /\ Born[c] = 17 <=> c \in {"viewed_since", "ended_at"}
BY DEF Column, Born

LEMMA InitInv == MigrationsInit => MigrationsInv
<1> SUFFICES ASSUME MigrationsInit PROVE MigrationsInv
  OBVIOUS
<1>0. PICK early \in SUBSET Column : columns \subseteq Shape(version) \cup early
  BY BornValues DEF MigrationsInit, Found
<1>1. MigrationsTypeOK
  BY <1>0, MigrationsAssumption DEF MigrationsInit, MigrationsTypeOK, Shape, Latest
<1>2. Shaped
  BY DEF MigrationsInit, Shaped, Found, Early
<1> QED BY <1>1, <1>2 DEF MigrationsInv, Placed, MigrationsInit

Stays == UNCHANGED <<had, orphan, read, crashes>>

\* A transaction that was not due.
LEMMA SkipKeeps ==
    ASSUME MigrationsInv, NEW next \in Steps, pc # "idle", pc' = next, UNCHANGED database, Stays,
           version = IF read < Floor[next] THEN Floor[next] ELSE read
    PROVE  MigrationsInv'
<1>1. Placed'
  <2>1. read' = read /\ version' = version /\ read < Latest
    BY DEF MigrationsInv, Placed, database, Stays
  <2> QED BY <2>1 DEF Placed
<1> QED BY <1>1 DEF MigrationsInv, MigrationsTypeOK, Shaped, database, Stays

\* A transaction that was rolled back.
LEMMA FailureKeeps ==
    ASSUME MigrationsInv, pc' = "idle", UNCHANGED database, UNCHANGED <<had, orphan, read>>,
           crashes' \in 0..MaxCrashes
    PROVE  MigrationsInv'
BY DEF MigrationsInv, MigrationsTypeOK, Shaped, Placed, database

\* A transaction that committed: the shape is that of the version it stamps,
\* and holds every column that still counts.
LEMMA CommitKeeps ==
    ASSUME MigrationsInv, NEW next \in Steps \cup {"idle"}, NEW to \in 0..Latest, NEW shape \in SUBSET Column,
           pc # "idle", pc' = next, Commit(to, shape), Stays,
           intact \subseteq shape, Shape(to) \subseteq shape, shape \ Shape(to) \subseteq Early(to),
           next # "idle" => to = Floor[next] /\ read < to
    PROVE  MigrationsInv'
<1>1. MigrationsTypeOK'
  BY DEF MigrationsInv, MigrationsTypeOK, Commit, Stays, Latest
<1>2. Shaped'
  BY DEF Shaped, Commit, Early, Shape
<1>3. Placed'
  <2>1. read' = read /\ version' = to /\ read < Latest
    BY DEF MigrationsInv, Placed, Commit, Stays
  <2> QED BY <2>1 DEF Placed
<1>4. intact' = intact
  BY DEF Commit
<1> QED BY <1>1, <1>2, <1>3, <1>4 DEF MigrationsInv, Commit, Stays


\* The three ways a transaction can go, for what its commit would leave.
Outcome(next, to, shape) ==
    \/ to <= read /\ pc' = next /\ UNCHANGED database
    \/ read < to /\ pc' = next /\ Commit(to, shape)
    \/ read < to /\ pc' = "idle" /\ UNCHANGED database

LEMMA TransactionKeeps ==
    ASSUME MigrationsInv, NEW next \in Steps, NEW to \in 0..Latest, NEW shape, pc # "idle", Stays,
           Outcome(next, to, shape), to = Floor[next],
           to <= read => version = read,
           read < to => /\ shape \subseteq Column /\ intact \subseteq shape
                        /\ Shape(to) \subseteq shape /\ shape \ Shape(to) \subseteq Early(to)
    PROVE  MigrationsInv'
<1>1. CASE to <= read /\ pc' = next /\ UNCHANGED database
  <2>1. read \in Nat /\ to \in Nat
    BY DEF MigrationsInv, MigrationsTypeOK, Latest
  <2> QED BY <1>1, <2>1, SkipKeeps
<1>2. CASE read < to /\ pc' = next /\ Commit(to, shape)
  BY <1>2, CommitKeeps
<1>3. CASE read < to /\ pc' = "idle" /\ UNCHANGED database
  <2>1. crashes' \in 0..MaxCrashes /\ UNCHANGED <<had, orphan, read>>
    BY DEF Stays, MigrationsInv, MigrationsTypeOK
  <2> QED BY <1>3, <2>1, FailureKeeps
<1> QED BY <1>1, <1>2, <1>3 DEF Outcome

-----------------------------------------------------------------------------
LEMMA StepInv == MigrationsInv /\ [MigrationsNext]_migrationsVars => MigrationsInv'
<1> SUFFICES ASSUME MigrationsInv, MigrationsNext PROVE MigrationsInv'
  BY DEF MigrationsInv, MigrationsTypeOK, Shaped, Placed, migrationsVars, database
<1> USE BornValues
<1>1. CASE StartInit
  BY <1>1 DEF StartInit, MigrationsInv, MigrationsTypeOK, Shaped, Placed, Floor, Steps, Latest, database
<1>2. CASE Crash
  <2>1. pc' = "idle" /\ UNCHANGED database /\ UNCHANGED <<had, orphan, read>> /\ crashes' \in 0..MaxCrashes
    BY <1>2, MigrationsAssumption DEF Crash, MigrationsInv, MigrationsTypeOK
  <2> QED BY <2>1, FailureKeeps
<1>3. CASE MigratePreV5
  <2> DEFINE added == {c \in Column : read < Born[c] /\ 1 <= Born[c] /\ Born[c] <= 4}
  <2>1. pc = "pre5" /\ Stays /\ Outcome("to5", 4, columns \cup added)
    BY <1>3 DEF MigratePreV5, Alter, Transaction, Outcome, Stays, MigrationsInv, MigrationsTypeOK
  <2>2. 4 <= read => version = read
    BY <2>1 DEF MigrationsInv, Placed, Floor, MigrationsTypeOK
  <2>3. read < 4 => columns \cup added = Shape(4) /\ intact \subseteq columns
    BY <2>1 DEF MigrationsInv, Placed, Shaped, Shape, Floor, Early, MigrationsTypeOK
  <2> HIDE DEF added
  <2> QED BY <2>1, <2>2, <2>3, TransactionKeeps DEF Steps, Floor, Latest, Shape
<1>4. CASE MigrateToV5
  <2>1. pc = "to5" /\ Stays /\ Outcome("post5", 5, Shape(4))
    BY <1>4 DEF MigrateToV5, Rebuild, Transaction, Outcome, Stays, MigrationsInv, MigrationsTypeOK
  <2>2. 5 <= read => version = read
    BY <2>1 DEF MigrationsInv, Placed, Floor, MigrationsTypeOK
  <2>3. read < 5 => Shape(4) = Shape(5) /\ intact \subseteq Shape(4)
    BY <2>1 DEF MigrationsInv, Placed, Shaped, Shape, Floor, Early, MigrationsTypeOK
  <2> QED BY <2>1, <2>2, <2>3, TransactionKeeps DEF Steps, Floor, Latest, Shape
<1>5. CASE MigratePostV5
  <2> DEFINE added == {c \in Column : read < Born[c] /\ 6 <= Born[c] /\ Born[c] <= 7}
  <2>1. pc = "post5" /\ Stays /\ Outcome("to8", 7, columns \cup added)
    BY <1>5 DEF MigratePostV5, Alter, Transaction, Outcome, Stays, MigrationsInv, MigrationsTypeOK
  <2>2. 7 <= read => version = read
    BY <2>1 DEF MigrationsInv, Placed, Floor, MigrationsTypeOK
  <2>3. read < 7 => columns \cup added = Shape(7) /\ intact \subseteq columns
    BY <2>1 DEF MigrationsInv, Placed, Shaped, Shape, Floor, Early, MigrationsTypeOK
  <2> HIDE DEF added
  <2> QED BY <2>1, <2>2, <2>3, TransactionKeeps DEF Steps, Floor, Latest, Shape
<1>6. CASE MigrateToV8
  <2>1. pc = "to8" /\ Stays /\ Outcome("post8", 8, columns \cup {"model"})
    BY <1>6 DEF MigrateToV8, Repair, Transaction, Outcome, Stays, MigrationsInv, MigrationsTypeOK
  <2>2. 8 <= read => version = read
    BY <2>1 DEF MigrationsInv, Placed, Floor, MigrationsTypeOK
  <2>3. read < 8 => columns \cup {"model"} = Shape(8) /\ intact \subseteq columns
    BY <2>1 DEF MigrationsInv, Placed, Shaped, Shape, Floor, Early, MigrationsTypeOK
  <2> QED BY <2>1, <2>2, <2>3, TransactionKeeps DEF Steps, Floor, Latest, Shape
<1>7. CASE MigratePostV8
  <2> DEFINE added == {c \in Column : read < Born[c] /\ 9 <= Born[c] /\ Born[c] <= 9}
  <2>1. pc = "post8" /\ Stays /\ Outcome("to10", 9, columns \cup added)
    BY <1>7 DEF MigratePostV8, Alter, Transaction, Outcome, Stays, MigrationsInv, MigrationsTypeOK
  <2>2. 9 <= read => version = read
    BY <2>1 DEF MigrationsInv, Placed, Floor, MigrationsTypeOK
  <2>3. read < 9 => columns \cup added = Shape(9) /\ intact \subseteq columns
    BY <2>1 DEF MigrationsInv, Placed, Shaped, Shape, Floor, Early, MigrationsTypeOK
  <2> HIDE DEF added
  <2> QED BY <2>1, <2>2, <2>3, TransactionKeeps DEF Steps, Floor, Latest, Shape
<1>8. CASE MigrateToV10
  <2>1. pc = "to10" /\ Stays /\ Outcome("post10", 10, Shape(9))
    BY <1>8 DEF MigrateToV10, Rebuild, Transaction, Outcome, Stays, MigrationsInv, MigrationsTypeOK
  <2>2. 10 <= read => version = read
    BY <2>1 DEF MigrationsInv, Placed, Floor, MigrationsTypeOK
  <2>3. read < 10 => Shape(9) = Shape(10) /\ intact \subseteq Shape(9)
    BY <2>1 DEF MigrationsInv, Placed, Shaped, Shape, Floor, Early, MigrationsTypeOK
  <2> QED BY <2>1, <2>2, <2>3, TransactionKeeps DEF Steps, Floor, Latest, Shape
<1>9. CASE MigratePostV10
  <2> DEFINE added == {c \in Column : read < Born[c] /\ 11 <= Born[c] /\ Born[c] <= 11}
  <2>1. pc = "post10" /\ Stays /\ Outcome("to12", 11, columns \cup added)
    BY <1>9 DEF MigratePostV10, Alter, Transaction, Outcome, Stays, MigrationsInv, MigrationsTypeOK
  <2>2. 11 <= read => version = read
    BY <2>1 DEF MigrationsInv, Placed, Floor, MigrationsTypeOK
  <2>3. read < 11 => columns \cup added = Shape(11) /\ intact \subseteq columns
    BY <2>1 DEF MigrationsInv, Placed, Shaped, Shape, Floor, Early, MigrationsTypeOK
  <2> HIDE DEF added
  <2> QED BY <2>1, <2>2, <2>3, TransactionKeeps DEF Steps, Floor, Latest, Shape
<1>10. CASE MigrateToV12
  <2>1. pc = "to12" /\ Stays /\ Outcome("to13", 12, Shape(11))
    BY <1>10 DEF MigrateToV12, Rebuild, Transaction, Outcome, Stays, MigrationsInv, MigrationsTypeOK
  <2>2. 12 <= read => version = read
    BY <2>1 DEF MigrationsInv, Placed, Floor, MigrationsTypeOK
  <2>3. read < 12 => Shape(11) = Shape(12) /\ intact \subseteq Shape(11)
    BY <2>1 DEF MigrationsInv, Placed, Shaped, Shape, Floor, Early, MigrationsTypeOK
  <2> QED BY <2>1, <2>2, <2>3, TransactionKeeps DEF Steps, Floor, Latest, Shape
<1>11. CASE MigrateToV13
  <2>1. pc = "to13" /\ Stays /\ Outcome("to14", 13, Shape(11))
    BY <1>11 DEF MigrateToV13, Rebuild, Transaction, Outcome, Stays, MigrationsInv, MigrationsTypeOK
  <2>2. 13 <= read => version = read
    BY <2>1 DEF MigrationsInv, Placed, Floor, MigrationsTypeOK
  <2>3. read < 13 => Shape(11) = Shape(13) /\ intact \subseteq Shape(11)
    BY <2>1 DEF MigrationsInv, Placed, Shaped, Shape, Floor, Early, MigrationsTypeOK
  <2> QED BY <2>1, <2>2, <2>3, TransactionKeeps DEF Steps, Floor, Latest, Shape
<1>12. CASE MigrateToV15
  <2>1. pc = "to15" /\ Stays /\ Outcome("to16", 15, columns \cup {"done_since"})
    BY <1>12 DEF MigrateToV15, Repair, Transaction, Outcome, Stays, MigrationsInv, MigrationsTypeOK
  <2>2. 15 <= read => version = read
    BY <2>1 DEF MigrationsInv, Placed, Floor, MigrationsTypeOK
  <2>3. read < 15 => columns \cup {"done_since"} = Shape(15) /\ intact \subseteq columns
    BY <2>1 DEF MigrationsInv, Placed, Shaped, Shape, Floor, Early, MigrationsTypeOK
  <2> QED BY <2>1, <2>2, <2>3, TransactionKeeps DEF Steps, Floor, Latest, Shape
<1>13. CASE MigrateToV16
  <2>1. pc = "to16" /\ Stays /\ Outcome("to17", 16, Shape(15))
    BY <1>13 DEF MigrateToV16, Rebuild, Transaction, Outcome, Stays, MigrationsInv, MigrationsTypeOK
  <2>2. 16 <= read => version = read
    BY <2>1 DEF MigrationsInv, Placed, Floor, MigrationsTypeOK
  <2>3. read < 16 => Shape(15) = Shape(16) /\ intact \subseteq Shape(15)
    BY <2>1 DEF MigrationsInv, Placed, Shaped, Shape, Floor, Early, MigrationsTypeOK
  <2> QED BY <2>1, <2>2, <2>3, TransactionKeeps DEF Steps, Floor, Latest, Shape
<1>14. CASE MigrateToV14
  <2>1. CASE read < 14
    <3>1. pc = "to14" /\ version = 13 /\ columns = Shape(13) /\ Shape(13) = Shape(14)
      BY <1>14, <2>1 DEF MigrateToV14, MigrationsInv, Placed, Shaped, Shape, Floor, Early, MigrationsTypeOK
    <3>2. /\ version' = 14 /\ intact' = intact \ {"activity_line"} /\ pc' = "to15"
          /\ UNCHANGED <<columns, had, orphan, read, crashes>>
      BY <1>14, <2>1 DEF MigrateToV14
    <3>3. Shaped'
      BY <3>1, <3>2 DEF Shaped
    <3>4. Placed'
      BY <2>1, <3>1, <3>2 DEF MigrationsInv, MigrationsTypeOK, Placed, Floor, Latest
    <3>5. MigrationsTypeOK'
      BY <3>2 DEF MigrationsInv, MigrationsTypeOK, Steps, Latest
    <3> QED BY <3>2, <3>3, <3>4, <3>5 DEF MigrationsInv
  <2>2. CASE ~(read < 14)
    <3>1. pc = "to14" /\ Stays /\ pc' = "to15" /\ UNCHANGED database
      BY <1>14, <2>2 DEF MigrateToV14, Stays, database
    <3>2. version = IF read < Floor["to15"] THEN Floor["to15"] ELSE read
      BY <2>2, <3>1 DEF MigrationsInv, Placed, Floor, MigrationsTypeOK
    <3> QED BY <3>1, <3>2, SkipKeeps DEF Steps
  <2> QED BY <2>1, <2>2
<1>15. CASE MigrateToV17
  <2> DEFINE shape == columns \cup {"viewed_since", "ended_at"}
  <2>1. pc = "to17" /\ Stays /\ pc' = "idle" /\ (UNCHANGED database \/ (read < 17 /\ Commit(17, shape)))
    BY <1>15 DEF MigrateToV17, Repair, Transaction, Stays
  <2>2. CASE UNCHANGED database
    <3>1. crashes' \in 0..MaxCrashes /\ UNCHANGED <<had, orphan, read>>
      BY <2>1 DEF Stays, MigrationsInv, MigrationsTypeOK
    <3> QED BY <2>1, <2>2, <3>1, FailureKeeps
  <2>3. CASE read < 17 /\ Commit(17, shape)
    <3>1. shape = Shape(17) /\ intact \subseteq shape /\ Shape(17) \in SUBSET Column
      BY <2>1, <2>3 DEF MigrationsInv, Placed, Shaped, Shape, Floor, Early, MigrationsTypeOK
    <3>2. pc # "idle" /\ pc' = "idle" /\ Stays
      BY <2>1
    <3>3. Commit(17, Shape(17)) /\ intact \subseteq Shape(17) /\ 17 \in 0..Latest
      BY <2>3, <3>1 DEF Latest
    <3> HIDE DEF shape
    <3> QED BY <3>1, <3>2, <3>3, CommitKeeps
  <2> QED BY <2>1, <2>2, <2>3
<1> QED BY <1>1, <1>2, <1>3, <1>4, <1>5, <1>6, <1>7, <1>8, <1>9, <1>10, <1>11, <1>12, <1>13, <1>14, <1>15 DEF MigrationsNext, Migrate

-----------------------------------------------------------------------------
LEMMA Inductive == MigrationsSpec => []MigrationsInv
<1> QED BY InitInv, StepInv, PTL DEF MigrationsSpec

\* Every state is typed.
THEOREM MigrationsTypeCorrect == MigrationsSpec => []MigrationsTypeOK
<1>1. MigrationsInv => MigrationsTypeOK
  BY DEF MigrationsInv
<1> QED BY <1>1, Inductive, PTL

\* For any number of interrupted inits, from any version the builds so far
\* have left: what openRegistryDatabase accepts is the whole latest table,
\* and no column it came with has lost a value but the activity line.
THEOREM UpgradesKeepTheRows == MigrationsSpec => []UpgradeKeepsTheRows
<1>1. MigrationsInv => UpgradeKeepsTheRows
  BY BornValues DEF MigrationsInv, MigrationsTypeOK, UpgradeKeepsTheRows, Shaped, Shape, Early, Latest
<1> QED BY <1>1, Inductive, PTL

-----------------------------------------------------------------------------
(****************************************************************************)
(* Native Codex children: a row that a hook deleted while a sweep was out  *)
(* is not brought back by that sweep.                                      *)
(****************************************************************************)

\* What the data version is there for: as long as it has not moved, on the
\* connection the sweep began on, no hook has deleted anything.
VersionInv ==
    sweep # Null => /\ sweep \in Sweep
                    /\ sweep.version # "moved" => sweep.gone = {}
TurnsInv == turn \in [Kid -> Rollout \cup {Null}]

LEMMA ChildrenInitInv == ChildrenInit => VersionInv /\ TurnsInv
  BY DEF ChildrenInit, VersionInv, TurnsInv

LEMMA IdleKeepsVersion ==
    ASSUME VersionInv, UNCHANGED sweep PROVE VersionInv'
  BY DEF VersionInv

LEMMA SeenKeepsVersion ==
    ASSUME VersionInv, NEW gone \in SUBSET Kid, NEW back \in SUBSET Kid, Seen(gone, back)
    PROVE  VersionInv'
<1>1. CASE sweep = Null
  BY <1>1 DEF Seen, VersionInv
<1>2. CASE sweep # Null
  <2>. DEFINE moved == IF sweep.version = "same" THEN "moved" ELSE sweep.version
              lost  == IF sweep.version = "reopened" THEN {} ELSE (sweep.gone \cup gone) \ back
  <2>1. sweep' = [sweep EXCEPT !.version = moved, !.gone = lost]
    BY <1>2 DEF Seen
  <2>2. sweep \in Sweep
    BY <1>2 DEF VersionInv
  <2>3. moved \in {"same", "moved", "reopened"} /\ lost \in SUBSET Kid
    BY <2>2 DEF Sweep
  <2>4. moved # "moved" => lost = {}
    BY <2>2 DEF Sweep
  <2>. HIDE DEF moved, lost
  <2>5. sweep' \in Sweep /\ sweep'.version = moved /\ sweep'.gone = lost
    BY <2>1, <2>2, <2>3 DEF Sweep
  <2>. QED BY <2>4, <2>5 DEF VersionInv
<1>. QED BY <1>1, <1>2

LEMMA DescendantsAreKids == ASSUME NEW k PROVE Descendants(k) \in SUBSET Kid
  BY DEF Descendants

LEMMA HooksKeepVersion ==
    ASSUME VersionInv, NEW k \in Kid, HookStart(k) \/ HookTouch(k) \/ HookStop(k)
    PROVE  VersionInv'
<1>1. CASE HookStart(k)
  BY <1>1, SeenKeepsVersion DEF HookStart, Commits
<1>2. CASE HookTouch(k)
  BY <1>2, SeenKeepsVersion DEF HookTouch, Commits
<1>3. CASE HookStop(k)
  <2>1. {k} \cup Descendants(k) \in SUBSET Kid
    BY DescendantsAreKids
  <2>. QED BY <1>3, <2>1, SeenKeepsVersion DEF HookStop, Commits
<1>. QED BY <1>1, <1>2, <1>3

LEMMA ReadKeepsVersion ==
    ASSUME VersionInv, TurnsInv, NEW k \in Kid, ReadRollout(k)
    PROVE  VersionInv'
<1>1. PICK seen \in Rollout \cup {Null} :
          sweep' = [sweep EXCEPT !.due = @ \ {k}, !.got[k] = seen]
  BY DEF ReadRollout, TurnsInv
<1>2. sweep \in Sweep
  BY DEF ReadRollout, VersionInv
<1>3. sweep' \in Sweep /\ sweep'.version = sweep.version /\ sweep'.gone = sweep.gone
  BY <1>1, <1>2 DEF Sweep
<1>. QED BY <1>2, <1>3 DEF VersionInv, ReadRollout

LEMMA BeginKeepsVersion == ASSUME BeginSweep PROVE VersionInv'
<1>1. sweep' = [version |-> "same", due |-> Listed, got |-> [k \in Kid |-> Null], gone |-> {}]
  BY DEF BeginSweep
<1>2. Listed \in SUBSET Kid
  BY DEF Listed
<1>3. sweep' \in Sweep
  BY <1>1, <1>2 DEF Sweep
<1>. QED BY <1>1, <1>3 DEF VersionInv

LEMMA ReopenKeepsVersion == ASSUME VersionInv, Reopen PROVE VersionInv'
<1>1. sweep \in Sweep /\ sweep' = [sweep EXCEPT !.version = "reopened", !.gone = {}]
  BY DEF Reopen, VersionInv
<1>2. sweep' \in Sweep /\ sweep'.gone = {}
  BY <1>1 DEF Sweep
<1>. QED BY <1>2 DEF VersionInv

LEMMA TurnsKeepTypes ==
    ASSUME TurnsInv, NEW k \in Kid, NEW t \in Instant, TurnStarts(k, t) \/ TurnMoves(k, t)
    PROVE  TurnsInv'
<1>1. CASE TurnStarts(k, t)
  <2>1. [started |-> t, observed |-> t, working |-> TRUE] \in Rollout
    BY DEF Rollout
  <2>. QED BY <1>1, <2>1 DEF TurnStarts, TurnsInv
<1>2. CASE TurnMoves(k, t)
  <2>1. turn[k] \in Rollout
    BY <1>2 DEF TurnMoves, Working, TurnsInv
  <2>2. PICK working \in BOOLEAN :
            turn' = [turn EXCEPT ![k] = [started |-> turn[k].started, observed |-> t,
                                         working |-> working]]
    BY <1>2 DEF TurnMoves
  <2>3. [started |-> turn[k].started, observed |-> t, working |-> working] \in Rollout
    BY <2>1 DEF Rollout
  <2>. QED BY <2>2, <2>3 DEF TurnsInv
<1>. QED BY <1>1, <1>2

-----------------------------------------------------------------------------
LEMMA ChildrenStepInv ==
    VersionInv /\ TurnsInv /\ [ChildrenNext]_childrenVars => (VersionInv /\ TurnsInv)'
<1>. SUFFICES ASSUME VersionInv, TurnsInv, [ChildrenNext]_childrenVars
              PROVE  (VersionInv /\ TurnsInv)'
  OBVIOUS
<1>1. ASSUME NEW k \in Kid, NEW t \in Instant, TurnStarts(k, t) \/ TurnMoves(k, t)
      PROVE  (VersionInv /\ TurnsInv)'
  <2>1. UNCHANGED sweep
    BY <1>1 DEF TurnStarts, TurnMoves
  <2>. QED BY <1>1, <2>1, IdleKeepsVersion, TurnsKeepTypes
<1>2. ASSUME NEW k \in Kid, HookStart(k) \/ HookTouch(k) \/ HookStop(k)
      PROVE  (VersionInv /\ TurnsInv)'
  <2>1. UNCHANGED turn
    BY <1>2 DEF HookStart, HookTouch, HookStop, Commits, Seen
  <2>. QED BY <1>2, <2>1, HooksKeepVersion DEF TurnsInv
<1>3. ASSUME NEW k \in Kid, ReadRollout(k) PROVE (VersionInv /\ TurnsInv)'
  BY <1>3, ReadKeepsVersion DEF ReadRollout, TurnsInv
<1>4. CASE RootEnds \/ RootStarts
  <2>1. Seen(Kid, {}) \/ Seen({}, {})
    BY <1>4 DEF RootEnds, RootStarts, Commits
  <2>2. VersionInv'
    BY <2>1, SeenKeepsVersion
  <2>3. UNCHANGED turn
    BY <2>1 DEF Seen
  <2>. QED BY <2>2, <2>3 DEF TurnsInv
<1>5. CASE BeginSweep
  BY <1>5, BeginKeepsVersion DEF BeginSweep, TurnsInv
<1>6. CASE Reopen
  BY <1>6, ReopenKeepsVersion DEF Reopen, TurnsInv
<1>7. CASE ApplySweep
  BY <1>7 DEF ApplySweep, VersionInv, TurnsInv
<1>8. CASE UNCHANGED childrenVars
  BY <1>8 DEF childrenVars, VersionInv, TurnsInv
<1>. QED BY <1>1, <1>2, <1>3, <1>4, <1>5, <1>6, <1>7, <1>8 DEF ChildrenNext

\* A sweep that takes effect has missed no deletion.
LEMMA AppliedSweepMissedNothing ==
    ASSUME VersionInv, ApplySweep, kids' # kids
    PROVE  sweep.gone = {}
<1>1. PICK valid \in BOOLEAN : VersionHolds(valid) /\ (~valid => kids' = kids)
  BY DEF ApplySweep
<1>2. sweep # Null /\ sweep \in Sweep
  BY DEF ApplySweep, VersionInv
<1>3. sweep.version # "moved"
  BY <1>1, <1>2 DEF VersionHolds, Sweep
<1>. QED BY <1>2, <1>3 DEF VersionInv

\* A hook leaves the sweep out.
LEMMA SeenKeepsSweep ==
    ASSUME VersionInv, sweep # Null, NEW gone \in SUBSET Kid, NEW back \in SUBSET Kid,
           Seen(gone, back)
    PROVE  sweep' # Null
<1>. DEFINE moved == IF sweep.version = "same" THEN "moved" ELSE sweep.version
            lost  == IF sweep.version = "reopened" THEN {} ELSE (sweep.gone \cup gone) \ back
<1>1. sweep \in Sweep /\ sweep' = [sweep EXCEPT !.version = moved, !.gone = lost]
  BY DEF Seen, VersionInv
<1>2. moved \in {"same", "moved", "reopened"} /\ lost \in SUBSET Kid
  BY <1>1 DEF Sweep
<1>. HIDE DEF moved, lost
<1>3. sweep' \in Sweep
  BY <1>1, <1>2 DEF Sweep
<1>. QED BY <1>3, CodexChildrenAssumption

\* Only the application of a sweep ends it.
LEMMA StepKeepsStopped ==
    ASSUME VersionInv, TurnsInv, ChildrenNext, NEW k \in Kid,
           kids[k] = Null, kids'[k] # Null, sweep # Null, sweep' = Null
    PROVE  k \notin sweep.gone
<1>1. CASE ApplySweep
  BY <1>1, AppliedSweepMissedNothing
<1>2. ASSUME NEW j \in Kid, HookStart(j) \/ HookTouch(j) \/ HookStop(j) PROVE FALSE
  <2>1. {j} \cup Descendants(j) \in SUBSET Kid
    BY DescendantsAreKids
  <2>2. Seen({}, {j}) \/ Seen({}, {}) \/ Seen({j} \cup Descendants(j), {})
    BY <1>2 DEF HookStart, HookTouch, HookStop, Commits
  <2>. QED BY <2>1, <2>2, SeenKeepsSweep
<1>3. ASSUME RootEnds \/ RootStarts PROVE FALSE
  <2>1. Seen(Kid, {}) \/ Seen({}, {})
    BY <1>3 DEF RootEnds, RootStarts, Commits
  <2>. QED BY <2>1, SeenKeepsSweep
<1>. QED
  BY <1>1, <1>2, <1>3 DEF ChildrenNext, TurnStarts, TurnMoves, ReadRollout, BeginSweep, Reopen

\* A child whose row a hook deleted while a sweep was out is not registered
\* again by that sweep (syncCodexSubagents compares the data versions).
THEOREM StoppedChildrenStayGone == ChildrenSpec => StoppedStaysGone
<1>1. VersionInv /\ TurnsInv /\ [ChildrenNext]_childrenVars =>
          [\A k \in Kid : kids[k] = Null /\ kids'[k] # Null /\ sweep # Null /\ sweep' = Null
              => k \notin sweep.gone]_childrenVars
  BY StepKeepsStopped DEF childrenVars
<1>. QED BY <1>1, ChildrenInitInv, ChildrenStepInv, PTL DEF ChildrenSpec, StoppedStaysGone

-----------------------------------------------------------------------------
(****************************************************************************)
(* The usage collectors: the write guard of the token collector knows the  *)
(* file, no curve is labelled yesterday that is not of the day before, and *)
(* the quota collector keeps the accounts it knows in a file its reader    *)
(* accepts.                                                                *)
(****************************************************************************)

\* What a restart may find in the file is labelled as the state is.
LabelsInv == /\ YesterdayBeforeToday(usage)
             /\ published # Missing => YesterdayBeforeToday(published)
YesterdayIsTheDayBefore == YesterdayBeforeToday(usage)

-----------------------------------------------------------------------------
\* The three operations on curves keep the labels right.
LEMMA AppendKeepsLabels ==
    ASSUME NEW curves, NEW day, NEW at, NEW total,
           curves # Missing /\ curves.yesterday # Missing =>
               curves.yesterday.day + 1 = curves.today.day
    PROVE  LET new == AppendDayCurvePoint(curves, day, at, total)
           IN  new.yesterday # Missing => new.yesterday.day + 1 = new.today.day
<1>1. CASE curves # Missing /\ curves.today.day = day
  BY <1>1 DEF AppendDayCurvePoint
<1>2. CASE ~(curves # Missing /\ curves.today.day = day)
  BY <1>2 DEF AppendDayCurvePoint
<1>. QED BY <1>1, <1>2

LEMMA RecoverKeepsLabels ==
    ASSUME NEW curves, NEW day, NEW samples,
           curves.yesterday # Missing => curves.yesterday.day + 1 = curves.today.day
    PROVE  LET new == RecoverActiveDayCurve(curves, day, samples)
           IN  new.yesterday # Missing => new.yesterday.day + 1 = new.today.day
  BY DEF RecoverActiveDayCurve

LEMMA ReconcileKeepsLabels ==
    ASSUME NEW curves, NEW day,
           curves # Missing /\ curves.yesterday # Missing =>
               curves.yesterday.day + 1 = curves.today.day
    PROVE  LET new == ReconcileSeeded(curves, day)
           IN  new # Missing /\ new.yesterday # Missing =>
                   new.yesterday.day + 1 = new.today.day
  BY DEF ReconcileSeeded

-----------------------------------------------------------------------------
LEMMA PublishKeeps ==
    ASSUME GuardKnowsTheFile, LabelsInv, Publish, YesterdayBeforeToday(usage')
    PROVE  GuardKnowsTheFile' /\ LabelsInv'
  BY DEF Publish, GuardKnowsTheFile, LabelsInv, YesterdayBeforeToday

LEMMA TokenInitInv == TokenInit => GuardKnowsTheFile /\ LabelsInv
  BY DEF TokenInit, GuardKnowsTheFile, LabelsInv, YesterdayBeforeToday, EmptySnapshot

LEMMA TokenStepInv ==
    GuardKnowsTheFile /\ LabelsInv /\ [TokenNext]_tokenVars => (GuardKnowsTheFile /\ LabelsInv)'
<1>. SUFFICES ASSUME GuardKnowsTheFile, LabelsInv, [TokenNext]_tokenVars
              PROVE  (GuardKnowsTheFile /\ LabelsInv)'
  OBVIOUS
<1>1. CASE Tick
  BY <1>1 DEF Tick, GuardKnowsTheFile, LabelsInv, YesterdayBeforeToday
<1>2. ASSUME NEW t \in Time, SetBack(t) PROVE (GuardKnowsTheFile /\ LabelsInv)'
  BY <1>2 DEF SetBack, GuardKnowsTheFile, LabelsInv, YesterdayBeforeToday
<1>3. ASSUME NEW t \in Time, Restart(t) PROVE (GuardKnowsTheFile /\ LabelsInv)'
  <2>1. PICK readable \in BOOLEAN : /\ readable => published # Missing
                                    /\ Seed(readable)
    BY <1>3 DEF Restart
  <2>2. UNCHANGED published
    BY <1>3 DEF Restart
  <2>3. GuardKnowsTheFile'
    BY <2>1, <2>2 DEF Seed, GuardKnowsTheFile
  <2>4. YesterdayBeforeToday(usage')
    <3>1. CASE readable
      <4>1. usage' = Seeded /\ YesterdayBeforeToday(published)
        BY <2>1, <3>1 DEF Seed, LabelsInv
      <4>2. usage'.curves = ReconcileSeeded(published.curves, DayOf(clock'))
        BY <4>1 DEF Seeded
      <4>. QED BY <4>1, <4>2, ReconcileKeepsLabels DEF YesterdayBeforeToday
    <3>2. CASE ~readable
      BY <2>1, <3>2 DEF Seed, EmptySnapshot, YesterdayBeforeToday
    <3>. QED BY <3>1, <3>2
  <2>. QED BY <2>2, <2>3, <2>4 DEF LabelsInv
<1>4. CASE TotalUnknown
  <2>1. YesterdayBeforeToday(usage')
    BY <1>4 DEF TotalUnknown, LabelsInv, YesterdayBeforeToday
  <2>. QED BY <1>4, <2>1, PublishKeeps DEF TotalUnknown
<1>5. ASSUME NEW asked \in AskedDay, NEW total \in 0..MaxTotal, TotalKnown(asked, total)
      PROVE  (GuardKnowsTheFile /\ LabelsInv)'
  <2>. DEFINE appended == AppendDayCurvePoint(usage.curves, asked, clock, total)
  <2>1. usage'.curves = RecoverActiveDayCurve(appended, asked, usage.samples)
    BY <1>5 DEF TotalKnown
  <2>2. appended.yesterday # Missing => appended.yesterday.day + 1 = appended.today.day
    BY AppendKeepsLabels DEF LabelsInv, YesterdayBeforeToday
  <2>. HIDE DEF appended
  <2>3. YesterdayBeforeToday(usage')
    BY <2>1, <2>2, RecoverKeepsLabels DEF YesterdayBeforeToday
  <2>. QED BY <1>5, <2>3, PublishKeeps DEF TotalKnown
<1>6. CASE UNCHANGED tokenVars
  BY <1>6 DEF tokenVars, GuardKnowsTheFile, LabelsInv, YesterdayBeforeToday
<1>. QED BY <1>1, <1>2, <1>3, <1>4, <1>5, <1>6 DEF TokenNext, UsagePoll

\* A state the file lacks is never taken for written: what the collector
\* compares its state with before it writes is what the file holds, after
\* any failed writes and restarts (createTokenUsageCollector).
THEOREM WriteGuardKnowsTheFile == TokenSpec => []GuardKnowsTheFile
  BY TokenInitInv, TokenStepInv, PTL DEF TokenSpec

\* Whatever the clock does, a curve shown as yesterday's is labelled with the
\* day before today's (appendDayCurvePoint, reconcileSeededDayCurves).
THEOREM YesterdayNeverMislabelled == TokenSpec => []YesterdayIsTheDayBefore
<1>1. LabelsInv => YesterdayIsTheDayBefore
  BY DEF LabelsInv, YesterdayIsTheDayBefore
<1>. QED BY <1>1, TokenInitInv, TokenStepInv, PTL DEF TokenSpec

-----------------------------------------------------------------------------
(***************************************************************************)
(* The curves: every list of points is a sequence of well-formed points    *)
(* that ascends, which is what the file's reader demands.  A recovery sorts *)
(* the points it merges and raises each to the running max, so the order    *)
(* rests on InOrder, and the ascent on what a max over a prefix does.       *)
(***************************************************************************)
\* The members of a finite set of numbers come out in order: the rank of a
\* member is one-to-one, so every rank is taken.
LEMMA InOrderSorts ==
    ASSUME NEW S \in SUBSET Nat, IsFiniteSet(S)
    PROVE  /\ InOrder(S) \in Seq(S) /\ DOMAIN InOrder(S) = 1..Cardinality(S) /\ Cardinality(S) \in Nat
           /\ \A i, j \in DOMAIN InOrder(S) : i < j => InOrder(S)[i] < InOrder(S)[j]
<1> DEFINE Upto(n) == {m \in S : m <= n}
           size == Cardinality(S)
           rank == [n \in S |-> Cardinality(Upto(n))]
<1>1. \A n \in S : /\ IsFiniteSet(Upto(n)) /\ Upto(n) \in SUBSET S /\ n \in Upto(n)
                   /\ Cardinality(Upto(n)) \in Nat /\ Cardinality(Upto(n)) <= size
  BY FS_Subset, FS_CardinalityType
<1>2. size \in Nat
  BY FS_CardinalityType
<1>3. \A n \in S : rank[n] = Cardinality(Upto(n)) /\ rank[n] \in 1..size
  <2> SUFFICES ASSUME NEW n \in S PROVE Cardinality(Upto(n)) \in 1..size
    OBVIOUS
  <2>1. Upto(n) # {} /\ IsFiniteSet(Upto(n))
    BY <1>1
  <2> HIDE DEF Upto
  <2>2. Cardinality(Upto(n)) # 0
    BY <2>1, FS_EmptySet
  <2> QED BY <1>1, <1>2, <2>2
<1>4. \A m, n \in S : m < n => rank[m] < rank[n]
  <2> SUFFICES ASSUME NEW m \in S, NEW n \in S, m < n PROVE rank[m] < rank[n]
    OBVIOUS
  <2>1. m \in Nat /\ n \in Nat /\ \A k \in S : k \in Nat /\ (k <= m => k <= n)
    OBVIOUS
  <2>b. n \notin Upto(m)
    <3>1. ~(n <= m)
      BY <2>1
    <3> QED BY <3>1
  <2>c. Upto(m) \subseteq Upto(n)
    BY <2>1
  <2>a. Upto(m) \subseteq Upto(n) /\ n \in Upto(n) /\ n \notin Upto(m)
    BY <1>1, <2>b, <2>c
  <2>2. IsFiniteSet(Upto(n)) /\ Upto(m) \in SUBSET Upto(n) /\ Upto(m) # Upto(n)
    BY <1>1, <2>a
  <2> HIDE DEF Upto
  <2>3. Cardinality(Upto(m)) <= Cardinality(Upto(n)) /\ Cardinality(Upto(m)) # Cardinality(Upto(n))
    BY <2>2, FS_Subset
  <2> QED BY <1>1, <1>3, <2>3
<1>5. rank \in Injection(S, 1..size)
  <2>1. \A m, n \in S : m # n => m < n \/ n < m
    OBVIOUS
  <2>2. \A n \in S : rank[n] \in Nat
    BY <1>2, <1>3
  <2>3. \A m, n \in S : rank[m] = rank[n] => m = n
    <3> HIDE DEF rank
    <3> QED BY <1>4, <2>1, <2>2
  <2> QED BY <1>3, <2>3 DEF Injection, IsInjective
<1>6. \A k \in 1..size : \E n \in S : rank[n] = k
  <2>1. IsFiniteSet(1..size) /\ Cardinality(1..size) = size
    BY <1>2, FS_Interval
  <2> HIDE DEF rank
  <2>2. rank \in Surjection(S, 1..size)
    BY <1>5, <2>1, FS_Injection
  <2> QED BY <2>2 DEF Surjection
<1>7. \A k \in 1..size : InOrder(S)[k] \in S /\ rank[InOrder(S)[k]] = k
  <2> SUFFICES ASSUME NEW k \in 1..size PROVE InOrder(S)[k] \in S /\ rank[InOrder(S)[k]] = k
    OBVIOUS
  <2>1. PICK x \in S : Cardinality(Upto(x)) = k
    BY <1>6
  <2>2. InOrder(S)[k] = CHOOSE n \in S : Cardinality(Upto(n)) = k
    BY DEF InOrder
  <2> HIDE DEF Upto
  <2>3. InOrder(S)[k] \in S /\ Cardinality(Upto(InOrder(S)[k])) = k
    BY <2>1, <2>2
  <2> QED BY <2>3
<1>8. DOMAIN InOrder(S) = 1..size /\ InOrder(S) = [k \in 1..size |-> InOrder(S)[k]]
  BY DEF InOrder
<1>9. InOrder(S) \in Seq(S)
  <2>1. InOrder(S) \in [1..size -> S]
    BY <1>7, <1>8
  <2> HIDE DEF size
  <2> QED BY <1>2, <2>1
<1>10. ASSUME NEW i \in 1..size, NEW j \in 1..size, i < j
       PROVE  InOrder(S)[i] < InOrder(S)[j]
  <2> DEFINE m == InOrder(S)[i]
             n == InOrder(S)[j]
  <2>1. m \in S /\ n \in S /\ rank[m] = i /\ rank[n] = j
    BY <1>7
  <2> HIDE DEF m, n, rank
  <2>2. i \in Nat /\ j \in Nat /\ m \in Nat /\ n \in Nat
    BY <1>2, <2>1
  <2>3. ~(n < m) /\ n # m
    BY <1>4, <1>10, <2>1, <2>2
  <2>4. m < n
    BY <2>2, <2>3
  <2> QED BY <2>4 DEF m, n
<1> QED BY <1>2, <1>8, <1>9, <1>10

\* The numbers behind the bounds.
LEMMA ClockBounds ==
    /\ Time \subseteq Nat /\ 0 \in Time /\ 0 \in Days /\ 0..MaxTotal \subseteq Nat
    /\ \A t \in Time : DayOf(t) \in Days /\ DayOf(t) \in Nat
<1>1. MaxInstant \in Nat /\ MaxTotal \in Nat /\ DayLength \in Nat /\ DayLength > 0
  BY TokenUsageAssumption
<1>2. \A t \in Nat : t \div DayLength \in Nat
  BY <1>1
<1>3. ASSUME NEW t \in Nat, NEW u \in Nat, t <= u PROVE t \div DayLength <= u \div DayLength
  BY <1>1, <1>3
<1>4. 0 \div DayLength = 0
  BY <1>1
<1> QED BY <1>1, <1>2, <1>3, <1>4 DEF Time, Days, DayOf

\* What increases from point to point increases over any distance.
LEMMA Ascends ==
    ASSUME NEW points \in Seq(Point), Increasing(points), NEW i \in DOMAIN points
    PROVE  \A j \in DOMAIN points : i < j => /\ points[i].at < points[j].at
                                             /\ points[i].total <= points[j].total
<1> DEFINE bad == {j \in DOMAIN points : i < j /\ ~(/\ points[i].at < points[j].at
                                                    /\ points[i].total <= points[j].total)}
<1>1. SUFFICES ASSUME bad # {} PROVE FALSE
  OBVIOUS
<1>2. DOMAIN points = 1..Len(points) /\ Len(points) \in Nat
      /\ \A k \in DOMAIN points : points[k].at \in Nat /\ points[k].total \in Nat
  <2>1. DOMAIN points = 1..Len(points) /\ Len(points) \in Nat /\ \A k \in DOMAIN points : points[k] \in Point
    OBVIOUS
  <2>2. \A k \in DOMAIN points : points[k].at \in Nat /\ points[k].total \in Nat
    BY <2>1, ClockBounds DEF Point
  <2> QED BY <2>1, <2>2
<1>3. PICK j \in bad : \A k \in bad : j <= k
  <2>1. bad \in SUBSET Nat
    BY <1>2
  <2> HIDE DEF bad
  <2> QED BY <1>1, <2>1, LeastElement
<1>4. j \in 2..Len(points) /\ j - 1 \in DOMAIN points /\ i <= j - 1
  BY <1>2, <1>3
<1>5. points[j - 1].at < points[j].at /\ points[j - 1].total <= points[j].total
  BY <1>4 DEF Increasing
<1>6. j - 1 \notin bad
  BY <1>2, <1>3, <1>4
<1>7. i = j - 1 \/ (points[i].at < points[j - 1].at /\ points[i].total <= points[j - 1].total)
  BY <1>2, <1>4, <1>6
<1>8. points[i].at < points[j].at /\ points[i].total <= points[j].total
  <2>1. /\ points[i].at \in Nat /\ points[j].at \in Nat /\ points[j - 1].at \in Nat
        /\ points[i].total \in Nat /\ points[j].total \in Nat /\ points[j - 1].total \in Nat
    BY <1>2, <1>3, <1>4
  <2> QED BY <1>5, <1>7, <2>1
<1> QED BY <1>3, <1>8

LEMMA RetainKeeps ==
    ASSUME NEW points \in Seq(Point), Increasing(points)
    PROVE  RetainLatest(points) \in Seq(Point) /\ Increasing(RetainLatest(points))
<1> DEFINE Kept(i) == \/ i = Len(points)
                      \/ points[i].at \div BucketLength # points[i + 1].at \div BucketLength
           S == {i \in DOMAIN points : Kept(i)}
           kept == InOrder(S)
           new == [k \in DOMAIN kept |-> points[kept[k]]]
<1>1. RetainLatest(points) = new
  BY DEF RetainLatest
<1>2. DOMAIN points = 1..Len(points) /\ Len(points) \in Nat /\ S \subseteq DOMAIN points
  OBVIOUS
<1> HIDE DEF S
<1>3. IsFiniteSet(S) /\ S \in SUBSET Nat
  <2>1. IsFiniteSet(DOMAIN points) /\ S \in SUBSET DOMAIN points
    BY <1>2, FS_Interval
  <2> QED BY <1>2, <2>1, FS_Subset
<1>4. /\ kept \in Seq(S) /\ DOMAIN kept = 1..Cardinality(S) /\ Cardinality(S) \in Nat
      /\ \A i, j \in DOMAIN kept : i < j => kept[i] < kept[j]
  BY <1>3, InOrderSorts
<1>5. \A k \in DOMAIN kept : kept[k] \in DOMAIN points /\ points[kept[k]] \in Point
  BY <1>2, <1>4
<1> HIDE DEF kept
<1>6. new \in Seq(Point) /\ Len(new) = Cardinality(S)
  BY <1>4, <1>5
<1>7. ASSUME NEW i \in 2..Len(new)
      PROVE  new[i - 1].at < new[i].at /\ new[i - 1].total <= new[i].total
  <2>1. i - 1 \in DOMAIN kept /\ i \in DOMAIN kept /\ i - 1 < i
    BY <1>4, <1>6
  <2>2. kept[i - 1] < kept[i] /\ new[i - 1] = points[kept[i - 1]] /\ new[i] = points[kept[i]]
    BY <1>4, <2>1
  <2> QED BY <1>5, <2>1, <2>2, Ascends
<1> HIDE DEF new
<1>8. Increasing(new)
  BY <1>7 DEF Increasing
<1> QED BY <1>1, <1>6, <1>8

\* What a restart may find in the file is as good as the state is.
Sample == [at : Time, total : 0..MaxTotal, day : Days]
GoodCurve(c) == c.day \in Days /\ c.points \in Seq(Point) /\ Increasing(c.points)
GoodCurves(curves) == curves # Missing =>
    GoodCurve(curves.today) /\ (curves.yesterday # Missing => GoodCurve(curves.yesterday))
GoodSnapshot(s) == /\ s.unavailable \in BOOLEAN
                   /\ s.samples \in Seq(Sample) /\ Len(s.samples) <= SampleLimit
                   /\ GoodCurves(s.curves)
CurvesInv == /\ clock \in Time /\ mishaps \in 0..MaxMishaps
             /\ GoodSnapshot(usage)
             /\ \A s \in {published, written} \ {Missing} : GoodSnapshot(s)

\* The image of a finite set is finite.
LEMMA TotalsFinite ==
    ASSUME NEW seen \in SUBSET Point, IsFiniteSet(seen)
    PROVE  /\ IsFiniteSet({p.at : p \in seen}) /\ {p.at : p \in seen} \in SUBSET Nat
           /\ \A at \in {p.at : p \in seen} :
                 /\ TotalRaised(seen, at) \in 0..MaxTotal
                 /\ \A at2 \in {p.at : p \in seen} :
                       at < at2 => TotalRaised(seen, at) <= TotalRaised(seen, at2)
<1> DEFINE T == {p.at : p \in seen}
           Before(at) == {q \in seen : q.at <= at}
           Totals(at) == {p.total : p \in Before(at)}
<1>1. IsFiniteSet(T) /\ T \in SUBSET Time
  <2> DEFINE f == [p \in seen |-> p.at]
  <2>1. f \in Surjection(seen, T)
    BY DEF Surjection
  <2>2. T \subseteq Time
    BY DEF Point
  <2> HIDE DEF f, T
  <2> QED BY <2>1, <2>2, FS_Surjection
<1>2. ASSUME NEW at \in T
      PROVE  /\ IsFiniteSet(Totals(at)) /\ Totals(at) # {} /\ Totals(at) \subseteq 0..MaxTotal
  <2> DEFINE f == [p \in Before(at) |-> p.total]
  <2>1. f \in Surjection(Before(at), Totals(at))
    BY DEF Surjection
  <2>2. IsFiniteSet(Before(at))
    BY FS_Subset
  <2>3. Totals(at) \subseteq 0..MaxTotal
    BY DEF Point
  <2>4. PICK p \in seen : at = p.at
    BY <1>2
  <2>5. at \in Nat
    BY <1>1, <1>2, ClockBounds
  <2>6. p \in Before(at)
    BY <2>4, <2>5
  <2>7. Totals(at) # {}
    BY <2>6
  <2> HIDE DEF f, Before, Totals
  <2> QED BY <2>1, <2>2, <2>3, <2>7, FS_Surjection
<1>3. ASSUME NEW at \in T
      PROVE  /\ TotalRaised(seen, at) \in Totals(at)
             /\ \A n \in Totals(at) : TotalRaised(seen, at) >= n
  <2>1. TotalRaised(seen, at) = Max(Totals(at))
    BY DEF TotalRaised
  <2>2. IsFiniteSet(Totals(at)) /\ Totals(at) # {} /\ Totals(at) \in SUBSET Nat
    BY <1>2, <1>3, ClockBounds
  <2> HIDE DEF Totals
  <2> QED BY <2>1, <2>2, LargestElement
<1>4. ASSUME NEW at \in T, NEW at2 \in T, at < at2
      PROVE  TotalRaised(seen, at) <= TotalRaised(seen, at2)
  <2>1. at \in Nat /\ at2 \in Nat /\ \A q \in seen : q.at \in Nat
    BY <1>1, ClockBounds
  <2>2. \A q \in seen : q.at <= at => q.at <= at2
    BY <1>4, <2>1
  <2>3. Totals(at) \subseteq Totals(at2)
    BY <2>2
  <2>4. TotalRaised(seen, at) \in Totals(at2)
    BY <1>3, <2>3
  <2>5. TotalRaised(seen, at2) >= TotalRaised(seen, at)
    BY <1>3, <2>4
  <2>6. TotalRaised(seen, at) \in Nat /\ TotalRaised(seen, at2) \in Nat
    BY <1>2, <1>3, ClockBounds
  <2> HIDE DEF Totals
  <2> QED BY <2>5, <2>6
<1>5. \A at \in T : TotalRaised(seen, at) \in 0..MaxTotal
  BY <1>2, <1>3
<1> HIDE DEF T
<1>6. IsFiniteSet(T) /\ T \in SUBSET Nat
  BY <1>1, ClockBounds
<1> QED BY <1>4, <1>5, <1>6 DEF T

LEMMA MembersFinite ==
    ASSUME NEW S, NEW s \in Seq(S)
    PROVE  IsFiniteSet(ToSet(s)) /\ ToSet(s) \in SUBSET S
<1>1. s \in Surjection(DOMAIN s, ToSet(s)) /\ ToSet(s) \in SUBSET S
  BY DEF Surjection, ToSet
<1>2. DOMAIN s = 1..Len(s) /\ Len(s) \in Int
  OBVIOUS
<1>3. IsFiniteSet(DOMAIN s)
  BY <1>2, FS_Interval
<1> QED BY <1>1, <1>3, FS_Surjection

\* Recovered samples leave the curve in order, however they fell.
LEMMA RecoverKeeps ==
    ASSUME NEW curves, GoodCurve(curves.today),
           curves.yesterday # Missing => GoodCurve(curves.yesterday),
           NEW day \in Days, NEW samples \in Seq(Sample)
    PROVE  GoodCurves(RecoverActiveDayCurve(curves, day, samples))
<1> DEFINE points == curves.today.points
           Fits(s) == /\ s.day = day /\ points # <<>> /\ s.at < Last(points).at
                      /\ s.total <= points[Min({i \in DOMAIN points : points[i].at >= s.at})].total
           found == {[at |-> s.at, total |-> s.total] : s \in {r \in ToSet(samples) : Fits(r)}}
           seen == ToSet(points) \cup found
           times == {p.at : p \in seen}
           order == InOrder(times)
           raised == [i \in DOMAIN order |-> [at |-> order[i], total |-> TotalRaised(seen, order[i])]]
           new == [today |-> [day |-> day, points |-> RetainLatest(raised)], yesterday |-> curves.yesterday]
<1>a. CASE curves.today.day # day
  BY <1>a DEF RecoverActiveDayCurve, GoodCurves
<1>b. CASE curves.today.day = day
  <2>1. RecoverActiveDayCurve(curves, day, samples) = new
    BY <1>b DEF RecoverActiveDayCurve
  <2>2. points \in Seq(Point)
    BY DEF GoodCurve
  <2> HIDE DEF points
  <2>3. IsFiniteSet(ToSet(points)) /\ ToSet(points) \in SUBSET Point
    BY <2>2, MembersFinite
  <2>4. IsFiniteSet(ToSet(samples)) /\ ToSet(samples) \in SUBSET Sample
    BY MembersFinite
  <2>5. IsFiniteSet(found) /\ found \in SUBSET Point
    <3> DEFINE fitting == {r \in ToSet(samples) : Fits(r)}
               f == [s \in fitting |-> [at |-> s.at, total |-> s.total]]
    <3> HIDE DEF Fits
    <3>1. IsFiniteSet(fitting) /\ fitting \in SUBSET Sample
      BY <2>4, FS_Subset
    <3>2. f \in Surjection(fitting, found)
      BY DEF Surjection
    <3>3. found \in SUBSET Point
      <4> HIDE DEF fitting
      <4>1. \A s \in fitting : [at |-> s.at, total |-> s.total] \in Point
        BY <3>1 DEF Sample, Point
      <4> QED BY <4>1 DEF fitting
    <3> HIDE DEF f, fitting, found
    <3> QED BY <3>1, <3>2, <3>3, FS_Surjection
  <2> HIDE DEF found, Fits
  <2>6. IsFiniteSet(seen) /\ seen \in SUBSET Point
    BY <2>3, <2>5, FS_Union
  <2> HIDE DEF seen
  <2>7. /\ IsFiniteSet(times) /\ times \in SUBSET Nat
        /\ \A at \in times : /\ TotalRaised(seen, at) \in 0..MaxTotal
                             /\ \A at2 \in times : at < at2 => TotalRaised(seen, at) <= TotalRaised(seen, at2)
    BY <2>6, TotalsFinite
  <2>8. times \subseteq Time
    BY <2>6 DEF Point
  <2> HIDE DEF times
  <2>9. /\ order \in Seq(times) /\ DOMAIN order = 1..Cardinality(times) /\ Cardinality(times) \in Nat
        /\ \A i, j \in DOMAIN order : i < j => order[i] < order[j]
    BY <2>7, InOrderSorts
  <2> HIDE DEF order
  <2>10. \A i \in DOMAIN order : order[i] \in times
    BY <2>9
  <2>11. \A i \in DOMAIN order : [at |-> order[i], total |-> TotalRaised(seen, order[i])] \in Point
    BY <2>7, <2>8, <2>10 DEF Point
  <2>12. raised \in Seq(Point) /\ Len(raised) = Cardinality(times)
    BY <2>9, <2>11
  <2>13. ASSUME NEW i \in 2..Len(raised)
         PROVE  raised[i - 1].at < raised[i].at /\ raised[i - 1].total <= raised[i].total
    <3>1. i - 1 \in DOMAIN order /\ i \in DOMAIN order /\ i - 1 < i
      BY <2>9, <2>12
    <3>2. order[i - 1] < order[i] /\ order[i - 1] \in times /\ order[i] \in times
      BY <2>9, <2>10, <3>1
    <3>3. /\ raised[i - 1] = [at |-> order[i - 1], total |-> TotalRaised(seen, order[i - 1])]
          /\ raised[i] = [at |-> order[i], total |-> TotalRaised(seen, order[i])]
      BY <3>1
    <3>4. TotalRaised(seen, order[i - 1]) <= TotalRaised(seen, order[i])
      BY <2>7, <3>2
    <3> QED BY <3>2, <3>3, <3>4
  <2> HIDE DEF raised
  <2>14. Increasing(raised)
    BY <2>13 DEF Increasing
  <2>15. RetainLatest(raised) \in Seq(Point) /\ Increasing(RetainLatest(raised))
    BY <2>12, <2>14, RetainKeeps
  <2> QED BY <2>1, <2>15 DEF GoodCurves, GoodCurve
<1> QED BY <1>a, <1>b

\* A curve takes a later point with its running max, or starts anew.
LEMMA AppendKeeps ==
    ASSUME NEW curves, GoodCurves(curves), NEW day \in Days, NEW at \in Time, NEW total \in 0..MaxTotal
    PROVE  LET new == AppendDayCurvePoint(curves, day, at, total)
           IN  /\ GoodCurve(new.today)
               /\ new.yesterday # Missing => GoodCurve(new.yesterday)
<1> DEFINE new == AppendDayCurvePoint(curves, day, at, total)
           points == curves.today.points
           highest == Max({total, TotalOfLast(points)})
           longer == Append(points, [at |-> at, total |-> highest])
<1>a. CASE curves # Missing /\ curves.today.day = day /\ points # <<>> /\ at <= Last(points).at
  <2>1. new = curves
    BY <1>a DEF AppendDayCurvePoint
  <2> QED BY <1>a, <2>1 DEF GoodCurves
<1>b. CASE curves # Missing /\ curves.today.day = day /\ ~(points # <<>> /\ at <= Last(points).at)
  <2>1. new = [today |-> [day |-> day, points |-> RetainLatest(longer)], yesterday |-> curves.yesterday]
    BY <1>b DEF AppendDayCurvePoint
  <2>2. points \in Seq(Point) /\ Increasing(points) /\ (curves.yesterday # Missing => GoodCurve(curves.yesterday))
    BY <1>b DEF GoodCurves, GoodCurve
  <2> HIDE DEF points
  <2>3. /\ DOMAIN points = 1..Len(points) /\ Len(points) \in Nat
        /\ points # <<>> => Len(points) \in DOMAIN points /\ Last(points) = points[Len(points)]
        /\ points # <<>> => Last(points) \in Point
    BY <2>2 DEF Last
  <2>4. TotalOfLast(points) \in 0..MaxTotal /\ (points # <<>> => TotalOfLast(points) = Last(points).total)
    BY <2>3, ClockBounds, TokenUsageAssumption DEF TotalOfLast, Point
  <2>5. highest \in 0..MaxTotal /\ highest >= total /\ highest >= TotalOfLast(points)
    <3> DEFINE T == {total, TotalOfLast(points)}
    <3>1. T \in SUBSET Nat /\ T # {} /\ IsFiniteSet(T)
      <4>1. total \in Nat /\ TotalOfLast(points) \in Nat
        BY <2>4, ClockBounds
      <4>2. IsFiniteSet({total}) /\ T = {total} \cup {TotalOfLast(points)}
        BY FS_Singleton
      <4>3. IsFiniteSet(T)
        BY <4>2, FS_AddElement
      <4> QED BY <4>1, <4>3
    <3>2. Max(T) \in T /\ \A m \in T : Max(T) >= m
      <4> HIDE DEF T
      <4> QED BY <3>1, LargestElement
    <3> QED BY <2>4, <3>2
  <2> HIDE DEF highest
  <2>6. [at |-> at, total |-> highest] \in Point
    BY <2>5 DEF Point
  <2>7. longer \in Seq(Point) /\ Len(longer) = Len(points) + 1
    BY <2>2, <2>6
  <2>8. \A i \in 1..Len(points) : longer[i] = points[i]
    BY <2>2, <2>6
  <2>9. longer[Len(points) + 1] = [at |-> at, total |-> highest]
    BY <2>2, <2>6
  <2> HIDE DEF longer
  <2>10. ASSUME NEW i \in 2..Len(longer)
         PROVE  longer[i - 1].at < longer[i].at /\ longer[i - 1].total <= longer[i].total
    <3>1. CASE i <= Len(points)
      <4>1. i \in 2..Len(points) /\ longer[i] = points[i] /\ longer[i - 1] = points[i - 1]
        BY <2>3, <2>7, <2>8, <3>1
      <4> QED BY <2>2, <4>1 DEF Increasing
    <3>2. CASE i > Len(points)
      <4>1. i = Len(points) + 1 /\ Len(points) # 0
        BY <2>3, <2>7, <3>2
      <4>2. points # <<>> /\ longer[i - 1] = Last(points)
        BY <2>3, <2>8, <4>1
      <4>3. Last(points).at \in Nat /\ at \in Nat /\ ~(at <= Last(points).at)
        BY <1>b, <2>3, <4>2, ClockBounds DEF Point, points
      <4>4. Last(points).at < at
        BY <4>3
      <4>5. Last(points).total <= highest
        BY <2>4, <2>5, <4>2, ClockBounds
      <4> QED BY <2>9, <4>1, <4>2, <4>4, <4>5
    <3> QED BY <2>3, <2>7, <3>1, <3>2
  <2>11. Increasing(longer)
    BY <2>10 DEF Increasing
  <2>12. RetainLatest(longer) \in Seq(Point) /\ Increasing(RetainLatest(longer))
    BY <2>7, <2>11, RetainKeeps
  <2> QED BY <2>1, <2>2, <2>12 DEF GoodCurve
<1>c. CASE ~(curves # Missing /\ curves.today.day = day)
  <2>1. /\ new.today = [day |-> day, points |-> <<[at |-> at, total |-> total]>>]
        /\ new.yesterday # Missing => curves # Missing /\ new.yesterday = curves.today
    BY <1>c DEF AppendDayCurvePoint
  <2>2. [at |-> at, total |-> total] \in Point
    BY DEF Point
  <2>3. GoodCurve(new.today)
    <3> DEFINE one == <<[at |-> at, total |-> total]>>
    <3>1. one \in Seq(Point) /\ Len(one) = 1
      BY <2>2
    <3> HIDE DEF one
    <3>2. Increasing(one)
      BY <3>1 DEF Increasing
    <3> QED BY <2>1, <3>1, <3>2 DEF GoodCurve, one
  <2>4. new.yesterday # Missing => GoodCurve(new.yesterday)
    BY <2>1 DEF GoodCurves
  <2> QED BY <2>3, <2>4
<1> QED BY <1>a, <1>b, <1>c

LEMMA ReconcileKeeps ==
    ASSUME NEW curves, GoodCurves(curves), NEW day \in Days
    PROVE  GoodCurves(ReconcileSeeded(curves, day))
<1>1. <<>> \in Seq(Point) /\ Increasing(<<>>)
  BY DEF Increasing
<1>2. CASE curves = Missing \/ curves.today.day = day
  BY <1>2 DEF ReconcileSeeded
<1>3. CASE curves # Missing /\ curves.today.day # day /\ curves.today.day + 1 = day
  BY <1>1, <1>3 DEF ReconcileSeeded, GoodCurves, GoodCurve
<1>4. CASE curves # Missing /\ curves.today.day # day /\ curves.today.day + 1 # day
  BY <1>4 DEF ReconcileSeeded, GoodCurves
<1> QED BY <1>2, <1>3, <1>4

\* The ring holds what it may.
LEMMA RingKeeps ==
    ASSUME NEW samples \in Seq(Sample), Len(samples) <= SampleLimit, NEW sample \in Sample
    PROVE  Ring(samples, sample) \in Seq(Sample) /\ Len(Ring(samples, sample)) <= SampleLimit
<1> DEFINE all == Append(samples, sample)
<1>1. all \in Seq(Sample) /\ Len(all) = Len(samples) + 1 /\ Len(samples) \in Nat /\ SampleLimit \in Nat
  BY TokenUsageAssumption
<1>2. Tail(all) \in Seq(Sample) /\ Len(Tail(all)) = Len(all) - 1
  BY <1>1
<1> HIDE DEF all
<1>3. Ring(samples, sample) = IF Len(all) > SampleLimit THEN Tail(all) ELSE all
  BY DEF Ring, all
<1> QED BY <1>1, <1>2, <1>3

LEMMA EmptyGood == GoodSnapshot(EmptySnapshot)
  BY TokenUsageAssumption DEF GoodSnapshot, EmptySnapshot, GoodCurves

LEMMA CurvesInitInv == TokenInit => CurvesInv
<1> SUFFICES ASSUME TokenInit PROVE CurvesInv
  OBVIOUS
<1>1. clock \in Time /\ mishaps \in 0..MaxMishaps
  BY ClockBounds, TokenUsageAssumption DEF TokenInit
<1>2. CASE published = Missing /\ usage = EmptySnapshot /\ written = Missing
  BY <1>1, <1>2, EmptyGood DEF CurvesInv
<1>3. ASSUME NEW total \in 0..MaxTotal,
             published = [unavailable |-> FALSE,
                          samples |-> <<[at |-> 0, total |-> total, day |-> 0]>>, curves |-> Missing],
             usage = published, written = published
      PROVE  CurvesInv
  <2> DEFINE one == <<[at |-> 0, total |-> total, day |-> 0]>>
  <2>1. [at |-> 0, total |-> total, day |-> 0] \in Sample
    BY ClockBounds DEF Sample
  <2>2. one \in Seq(Sample) /\ Len(one) = 1
    BY <2>1
  <2>3. published.samples = one /\ published.unavailable = FALSE /\ published.curves = Missing
    BY <1>3
  <2> HIDE DEF one
  <2>4. Len(one) <= SampleLimit
    BY <2>2, TokenUsageAssumption
  <2>5. GoodSnapshot(published)
    BY <2>2, <2>3, <2>4 DEF GoodSnapshot, GoodCurves
  <2> QED BY <1>1, <1>3, <2>5 DEF CurvesInv
<1> QED BY <1>2, <1>3 DEF TokenInit

LEMMA PublishGood ==
    ASSUME CurvesInv, Publish, GoodSnapshot(usage'), UNCHANGED clock
    PROVE  CurvesInv'
<1>1. mishaps' \in 0..MaxMishaps
  BY TokenUsageAssumption DEF Publish, CurvesInv, Mishap
<1> QED BY <1>1 DEF Publish, CurvesInv

LEMMA CurvesStepInv == CurvesInv /\ [TokenNext]_tokenVars => CurvesInv'
<1> SUFFICES ASSUME CurvesInv, [TokenNext]_tokenVars PROVE CurvesInv'
  OBVIOUS
<1>1. CASE Tick
  <2>1. clock' \in Time
    BY <1>1, TokenUsageAssumption DEF Tick, CurvesInv, Time
  <2> QED BY <1>1, <2>1 DEF Tick, CurvesInv
<1>2. ASSUME NEW t \in Time, SetBack(t) PROVE CurvesInv'
  <2>1. mishaps' \in 0..MaxMishaps
    BY <1>2, TokenUsageAssumption DEF SetBack, Mishap, CurvesInv
  <2> QED BY <1>2, <2>1 DEF SetBack, CurvesInv
<1>3. ASSUME NEW t \in Time, Restart(t) PROVE CurvesInv'
  <2>1. mishaps' \in 0..MaxMishaps /\ clock' = t /\ UNCHANGED published
    BY <1>3, TokenUsageAssumption DEF Restart, Mishap, CurvesInv
  <2>2. PICK readable \in BOOLEAN : (readable => published # Missing) /\ Seed(readable)
    BY <1>3 DEF Restart
  <2>3. CASE readable
    <3>1. GoodSnapshot(published) /\ usage' = Seeded /\ written' = published
      BY <2>2, <2>3 DEF CurvesInv, Seed
    <3>2. GoodCurves(ReconcileSeeded(published.curves, DayOf(clock')))
      BY <2>1, <3>1, ReconcileKeeps, ClockBounds DEF GoodSnapshot
    <3>3. GoodSnapshot(usage')
      BY <3>1, <3>2 DEF Seeded, GoodSnapshot
    <3> QED BY <2>1, <3>1, <3>3 DEF CurvesInv
  <2>4. CASE ~readable
    BY <2>1, <2>2, <2>4, EmptyGood DEF CurvesInv, Seed
  <2> QED BY <2>3, <2>4
<1>4. CASE TotalUnknown
  <2>1. GoodSnapshot(usage')
    BY <1>4 DEF TotalUnknown, CurvesInv, GoodSnapshot
  <2> QED BY <1>4, <2>1, PublishGood DEF TotalUnknown
<1>5. ASSUME NEW asked \in AskedDay, NEW total \in 0..MaxTotal, TotalKnown(asked, total)
      PROVE  CurvesInv'
  <2> DEFINE appended == AppendDayCurvePoint(usage.curves, asked, clock, total)
             sample == [at |-> clock, total |-> total, day |-> asked]
  <2>1. GoodSnapshot(usage) /\ clock \in Time /\ asked \in Days
    BY ClockBounds DEF CurvesInv, AskedDay
  <2>2. /\ usage' = [unavailable |-> FALSE,
                     samples |-> IF appended # usage.curves THEN Ring(usage.samples, sample)
                                                            ELSE usage.samples,
                     curves |-> RecoverActiveDayCurve(appended, asked, usage.samples)]
        /\ Publish /\ UNCHANGED clock
    BY <1>5 DEF TotalKnown
  <2>3. GoodCurve(appended.today) /\ (appended.yesterday # Missing => GoodCurve(appended.yesterday))
    BY <2>1, AppendKeeps DEF GoodSnapshot
  <2> HIDE DEF appended
  <2>4. GoodCurves(RecoverActiveDayCurve(appended, asked, usage.samples))
    BY <2>1, <2>3, RecoverKeeps DEF GoodSnapshot
  <2>5. sample \in Sample
    BY <2>1 DEF Sample
  <2> HIDE DEF sample
  <2>6. Ring(usage.samples, sample) \in Seq(Sample) /\ Len(Ring(usage.samples, sample)) <= SampleLimit
    BY <2>1, <2>5, RingKeeps DEF GoodSnapshot
  <2>7. GoodSnapshot(usage')
    BY <2>1, <2>2, <2>4, <2>6 DEF GoodSnapshot
  <2> QED BY <2>2, <2>7, PublishGood
<1>6. CASE UNCHANGED tokenVars
  BY <1>6 DEF tokenVars, CurvesInv
<1> QED BY <1>1, <1>2, <1>3, <1>4, <1>5, <1>6 DEF TokenNext, UsagePoll

LEMMA GoodIsTyped == ASSUME NEW s, GoodSnapshot(s) PROVE IsSnapshot(s) /\ Accepted(s)
<1>1. \A i \in DOMAIN s.samples : s.samples[i] \in Sample
  BY DEF GoodSnapshot
<1>2. ASSUME NEW c, GoodCurve(c) PROVE IsCurve(c)
  BY <1>2 DEF GoodCurve, IsCurve
<1> QED BY <1>1, <1>2 DEF GoodSnapshot, GoodCurves, GoodCurve, IsSnapshot, Accepted, Sample

\* Every step of the collector leaves instants, totals, days and curves within
\* their ranges (createTokenUsageCollector, parseTokenUsageSnapshot).
THEOREM TokenTypeCorrect == TokenSpec => []TokenTypeOK
<1>1. CurvesInv => TokenTypeOK
  BY GoodIsTyped DEF CurvesInv, TokenTypeOK
<1> QED BY <1>1, CurvesInitInv, CurvesStepInv, PTL DEF TokenSpec

\* What the collector would publish its reader accepts: the points of a curve
\* ascend in time and never fall in total, whatever samples are recovered into
\* it, however the clock is set, and the ring of samples keeps to its limit
\* (recoverActiveDayCurve, retainLatestPerBucket, parseTokenUsageSnapshot).
THEOREM CurvesStayReadable == TokenSpec => []CurvesReadable
<1>1. CurvesInv => Accepted(usage)
  BY GoodIsTyped DEF CurvesInv
<1>2. LabelsInv /\ CurvesInv => CurvesReadable
  BY <1>1 DEF LabelsInv, CurvesReadable
<1> QED BY <1>2, CurvesInitInv, CurvesStepInv, TokenInitInv, TokenStepInv, PTL DEF TokenSpec

-----------------------------------------------------------------------------
(***************************************************************************)
(* The accounts.                                                           *)
(***************************************************************************)
Instants == {Unmeasured} \cup 0..reading

\* No row is measured later than now.
ReadingsInv == /\ reading \in Nat
               /\ \A a \in DOMAIN rows : rows[a].at \in Instants
               /\ \A a \in DOMAIN onFile : onFile[a].at \in Instants

\* What an answer names was measured now or earlier; read means now; a
\* complete one names every account of the source.
IsAnswer(listed, complete) ==
    /\ \A a \in DOMAIN listed : /\ listed[a].at \in Instants
                                /\ listed[a].read => listed[a].at = reading
    /\ complete => actual \subseteq DOMAIN listed

RowStays(a) == /\ a \in DOMAIN onFile'
            /\ onFile'[a].label = onFile[a].label
            /\ NotOlder(onFile'[a].at, onFile[a].at)

LEMMA NotOlderFacts ==
    ASSUME ReadingsInv
    PROVE  /\ Unmeasured \notin Nat
           /\ \A t \in Instants : NotOlder(t, t) /\ NotOlder(reading, t)
           /\ \A t, u \in Instants : ~NotOlder(t, u) => NotOlder(u, t)
  BY QuotaAssumption DEF ReadingsInv, Instants, NotOlder

\* A row's next measurement is one of the row's and the answer's, and never
\* the older.
LEMMA MeasurementForward ==
    ASSUME ReadingsInv, NEW listed, NEW complete, IsAnswer(listed, complete),
           NEW a \in DOMAIN rows \cup DOMAIN listed
    PROVE  /\ Measurement(listed, a) \in Instants
           /\ a \in DOMAIN rows => NotOlder(Measurement(listed, a), rows[a].at)
<1>1. CASE a \notin DOMAIN listed
  BY <1>1, NotOlderFacts DEF Measurement, ReadingsInv
<1>2. CASE a \in DOMAIN listed /\ listed[a].read
  BY <1>2, NotOlderFacts DEF Measurement, ReadingsInv, IsAnswer
<1>3. CASE a \in DOMAIN listed /\ ~listed[a].read
  BY <1>3, NotOlderFacts DEF Measurement, ReadingsInv, IsAnswer
<1>. QED BY <1>1, <1>2, <1>3

LEMMA CollectKeeps ==
    ASSUME ReadingsInv, NEW listed, NEW complete, IsAnswer(listed, complete),
           Collect(listed, complete), UNCHANGED reading
    PROVE  /\ ReadingsInv'
           /\ rows = onFile => \A a \in DOMAIN onFile \cap actual : RowStays(a)
<1>. DEFINE inventory == DOMAIN listed \cup (IF complete THEN {} ELSE DOMAIN rows)
<1>1. CASE UNCHANGED <<rows, onFile>>
  BY <1>1, NotOlderFacts DEF ReadingsInv, Instants, RowStays
<1>2. CASE rows' = rows /\ onFile' = rows
  BY <1>2, NotOlderFacts DEF ReadingsInv, Instants, RowStays
<1>3. CASE rows' = [a \in inventory |->
                      [label  |-> IF a \in DOMAIN rows THEN rows[a].label ELSE listed[a].label,
                       active |-> Active(listed, a),
                       at     |-> Measurement(listed, a)]]
           /\ onFile' = rows'
  <2>1. \A a \in inventory : Measurement(listed, a) \in Instants
    BY MeasurementForward
  <2>2. ReadingsInv'
    BY <1>3, <2>1 DEF ReadingsInv, Instants
  <2>3. ASSUME rows = onFile, NEW a \in DOMAIN onFile \cap actual
        PROVE  RowStays(a)
    <3>1. a \in inventory /\ a \in DOMAIN rows
      BY <2>3 DEF IsAnswer
    <3>2. NotOlder(Measurement(listed, a), rows[a].at)
      BY <3>1, MeasurementForward
    <3>. QED BY <1>3, <2>3, <3>1, <3>2 DEF RowStays
  <2>. QED BY <2>2, <2>3
<1>. QED BY <1>1, <1>2, <1>3 DEF Collect, InventoryAfter

LEMMA CodexAnswerFacts ==
    ASSUME ReadingsInv, NEW run \in CodexRuns
    PROVE  IsAnswer(CodexListed(run.told), Complete(run))
<1>1. ASSUME NEW a \in DOMAIN CodexListed(run.told)
      PROVE  /\ CodexListed(run.told)[a].at \in Instants
             /\ CodexListed(run.told)[a].read => CodexListed(run.told)[a].at = reading
  <2>1. /\ CodexListed(run.told)[a].read = (run.told[a] = "read")
        /\ CodexListed(run.told)[a].at = IF run.told[a] = "read" THEN reading ELSE Unmeasured
    BY <1>1, Zenon DEF CodexListed
  <2>2. {reading, Unmeasured} \subseteq Instants
    BY DEF Instants, ReadingsInv
  <2>. QED BY <2>1, <2>2
<1>2. ASSUME Complete(run) PROVE actual \subseteq DOMAIN CodexListed(run.told)
  <2>1. \A a \in actual : run.told[a] = "read"
    BY <1>2 DEF CodexRuns, Complete
  <2>. QED BY <2>1 DEF CodexListed
<1>. QED BY <1>1, <1>2 DEF IsAnswer

\* A step of the collector keeps the invariant and the accounts.
LEMMA QuotaStep ==
    ASSUME ReadingsInv, [QuotaNext]_quotaVars
    PROVE  /\ ReadingsInv'
           /\ rows = onFile => \A a \in DOMAIN onFile \cap actual : RowStays(a)
<1>0. ASSUME UNCHANGED onFile
      PROVE  \A a \in DOMAIN onFile : RowStays(a)
  BY <1>0, NotOlderFacts DEF RowStays, ReadingsInv
<1>1. CASE Measure
  <2>1. reading' \in Nat /\ Instants \subseteq Instants'
    BY <1>1 DEF Measure, ReadingsInv, Instants
  <2>. QED BY <1>0, <1>1, <2>1 DEF Measure, ReadingsInv
<1>2. CASE AccountsChange
  BY <1>0, <1>2 DEF AccountsChange, ReadingsInv, Instants
<1>3. CASE QuotaRestart
  <2>1. ReadingsInv'
    <3>1. CASE rows' = onFile
      BY <1>3, <3>1 DEF QuotaRestart, ReadingsInv, Instants
    <3>2. CASE rows' = NoRows
      BY <1>3, <3>2 DEF QuotaRestart, ReadingsInv, Instants, NoRows
    <3>. QED BY <1>3, <3>1, <3>2 DEF QuotaRestart
  <2>. QED BY <1>0, <1>3, <2>1 DEF QuotaRestart
<1>4. CASE CodexPass
  <2>1. PICK run \in CodexRuns : Collect(CodexListed(run.told), Complete(run))
    BY <1>4 DEF CodexPass, CodexAnswers
  <2>. QED BY <1>4, <2>1, CodexAnswerFacts, CollectKeeps DEF CodexPass
<1>5. CASE ClaudePass
  <2>0. PICK named \in SUBSET actual :
          \E fetched \in SUBSET named, mark \in SUBSET named :
             /\ fetched = named => named = actual
             /\ \E lastGood \in [named \ fetched -> Instants] :
                   Collect([a \in named |-> [label |-> a, active |-> a \in mark, read |-> a \in fetched,
                                             at |-> IF a \in fetched THEN reading ELSE lastGood[a]]],
                           fetched = named)
    BY <1>5 DEF ClaudePass, Instants
  <2>6. PICK fetched \in SUBSET named, mark \in SUBSET named :
             /\ fetched = named => named = actual
             /\ \E lastGood \in [named \ fetched -> Instants] :
                   Collect([a \in named |-> [label |-> a, active |-> a \in mark, read |-> a \in fetched,
                                             at |-> IF a \in fetched THEN reading ELSE lastGood[a]]],
                           fetched = named)
    BY <2>0
  <2>1. PICK lastGood \in [named \ fetched -> Instants] :
          Collect([a \in named |-> [label |-> a, active |-> a \in mark, read |-> a \in fetched,
                                    at |-> IF a \in fetched THEN reading ELSE lastGood[a]]],
                  fetched = named)
    BY <2>6
  <2>. DEFINE listed == [a \in named |-> [label |-> a, active |-> a \in mark, read |-> a \in fetched,
                                          at |-> IF a \in fetched THEN reading ELSE lastGood[a]]]
  <2>2. reading \in Instants
    BY DEF ReadingsInv, Instants
  <2>3. IsAnswer(listed, fetched = named)
    BY <2>6, <2>1, <2>2 DEF IsAnswer
  <2>4. Collect(listed, fetched = named) /\ UNCHANGED reading
    BY <1>5, <2>1 DEF ClaudePass
  <2>. HIDE DEF listed
  <2>. QED BY <2>3, <2>4, CollectKeeps
<1>6. CASE UnansweredPass
  <2>1. IsAnswer(NoRows, FALSE)
    BY DEF IsAnswer, NoRows
  <2>. QED BY <1>6, <2>1, CollectKeeps DEF UnansweredPass
<1>7. CASE UNCHANGED quotaVars
  BY <1>0, <1>7 DEF quotaVars, ReadingsInv, Instants
<1>. QED BY <1>1, <1>2, <1>3, <1>4, <1>5, <1>6, <1>7 DEF QuotaNext

\* An account the source still has keeps its row, its label and its latest
\* measurement through any sequence of partial, ambiguous and missing
\* answers, failed writes and restarts (reconcileQuotaAccounts, and the pass
\* that publishes what it returns).
THEOREM AccountsKept == QuotaSpec => KnownAccountsStay
<1>1. QuotaInit => ReadingsInv
  BY DEF QuotaInit, ReadingsInv, NoRows
<1>2. ReadingsInv /\ [QuotaNext]_quotaVars => ReadingsInv'
  BY QuotaStep
<1>3. ReadingsInv /\ [QuotaNext]_quotaVars =>
        [rows = onFile => \A a \in DOMAIN onFile \cap actual :
            /\ a \in DOMAIN onFile'
            /\ onFile'[a].label = onFile[a].label
            /\ NotOlder(onFile'[a].at, onFile[a].at)]_quotaVars
  BY QuotaStep DEF RowStays
<1>. QED BY <1>1, <1>2, <1>3, PTL DEF QuotaSpec, KnownAccountsStay

\* A row of Claude is labelled with its slot; the reader accepts what a
\* collector has and what it published.
IsInventory(table) == /\ DOMAIN table \in SUBSET Account
                      /\ ReaderAccepts(table)
                      /\ \A a \in DOMAIN table : /\ table[a].label \in Nat
                                                 /\ source = "claude" => table[a].label = a
InventoryInv == actual \in SUBSET Account /\ IsInventory(rows) /\ IsInventory(onFile)

\* What an answer may name without the reader refusing the rows made of it:
\* one active account, and labels of its own for the new ones.
IsListing(listed) ==
    /\ DOMAIN listed \in SUBSET Account
    /\ \A a, b \in DOMAIN listed : listed[a].active /\ listed[b].active => a = b
    /\ \A a \in DOMAIN listed \ DOMAIN rows :
          /\ listed[a].label \in Nat
          /\ source = "claude" => listed[a].label = a
          /\ \A b \in DOMAIN rows : listed[a].label # rows[b].label
          /\ \A b \in DOMAIN listed \ DOMAIN rows : listed[a].label = listed[b].label => a = b

LEMMA EmptyInventory == IsInventory(NoRows)
<1>1. DOMAIN NoRows = {} /\ Cardinality({}) = 0
  BY FS_EmptySet DEF NoRows
<1>. QED BY <1>1, QuotaAssumption DEF IsInventory, ReaderAccepts

LEMMA CollectReadable ==
    ASSUME InventoryInv, NEW listed, NEW complete, IsListing(listed),
           Collect(listed, complete), UNCHANGED <<source, actual>>
    PROVE  InventoryInv'
<1>. DEFINE inventory == DOMAIN listed \cup (IF complete THEN {} ELSE DOMAIN rows)
            new == [a \in inventory |->
                      [label  |-> IF a \in DOMAIN rows THEN rows[a].label ELSE listed[a].label,
                       active |-> Active(listed, a),
                       at     |-> Measurement(listed, a)]]
<1>1. IsInventory(rows)' <=> /\ DOMAIN rows' \in SUBSET Account
                             /\ ReaderAccepts(rows')
                             /\ \A a \in DOMAIN rows' : /\ rows'[a].label \in Nat
                                                        /\ source = "claude" => rows'[a].label = a
  BY DEF IsInventory
<1>2. IsInventory(onFile)' <=> /\ DOMAIN onFile' \in SUBSET Account
                               /\ ReaderAccepts(onFile')
                               /\ \A a \in DOMAIN onFile' : /\ onFile'[a].label \in Nat
                                                            /\ source = "claude" => onFile'[a].label = a
  BY DEF IsInventory
<1>3. CASE UNCHANGED <<rows, onFile>> \/ (rows' = rows /\ onFile' = rows)
  BY <1>1, <1>2, <1>3 DEF InventoryInv, IsInventory
<1>4. CASE rows' = new /\ onFile' = new /\ ~(Cardinality(inventory) > AccountLimit)
  <2>1. inventory \in SUBSET Account /\ (\A a \in inventory : a \in DOMAIN rows \/ a \in DOMAIN listed)
    BY DEF InventoryInv, IsInventory, IsListing
  <2>2. Cardinality(inventory) <= AccountLimit
    <3>1. IsFiniteSet(inventory)
      BY <2>1, QuotaAssumption, FS_Subset
    <3>. HIDE DEF inventory
    <3>2. Cardinality(inventory) \in Nat
      BY <3>1, FS_CardinalityType
    <3>. QED BY <1>4, <3>2, QuotaAssumption
  <2>3. \A a \in inventory : /\ new[a].label \in Nat
                             /\ source = "claude" => new[a].label = a
    BY <2>1 DEF InventoryInv, IsInventory, IsListing
  <2>4. \A a, b \in inventory : a # b => new[a].label # new[b].label
    <3>. SUFFICES ASSUME NEW a \in inventory, NEW b \in inventory, a # b
                  PROVE  new[a].label # new[b].label
      OBVIOUS
    <3>1. \A x \in inventory : new[x].label = IF x \in DOMAIN rows THEN rows[x].label ELSE listed[x].label
      OBVIOUS
    <3>. HIDE DEF new, inventory
    <3>2. CASE a \in DOMAIN rows /\ b \in DOMAIN rows
      BY <3>1, <3>2 DEF InventoryInv, IsInventory, ReaderAccepts
    <3>3. CASE a \in DOMAIN rows /\ b \notin DOMAIN rows
      BY <2>1, <3>1, <3>3 DEF IsListing
    <3>4. CASE a \notin DOMAIN rows /\ b \in DOMAIN rows
      BY <2>1, <3>1, <3>4 DEF IsListing
    <3>5. CASE a \notin DOMAIN rows /\ b \notin DOMAIN rows
      BY <2>1, <3>1, <3>5 DEF IsListing
    <3>. QED BY <3>2, <3>3, <3>4, <3>5
  <2>5. \A a, b \in inventory : a # b => ~(new[a].active /\ new[b].active)
    <3>. SUFFICES ASSUME NEW a \in inventory, NEW b \in inventory, a # b,
                         Active(listed, a), Active(listed, b)
                  PROVE  FALSE
      OBVIOUS
    <3>. QED BY <2>1 DEF Active, InventoryInv, IsInventory, ReaderAccepts, IsListing
  <2>6. DOMAIN new = inventory
    OBVIOUS
  <2>. HIDE DEF new, inventory
  <2>7. ReaderAccepts(new)
    BY <2>2, <2>4, <2>5, <2>6 DEF ReaderAccepts
  <2>. QED BY <1>1, <1>2, <1>4, <2>1, <2>3, <2>6, <2>7 DEF InventoryInv
<1>5. \/ UNCHANGED <<rows, onFile>> \/ (rows' = rows /\ onFile' = rows)
      \/ rows' = new /\ onFile' = new /\ ~(Cardinality(inventory) > AccountLimit)
  BY DEF Collect, InventoryAfter
<1>. QED BY <1>3, <1>4, <1>5 DEF InventoryInv

\* Of the labels taken none is higher.
LEMMA LabelsTakenIs ==
    ASSUME InventoryInv
    PROVE  LabelsTaken \in Nat /\ \A a \in DOMAIN rows : rows[a].label <= LabelsTaken
<1>. DEFINE label == [a \in DOMAIN rows |-> rows[a].label]
            L == {rows[a].label : a \in DOMAIN rows}
            N == {0} \cup L
<1>1. IsFiniteSet(N)
  <2>1. IsFiniteSet(DOMAIN rows)
    BY QuotaAssumption, FS_Subset DEF InventoryInv, IsInventory
  <2>2. label \in Surjection(DOMAIN rows, L)
    BY DEF Surjection
  <2>3. IsFiniteSet(L)
    BY <2>1, <2>2, FS_Surjection
  <2>. QED BY <2>3, FS_AddElement
<1>2. N \in SUBSET Nat /\ N # {}
  BY DEF InventoryInv, IsInventory
<1>. HIDE DEF N
<1>3. LabelsTaken \in N /\ \A m \in N : LabelsTaken >= m
  BY <1>1, <1>2, LargestElement DEF LabelsTaken, N
<1>. QED BY <1>2, <1>3 DEF N

\* New Codex accounts are numbered one by one above the labels taken.
LEMMA CodexListing ==
    ASSUME InventoryInv, source = "codex", NEW run \in CodexRuns
    PROVE  IsListing(CodexListed(run.told))
<1>. DEFINE told == run.told
            listed == CodexListed(told)
            named == {a \in actual : told[a] \in {"read", "error", "malformed"}}
            new == named \ DOMAIN rows
            UpTo(a) == {b \in new : b <= a}
<1>1. /\ DOMAIN listed \subseteq named
      /\ \A a \in DOMAIN listed : /\ listed[a].active = FALSE
                                  /\ listed[a].label = LabelsTaken + Cardinality(UpTo(a))
  BY DEF CodexListed
<1>2. named \in SUBSET Account /\ new \in SUBSET Account /\ Account \subseteq Nat
  BY QuotaAssumption DEF InventoryInv
<1>. HIDE DEF named, new
<1>3. \A a \in new : IsFiniteSet(UpTo(a)) /\ Cardinality(UpTo(a)) \in Nat /\ a \in UpTo(a)
  <2>. SUFFICES ASSUME NEW a \in new
                PROVE  IsFiniteSet(UpTo(a)) /\ Cardinality(UpTo(a)) \in Nat /\ a \in UpTo(a)
    OBVIOUS
  <2>1. UpTo(a) \in SUBSET Account /\ a \in UpTo(a)
    <3>1. a \in Nat /\ a <= a
      BY <1>2
    <3>. QED BY <1>2, <3>1
  <2>. HIDE DEF UpTo
  <2>. QED BY <2>1, QuotaAssumption, FS_Subset, FS_CardinalityType
<1>4. \A a \in new : Cardinality(UpTo(a)) >= 1
  <2>. SUFFICES ASSUME NEW a \in new PROVE Cardinality(UpTo(a)) >= 1
    OBVIOUS
  <2>1. Cardinality(UpTo(a)) \in Nat /\ UpTo(a) # {} /\ IsFiniteSet(UpTo(a))
    BY <1>3
  <2>. HIDE DEF UpTo
  <2>2. Cardinality(UpTo(a)) # 0
    BY <2>1, FS_EmptySet
  <2>. QED BY <2>1, <2>2
<1>5. ASSUME NEW a \in new, NEW b \in new, a < b
      PROVE  Cardinality(UpTo(a)) < Cardinality(UpTo(b))
  <2>1. UpTo(a) \in SUBSET UpTo(b) /\ b \in UpTo(b) /\ b \notin UpTo(a)
    <3>1. /\ a \in Nat /\ b \in Nat /\ b <= b /\ ~(b <= a)
          /\ \A x \in new : x <= a => x <= b
      BY <1>2, <1>5
    <3>. QED BY <3>1
  <2>2. /\ IsFiniteSet(UpTo(b)) /\ Cardinality(UpTo(a)) \in Nat /\ Cardinality(UpTo(b)) \in Nat
    BY <1>3
  <2>. HIDE DEF UpTo
  <2>3. Cardinality(UpTo(a)) <= Cardinality(UpTo(b)) /\ Cardinality(UpTo(a)) # Cardinality(UpTo(b))
    BY <2>1, <2>2, FS_Subset
  <2>. QED BY <2>2, <2>3
<1>6. LabelsTaken \in Nat /\ \A a \in DOMAIN rows : rows[a].label <= LabelsTaken /\ rows[a].label \in Nat
  BY LabelsTakenIs DEF InventoryInv, IsInventory
<1>. HIDE DEF listed, UpTo
<1>7. ASSUME NEW a \in DOMAIN listed \ DOMAIN rows
      PROVE  /\ listed[a].label \in Nat
             /\ \A b \in DOMAIN rows : listed[a].label # rows[b].label
             /\ \A b \in DOMAIN listed \ DOMAIN rows : listed[a].label = listed[b].label => a = b
  <2>1. a \in new /\ listed[a].label = LabelsTaken + Cardinality(UpTo(a)) /\ Cardinality(UpTo(a)) \in Nat
        /\ Cardinality(UpTo(a)) >= 1
    BY <1>1, <1>3, <1>4 DEF new
  <2>2. ASSUME NEW b \in DOMAIN listed \ DOMAIN rows, listed[a].label = listed[b].label PROVE a = b
    <3>1. /\ b \in new /\ listed[b].label = LabelsTaken + Cardinality(UpTo(b))
          /\ Cardinality(UpTo(b)) \in Nat /\ a \in Nat /\ b \in Nat
      BY <1>1, <1>2, <1>3, <2>1 DEF new
    <3>2. Cardinality(UpTo(a)) = Cardinality(UpTo(b))
      BY <1>6, <2>1, <2>2, <3>1
    <3>3. ~(a < b) /\ ~(b < a)
      BY <1>5, <2>1, <3>1, <3>2
    <3>. QED BY <3>1, <3>3
  <2>. QED BY <1>6, <2>1, <2>2
<1>8. IsListing(listed)
  BY <1>1, <1>2, <1>7 DEF IsListing
<1>. QED BY <1>8 DEF listed

LEMMA ClaudeListing ==
    ASSUME InventoryInv, source = "claude", NEW named \in SUBSET actual, NEW mark \in SUBSET named,
           Cardinality(mark) = IF named = {} THEN 0 ELSE 1,
           NEW listed, DOMAIN listed = named,
           \A a \in named : listed[a].label = a /\ listed[a].active = (a \in mark)
    PROVE  IsListing(listed)
<1>1. \A a, b \in mark : a = b
  <2>1. IsFiniteSet(mark)
    BY QuotaAssumption, FS_Subset DEF InventoryInv
  <2>2. CASE named = {}
    BY <2>2
  <2>3. CASE named # {}
    <3>1. \E x : mark = {x}
      BY <2>1, <2>3, FS_Singleton
    <3>. QED BY <3>1
  <2>. QED BY <2>2, <2>3
<1>2. \A a \in named : a \in Account /\ a \in Nat
  BY QuotaAssumption DEF InventoryInv
<1>3. \A b \in DOMAIN rows : rows[b].label = b
  BY DEF InventoryInv, IsInventory
<1>4. DOMAIN listed \in SUBSET Account
  BY DEF InventoryInv
<1>5. \A a, b \in DOMAIN listed : listed[a].active /\ listed[b].active => a = b
  BY <1>1
<1>6. \A a \in DOMAIN listed \ DOMAIN rows :
         /\ listed[a].label \in Nat /\ listed[a].label = a
         /\ \A b \in DOMAIN rows : listed[a].label # rows[b].label
         /\ \A b \in DOMAIN listed \ DOMAIN rows : listed[a].label = listed[b].label => a = b
  BY <1>2, <1>3
<1>. QED BY <1>4, <1>5, <1>6 DEF IsListing

LEMMA InventoryStep == InventoryInv /\ [QuotaNext]_quotaVars => InventoryInv'
<1>. SUFFICES ASSUME InventoryInv, [QuotaNext]_quotaVars PROVE InventoryInv'
  OBVIOUS
<1>1. CASE Measure \/ AccountsChange \/ UNCHANGED quotaVars
  BY <1>1 DEF Measure, AccountsChange, quotaVars, InventoryInv, IsInventory
<1>2. CASE QuotaRestart
  BY <1>2, EmptyInventory DEF QuotaRestart, InventoryInv, IsInventory
<1>3. CASE CodexPass
  <2>1. PICK run \in CodexRuns : Collect(CodexListed(run.told), Complete(run))
    BY <1>3 DEF CodexPass, CodexAnswers
  <2>2. source = "codex" /\ UNCHANGED <<source, actual>>
    BY <1>3 DEF CodexPass
  <2>. QED BY <2>1, <2>2, CodexListing, CollectReadable
<1>4. CASE ClaudePass
  <2>0. PICK named \in SUBSET actual :
          \E fetched \in SUBSET named, mark \in SUBSET named :
             /\ Cardinality(mark) = IF named = {} THEN 0 ELSE 1
             /\ \E lastGood \in [named \ fetched -> Instants] :
                   Collect([a \in named |-> [label |-> a, active |-> a \in mark, read |-> a \in fetched,
                                             at |-> IF a \in fetched THEN reading ELSE lastGood[a]]],
                           fetched = named)
    BY <1>4 DEF ClaudePass, Instants
  <2>1. PICK fetched \in SUBSET named, mark \in SUBSET named :
             /\ Cardinality(mark) = IF named = {} THEN 0 ELSE 1
             /\ \E lastGood \in [named \ fetched -> Instants] :
                   Collect([a \in named |-> [label |-> a, active |-> a \in mark, read |-> a \in fetched,
                                             at |-> IF a \in fetched THEN reading ELSE lastGood[a]]],
                           fetched = named)
    BY <2>0
  <2>2. PICK lastGood \in [named \ fetched -> Instants] :
          Collect([a \in named |-> [label |-> a, active |-> a \in mark, read |-> a \in fetched,
                                    at |-> IF a \in fetched THEN reading ELSE lastGood[a]]],
                  fetched = named)
    BY <2>1
  <2>. DEFINE listed == [a \in named |-> [label |-> a, active |-> a \in mark, read |-> a \in fetched,
                                          at |-> IF a \in fetched THEN reading ELSE lastGood[a]]]
  <2>3. /\ Collect(listed, fetched = named) /\ UNCHANGED <<source, actual>> /\ source = "claude"
        /\ DOMAIN listed = named
        /\ \A a \in named : listed[a].label = a /\ listed[a].active = (a \in mark)
    BY <1>4, <2>2 DEF ClaudePass
  <2>. HIDE DEF listed
  <2>4. IsListing(listed)
    BY <2>1, <2>3, ClaudeListing
  <2>. QED BY <2>3, <2>4, CollectReadable
<1>5. CASE UnansweredPass
  <2>1. IsListing(NoRows)
    BY DEF IsListing, NoRows
  <2>. QED BY <1>5, <2>1, CollectReadable DEF UnansweredPass
<1>. QED BY <1>1, <1>2, <1>3, <1>4, <1>5 DEF QuotaNext

\* For any accounts and any limit: the snapshot file never holds a row its
\* reader refuses, though labels outlive answers, failed writes and restarts
\* (formatQuotaSnapshot against parseProviderQuotaAccounts).
THEOREM InventoryReadable == QuotaSpec => []QuotaReadable
<1>1. QuotaInit => InventoryInv
  BY EmptyInventory DEF QuotaInit, InventoryInv, IsInventory
<1>2. InventoryInv => QuotaReadable
  BY DEF InventoryInv, IsInventory, QuotaReadable
<1>. QED BY <1>1, <1>2, InventoryStep, PTL DEF QuotaSpec

-----------------------------------------------------------------------------
(****************************************************************************)
(* The hands on the board: a drag never outlives its stroke, a click       *)
(* settles the press of its own stroke, and what was meant for one sheet   *)
(* reaches no other.                                                       *)
(****************************************************************************)

\* A stroke that drags was not held long: a long press takes it over only
\* before the axes are decided.
DragInv ==
    /\ stroke \in {Off} \cup Stroke
    /\ phase \in {"idle", "dragging", "settling"}
    /\ phase = "dragging" => stroke # Off /\ stroke.drag /\ ~stroke.long

LEMMA DragInitInv == TouchInit => DragInv
  BY DEF TouchInit, DragInv

LEMMA FreshIsStroke == Fresh \in Stroke /\ ~Fresh.drag
  BY DEF Fresh, Stroke

\* What leaves both the stroke and the session alone.
LEMMA RestKeepsDrag ==
    ASSUME DragInv, UNCHANGED <<stroke, phase>>
    PROVE  DragInv'
  BY DEF DragInv

\* A stroke that ends takes its drag with it.
LEMMA EndKeepsDrag ==
    ASSUME DragInv, stroke' = Off, phase' \in {"idle", "dragging", "settling"},
           phase' = "dragging" => phase = "dragging" /\ (stroke = Off \/ ~stroke.drag)
    PROVE  DragInv'
  BY DEF DragInv

LEMMA DownKeepsDrag ==
    ASSUME DragInv, NEW card, PointerDown(card) PROVE DragInv'
<1>1. UNCHANGED phase
  BY DEF PointerDown, paging
<1>2. CASE stroke = Off
  BY <1>1, <1>2, FreshIsStroke DEF PointerDown, DragInv
<1>3. CASE stroke # Off
  BY <1>1, <1>3 DEF PointerDown, DragInv
<1>. QED BY <1>2, <1>3

LEMMA MovesKeepDrag ==
    ASSUME DragInv, MoveSlop \/ MoveVertical \/ MoveHorizontal PROVE DragInv'
<1>1. stroke \in Stroke /\ ~stroke.long
  BY DEF DragInv, MoveSlop, MoveVertical, MoveHorizontal, MoveTo
<1>2. CASE MoveSlop
  <2>1. stroke' = [stroke EXCEPT !.moved = TRUE] /\ UNCHANGED phase
    BY <1>2 DEF MoveSlop, MoveTo
  <2>2. stroke' \in Stroke /\ stroke'.drag = stroke.drag /\ ~stroke'.long
    BY <1>1, <2>1 DEF Stroke
  <2>. QED BY <2>1, <2>2, TouchAssumption DEF DragInv
<1>3. CASE MoveVertical
  <2>1. stroke' = [stroke EXCEPT !.moved = TRUE, !.vertical = TRUE] /\ UNCHANGED phase
    BY <1>3 DEF MoveVertical, MoveTo
  <2>2. stroke' \in Stroke /\ phase # "dragging"
    BY <1>1, <1>3, <2>1 DEF Stroke, MoveVertical, Undecided, DragInv
  <2>. QED BY <2>1, <2>2 DEF DragInv
<1>4. CASE MoveHorizontal
  <2>1. stroke' = [stroke EXCEPT !.moved = TRUE, !.drag = TRUE]
    BY <1>4 DEF MoveHorizontal, MoveTo
  <2>2. stroke' \in Stroke /\ stroke'.drag /\ ~stroke'.long
    BY <1>1, <2>1 DEF Stroke
  <2>3. phase' \in {"idle", "dragging", "settling"}
    BY <1>4 DEF MoveHorizontal, StartDrag, DragInv
  <2>. QED BY <2>2, <2>3, TouchAssumption DEF DragInv
<1>. QED BY <1>2, <1>3, <1>4

LEMMA LongPressKeepsDrag ==
    ASSUME DragInv, LongPressTick PROVE DragInv'
<1>1. stroke \in Stroke /\ phase # "dragging" /\ UNCHANGED phase
  BY DEF DragInv, LongPressTick, paging
<1>2. stroke' = Off \/ stroke' = [stroke EXCEPT !.long = TRUE]
  BY DEF LongPressTick, LongPressOn
<1>3. stroke' \in {Off} \cup Stroke
  BY <1>1, <1>2 DEF Stroke
<1>. QED BY <1>1, <1>3 DEF DragInv

LEMMA MenuKeepsDrag ==
    ASSUME DragInv, NEW card, ContextMenu(card) PROVE DragInv'
<1>1. UNCHANGED phase
  BY DEF ContextMenu, paging
<1>2. CASE stroke # Off /\ (stroke.long \/ stroke.drag \/ stroke.moved)
  <2>1. UNCHANGED stroke
    BY <1>2 DEF ContextMenu
  <2>. QED BY <1>1, <2>1, RestKeepsDrag
<1>3. CASE ~(stroke # Off /\ (stroke.long \/ stroke.drag \/ stroke.moved))
  <2>1. phase # "dragging"
    BY <1>3 DEF DragInv
  <2>2. stroke' = Off \/ (stroke # Off /\ stroke' = [stroke EXCEPT !.long = TRUE])
    BY <1>3 DEF ContextMenu
  <2>3. stroke' \in {Off} \cup Stroke
    BY <2>2 DEF DragInv, Stroke
  <2>. QED BY <1>1, <2>1, <2>3 DEF DragInv
<1>. QED BY <1>2, <1>3

LEMMA UpKeepsDrag ==
    ASSUME DragInv, NEW how, PointerUp(how) PROVE DragInv'
<1>1. stroke' = Off
  BY DEF PointerUp, Lift
<1>2. CASE how = "drag"
  <2>1. phase' \in {"idle", "dragging", "settling"} /\ phase' # "dragging"
    BY <1>2 DEF PointerUp, ReleaseDrag, DragInv
  <2>. QED BY <1>1, <2>1, EndKeepsDrag
<1>3. CASE how # "drag"
  <2>1. UNCHANGED phase
    BY <1>3 DEF PointerUp
  <2>2. stroke = Off \/ ~(stroke.drag /\ ~stroke.long)
    BY <1>3 DEF PointerUp, Up, DragInv, Stroke
  <2>. QED BY <1>1, <2>1, <2>2 DEF DragInv
<1>. QED BY <1>2, <1>3

LEMMA CancelKeepsDrag ==
    ASSUME DragInv, CancelStroke PROVE DragInv'
<1>1. stroke' = Off /\ phase' \in {"idle", "dragging", "settling"}
  BY DEF CancelStroke, CancelDrag, DragInv
<1>2. phase' # "dragging"
  BY DEF CancelStroke, CancelDrag, DragInv
<1>. QED BY <1>1, <1>2 DEF DragInv

LEMMA DragStepInv == DragInv /\ [TouchNext]_touchVars => DragInv'
<1>. SUFFICES ASSUME DragInv, [TouchNext]_touchVars PROVE DragInv'
  OBVIOUS
<1>1. ASSUME NEW card \in Under, PointerDown(card) \/ ContextMenu(card) PROVE DragInv'
  BY <1>1, DownKeepsDrag, MenuKeepsDrag
<1>2. CASE MoveSlop \/ MoveVertical \/ MoveHorizontal
  BY <1>2, MovesKeepDrag
<1>3. CASE LongPressTick
  BY <1>3, LongPressKeepsDrag
<1>4. ASSUME NEW how, PointerUp(how) PROVE DragInv'
  BY <1>4, UpKeepsDrag
<1>5. CASE PointerCancel \/ CaptureLost
  BY <1>5, CancelKeepsDrag DEF PointerCancel, CaptureLost
<1>6. CASE TrailingClick \/ ClickOnSheet \/ ScrollFlicks \/ DismissSheet
  BY <1>6, RestKeepsDrag
     DEF TrailingClick, ClickOnSheet, ScrollFlicks, DismissSheet, paging, strokes
<1>7. ASSUME NEW to \in Page, KeyClick(to) \/ PipTap(to) \/ ScrollPages(to) PROVE DragInv'
  BY <1>7, RestKeepsDrag DEF KeyClick, PipTap, ScrollPages
<1>8. ASSUME NEW card \in grid, ScrollStarts(card) PROVE DragInv'
  BY <1>8, RestKeepsDrag DEF ScrollStarts, paging
<1>9. CASE Settled \/ Snapshot
  BY <1>9 DEF Settled, Snapshot, DragInv, strokes, paging
<1>10. ASSUME NEW id \in Action, SheetTap(id) PROVE DragInv'
  BY <1>10, RestKeepsDrag DEF SheetTap, strokes, paging
<1>11. ASSUME NEW f \in flights, NEW ok \in BOOLEAN, SheetSettles(f, ok) PROVE DragInv'
  BY <1>11, RestKeepsDrag DEF SheetSettles, strokes, paging
<1>12. CASE UNCHANGED touchVars
  BY <1>12, RestKeepsDrag DEF touchVars, strokes, paging
<1>. QED
  BY <1>1, <1>2, <1>3, <1>4, <1>5, <1>6, <1>7, <1>8, <1>9, <1>10, <1>11, <1>12 DEF TouchNext

\* The paging session drags only while a live stroke of the finger drags it:
\* no cancel, no lost capture and no long press leaves the board waiting for
\* an end that does not come (pagingSession, createStrokeRecognizer).
THEOREM DragNeverStranded == TouchSpec => []DragHasItsStroke
<1>1. DragInv => DragHasItsStroke
  BY DEF DragInv, DragHasItsStroke
<1>. QED BY <1>1, DragInitInv, DragStepInv, PTL DEF TouchSpec

-----------------------------------------------------------------------------
(***************************************************************************)
(* Clicks.                                                                 *)
(***************************************************************************)
\* A captured press belongs to the live stroke; a press that waits while a
\* click is due is that click's, unless the click will be swallowed.
ClickInv ==
    /\ press # Off => stroke # Off /\ press.stroke = count
    /\ click # Off /\ waiting # Off /\ ~armed => click.clean /\ waiting.stroke = click.stroke

LEMMA ClickInitInv == TouchInit => ClickInv
  BY DEF TouchInit, ClickInv

LEMMA RestKeepsClicks ==
    ASSUME ClickInv, UNCHANGED <<stroke, press, count, click, waiting, armed>>
    PROVE  ClickInv'
  BY DEF ClickInv

LEMMA LiftKeepsClicks ==
    ASSUME ClickInv, NEW how, PointerUp(how)
    PROVE  ClickInv'
<1>1. /\ press' = Off /\ waiting' \in {Off, press}
      /\ click' \in {Off, [stroke |-> count, clean |-> how = "clean"]}
      /\ armed' = (armed \/ (stroke # Off /\ ~(how = "clean")))
  BY DEF PointerUp, Lift
<1>2. CASE stroke = Off
  BY <1>1, <1>2 DEF ClickInv
<1>3. CASE stroke # Off
  <2>. SUFFICES ASSUME click' # Off, waiting' # Off, ~armed'
                PROVE  click'.clean /\ waiting'.stroke = click'.stroke
    BY <1>1 DEF ClickInv
  <2>1. how = "clean" /\ waiting' = press /\ press # Off
    BY <1>1, <1>3
  <2>2. click' = [stroke |-> count, clean |-> TRUE]
    BY <1>1, <2>1
  <2>. QED BY <2>1, <2>2 DEF ClickInv
<1>. QED BY <1>2, <1>3

LEMMA ClickStepInv == DragInv /\ ClickInv /\ [TouchNext]_touchVars => ClickInv'
<1>. SUFFICES ASSUME DragInv, ClickInv, [TouchNext]_touchVars PROVE ClickInv'
  OBVIOUS
<1>1. ASSUME NEW card \in Under, PointerDown(card) PROVE ClickInv'
  <2>1. stroke' # Off
    BY <1>1, FreshIsStroke, TouchAssumption DEF PointerDown
  <2>2. press' # Off => press'.stroke = count'
    BY <1>1 DEF PointerDown, Captured
  <2>3. waiting' = Off
    BY <1>1 DEF PointerDown
  <2>. QED BY <2>1, <2>2, <2>3 DEF ClickInv
<1>2. ASSUME NEW card \in Under, ContextMenu(card) PROVE ClickInv'
  <2>0. UNCHANGED <<count, waiting, click>>
    BY <1>2 DEF ContextMenu
  <2>1. CASE stroke # Off /\ (stroke.long \/ stroke.drag \/ stroke.moved)
    <3>1. UNCHANGED <<stroke, armed>> /\ (press' = press \/ press' = [card |-> card, stroke |-> count])
      BY <1>2, <2>1 DEF ContextMenu
    <3>2. press' # Off => press'.stroke = count
      BY <3>1 DEF ClickInv
    <3>. QED BY <2>0, <2>1, <3>1, <3>2 DEF ClickInv
  <2>2. CASE ~(stroke # Off /\ (stroke.long \/ stroke.drag \/ stroke.moved))
    <3>1. CASE press' = Off /\ (armed => armed')
      BY <2>0, <3>1 DEF ClickInv
    <3>2. CASE /\ UNCHANGED <<press, armed>>
               /\ stroke' = IF stroke = Off THEN Off ELSE [stroke EXCEPT !.long = TRUE]
      <4>1. stroke # Off => stroke' \in Stroke
        BY <3>2 DEF DragInv, Stroke
      <4>. QED BY <2>0, <3>2, <4>1, TouchAssumption DEF ClickInv
    <3>. QED BY <1>2, <2>2, <3>1, <3>2 DEF ContextMenu
  <2>. QED BY <2>1, <2>2
<1>3. CASE MoveSlop \/ MoveVertical \/ MoveHorizontal
  <2>1. stroke \in Stroke /\ UNCHANGED <<count, press, waiting, armed, click>>
    BY <1>3 DEF DragInv, MoveSlop, MoveVertical, MoveHorizontal, MoveTo
  <2>2. \/ stroke' = [stroke EXCEPT !.moved = TRUE]
        \/ stroke' = [stroke EXCEPT !.moved = TRUE, !.vertical = TRUE]
        \/ stroke' = [stroke EXCEPT !.moved = TRUE, !.drag = TRUE]
    BY <1>3 DEF MoveSlop, MoveVertical, MoveHorizontal, MoveTo
  <2>3. stroke' \in Stroke
    BY <2>1, <2>2 DEF Stroke
  <2>. QED BY <2>1, <2>3, TouchAssumption DEF ClickInv
<1>4. CASE LongPressTick
  <2>1. press' = Off /\ (armed => armed') /\ UNCHANGED <<waiting, click>>
    BY <1>4 DEF LongPressTick, LongPressOn
  <2>. QED BY <2>1 DEF ClickInv
<1>5. ASSUME NEW how, PointerUp(how) PROVE ClickInv'
  BY <1>5, LiftKeepsClicks
<1>6. CASE PointerCancel \/ CaptureLost
  <2>1. press' = Off /\ armed' = armed /\ (waiting' = Off \/ UNCHANGED <<waiting, click>>)
    BY <1>6 DEF PointerCancel, CaptureLost, CancelStroke
  <2>. QED BY <2>1 DEF ClickInv
<1>7. CASE TrailingClick \/ ClickOnSheet
  <2>1. click' = Off /\ UNCHANGED <<stroke, press, count>>
    BY <1>7 DEF TrailingClick, ClickOnSheet
  <2>. QED BY <2>1 DEF ClickInv
<1>8. ASSUME NEW to \in Page, KeyClick(to) \/ PipTap(to) PROVE ClickInv'
  <2>1. waiting' = Off /\ UNCHANGED <<stroke, press, count>>
    BY <1>8 DEF KeyClick, PipTap
  <2>. QED BY <2>1 DEF ClickInv
<1>9. ASSUME NEW to \in Page, ScrollPages(to) PROVE ClickInv'
  BY <1>9, RestKeepsClicks DEF ScrollPages
<1>10. ASSUME NEW card \in grid, ScrollStarts(card) PROVE ClickInv'
  BY <1>10, RestKeepsClicks DEF ScrollStarts
<1>11. CASE ScrollFlicks \/ Settled \/ Snapshot \/ DismissSheet \/ UNCHANGED touchVars
  BY <1>11, RestKeepsClicks DEF ScrollFlicks, Settled, Snapshot, DismissSheet, touchVars, strokes
<1>12. ASSUME NEW id \in Action, SheetTap(id) PROVE ClickInv'
  BY <1>12, RestKeepsClicks DEF SheetTap, strokes
<1>13. ASSUME NEW f \in flights, NEW ok \in BOOLEAN, SheetSettles(f, ok) PROVE ClickInv'
  BY <1>13, RestKeepsClicks DEF SheetSettles, strokes
<1>. QED
  BY <1>1, <1>2, <1>3, <1>4, <1>5, <1>6, <1>7, <1>8, <1>9, <1>10, <1>11, <1>12, <1>13 DEF TouchNext

\* No press outlives its stroke to be settled by the click of a later one,
\* whatever cancels, menus, pips and scroll bursts come between (main.ts'
\* pendingPress, pressAwaitingClick and the click suppression).
THEOREM ClicksSettleTheirOwn == TouchSpec => ClickSettlesItsOwnStroke
<1>1. ClickInv => SettlesOwnStroke
  BY DEF ClickInv, SettlesOwnStroke, TrailingClick
<1>2. []ClickInv => [][SettlesOwnStroke]_touchVars
  BY <1>1, PTL
<1>. QED
  BY <1>2, DragInitInv, DragStepInv, ClickInitInv, ClickStepInv, PTL
     DEF TouchSpec, ClickSettlesItsOwnStroke

-----------------------------------------------------------------------------
(***************************************************************************)
(* Sheets.                                                                 *)
(***************************************************************************)
\* An answer of the current generation was asked from the open sheet, and an
\* armed Clear was armed by the last tap on it.
SheetInv ==
    /\ grid \subseteq Card /\ gen \in 0..MaxSheets /\ opened \in 0..gen
    /\ sheet \in {Off} \cup Sheet
    /\ \A f \in flights : /\ f.gen \in 0..gen /\ f.card \in Card /\ f.sheet \in 1..MaxSheets
                          /\ f.gen = gen => sheet # Off /\ sheet.sheet = f.sheet
    /\ clearArmed => /\ sheet # Off /\ pending = Off
                     /\ lastTap = [kind |-> "clear", sheet |-> sheet.sheet]

LEMMA SheetInitInv == TouchInit => SheetInv
  BY TouchAssumption DEF TouchInit, SheetInv

LEMMA RestKeepsSheets ==
    ASSUME SheetInv, UNCHANGED actions, grid' \in SUBSET Card
    PROVE  SheetInv'
  BY DEF SheetInv, actions

\* A new generation leaves every answer of the old ones behind.
LEMMA AdvanceKeepsSheets ==
    ASSUME SheetInv, AdvanceGeneration, sheet' \in {Off} \cup Sheet,
           opened' \in {opened, opened + 1}, flights' \subseteq flights, grid' = grid
    PROVE  SheetInv'
<1>1. /\ gen \in Nat /\ gen' = gen + 1 /\ gen' \in 0..MaxSheets /\ opened' \in 0..gen'
      /\ clearArmed' = FALSE
  BY TouchAssumption DEF SheetInv, AdvanceGeneration
<1>2. \A f \in flights : f.gen \in 0..gen' /\ f.gen # gen'
  BY <1>1 DEF SheetInv
<1>. QED BY <1>1, <1>2 DEF SheetInv

LEMMA OpenKeepsSheets ==
    ASSUME SheetInv, NEW card, OpenSheet(card), grid' = grid
    PROVE  SheetInv'
<1>1. CASE card \in grid
  <2>1. AdvanceGeneration /\ opened' = opened + 1 /\ flights' = flights
        /\ sheet' = [card |-> card, sheet |-> opened + 1]
    BY <1>1 DEF OpenSheet
  <2>2. card \in Card /\ opened + 1 \in 1..MaxSheets
    BY <1>1, <2>1, TouchAssumption DEF SheetInv, AdvanceGeneration
  <2>. QED BY <2>1, <2>2, AdvanceKeepsSheets DEF Sheet
<1>2. CASE card \notin grid
  BY <1>2, RestKeepsSheets DEF OpenSheet, SheetInv
<1>. QED BY <1>1, <1>2

LEMMA TapKeepsSheets ==
    ASSUME SheetInv, NEW id \in Action, SheetTap(id)
    PROVE  SheetInv'
<1>1. /\ sheet \in Sheet /\ sheet # Off /\ UNCHANGED <<grid, opened>>
      /\ lastTap' = [kind |-> id, sheet |-> sheet.sheet]
  BY DEF SheetTap, SheetInv
<1>2. CASE pending # Off /\ UNCHANGED <<sheet, gen, clearArmed, pending, flights>>
  BY <1>1, <1>2 DEF SheetInv
<1>3. CASE id = "clear" /\ pending = Off /\ clearArmed' = TRUE /\ UNCHANGED <<sheet, gen, pending, flights>>
  BY <1>1, <1>3 DEF SheetInv
<1>4. CASE Dismiss /\ UNCHANGED flights
  BY <1>1, <1>4, AdvanceKeepsSheets DEF Dismiss
<1>5. CASE /\ clearArmed' = FALSE /\ UNCHANGED <<sheet, gen>>
           /\ flights' = flights \cup {[gen |-> gen, action |-> id, card |-> sheet.card,
                                        sheet |-> sheet.sheet]}
  <2>. DEFINE f == [gen |-> gen, action |-> id, card |-> sheet.card, sheet |-> sheet.sheet]
  <2>1. /\ f.gen \in 0..gen /\ f.card \in Card /\ f.sheet \in 1..MaxSheets
        /\ sheet # Off /\ sheet.sheet = f.sheet
    BY <1>1 DEF SheetInv, Sheet
  <2>2. flights' = flights \cup {f}
    BY <1>5
  <2>. HIDE DEF f
  <2>. QED BY <1>1, <1>5, <2>1, <2>2 DEF SheetInv
<1>. QED BY <1>2, <1>3, <1>4, <1>5 DEF SheetTap

LEMMA SettlementKeepsSheets ==
    ASSUME SheetInv, NEW f \in flights, NEW ok, SheetSettles(f, ok)
    PROVE  SheetInv'
<1>1. flights' \subseteq flights /\ UNCHANGED <<grid, opened, lastTap>>
  BY DEF SheetSettles
<1>2. CASE UNCHANGED <<sheet, gen, clearArmed, pending>>
  BY <1>1, <1>2 DEF SheetInv
<1>3. CASE Dismiss
  BY <1>1, <1>3, AdvanceKeepsSheets DEF Dismiss
<1>4. CASE /\ OwnsSheet(f) /\ pending' = Off /\ UNCHANGED <<gen, clearArmed>>
           /\ sheet' = [card |-> f.card, sheet |-> f.sheet]
  <2>1. sheet' \in Sheet /\ sheet' # Off
    BY <1>4, TouchAssumption DEF SheetInv, Sheet
  <2>2. sheet'.sheet = sheet.sheet
    BY <1>4 DEF SheetInv, OwnsSheet
  <2>. QED BY <1>1, <1>4, <2>1, <2>2 DEF SheetInv
<1>. QED BY <1>2, <1>3, <1>4 DEF SheetSettles

LEMMA SheetStepInv == SheetInv /\ [TouchNext]_touchVars => SheetInv'
<1>. SUFFICES ASSUME SheetInv, [TouchNext]_touchVars PROVE SheetInv'
  OBVIOUS
<1>0. UNCHANGED <<grid, actions>> => SheetInv'
  BY RestKeepsSheets DEF SheetInv
<1>1. ASSUME NEW card \in Under, PointerDown(card) \/ ContextMenu(card) PROVE SheetInv'
  <2>1. CASE PointerDown(card)
    BY <1>0, <2>1 DEF PointerDown
  <2>2. CASE ContextMenu(card)
    <3>1. grid' = grid /\ (UNCHANGED actions \/ \E c : OpenSheet(c))
      BY <2>2 DEF ContextMenu
    <3>. QED BY <1>0, <3>1, OpenKeepsSheets
  <2>. QED BY <1>1, <2>1, <2>2
<1>2. CASE MoveSlop \/ MoveVertical \/ MoveHorizontal
  BY <1>0, <1>2 DEF MoveSlop, MoveVertical, MoveHorizontal, MoveTo
<1>3. CASE LongPressTick
  <2>1. grid' = grid /\ (UNCHANGED actions \/ \E c : OpenSheet(c))
    BY <1>3 DEF LongPressTick, LongPressOn
  <2>. QED BY <1>0, <2>1, OpenKeepsSheets
<1>4. ASSUME NEW how, PointerUp(how) PROVE SheetInv'
  BY <1>0, <1>4 DEF PointerUp, Lift
<1>5. CASE PointerCancel \/ CaptureLost
  BY <1>0, <1>5 DEF PointerCancel, CaptureLost, CancelStroke
<1>6. CASE TrailingClick \/ ClickOnSheet \/ ScrollFlicks
  BY <1>0, <1>6 DEF TrailingClick, ClickOnSheet, ScrollFlicks
<1>7. ASSUME NEW to \in Page, KeyClick(to) \/ PipTap(to) \/ ScrollPages(to) PROVE SheetInv'
  <2>1. UNCHANGED actions /\ grid' \in SUBSET Card
    BY <1>7 DEF KeyClick, PipTap, ScrollPages, Turn, SheetInv
  <2>. QED BY <2>1, RestKeepsSheets
<1>8. ASSUME NEW card \in grid, ScrollStarts(card) PROVE SheetInv'
  BY <1>0, <1>8 DEF ScrollStarts
<1>9. CASE Settled \/ Snapshot
  BY <1>9, RestKeepsSheets DEF Settled, Snapshot
<1>10. CASE DismissSheet
  BY <1>10, AdvanceKeepsSheets DEF DismissSheet, Dismiss
<1>11. ASSUME NEW id \in Action, SheetTap(id) PROVE SheetInv'
  BY <1>11, TapKeepsSheets
<1>12. ASSUME NEW f \in flights, NEW ok \in BOOLEAN, SheetSettles(f, ok) PROVE SheetInv'
  BY <1>12, SettlementKeepsSheets
<1>13. CASE UNCHANGED touchVars
  BY <1>0, <1>13 DEF touchVars
<1>. QED
  BY <1>1, <1>2, <1>3, <1>4, <1>5, <1>6, <1>7, <1>8, <1>9, <1>10, <1>11, <1>12, <1>13 DEF TouchNext

\* Whatever the order of taps, dismissals and late answers: an answer moves
\* only the sheet it was asked from, and a Clear that goes out was tapped
\* twice in a row on one sheet (SheetActionState, applySheetSettlement).
THEOREM SheetsApart == TouchSpec => SheetsKeepApart
<1>1. SheetInv /\ [TouchNext]_touchVars => AnswersReachTheirSheet \/ UNCHANGED touchVars
  <2>. SUFFICES ASSUME SheetInv, TouchNext PROVE AnswersReachTheirSheet
    OBVIOUS
  <2>1. ASSUME UNCHANGED flights PROVE AnswersReachTheirSheet
    BY <2>1 DEF AnswersReachTheirSheet
  <2>2. ASSUME NEW f \in flights, NEW ok \in BOOLEAN, SheetSettles(f, ok)
        PROVE  AnswersReachTheirSheet
    <3>1. flights' = flights \ {f} /\ (UNCHANGED <<sheet, pending>> \/ f.gen = gen)
      BY <2>2 DEF SheetSettles, OwnsSheet
    <3>. QED BY <2>2, <3>1 DEF AnswersReachTheirSheet, SheetInv
  <2>3. ASSUME NEW id \in Action, SheetTap(id) PROVE AnswersReachTheirSheet
    <3>1. CASE UNCHANGED flights
      BY <2>1, <3>1
    <3>2. CASE /\ id = "act" \/ (id = "clear" /\ clearArmed)
               /\ flights' = flights \cup {[gen |-> gen, action |-> id, card |-> sheet.card,
                                            sheet |-> sheet.sheet]}
      <4>1. \A f \in flights' \ flights : f.action = id /\ f.sheet = sheet.sheet
        BY <3>2
      <4>2. flights \ flights' = {}
        BY <3>2
      <4>. QED BY <3>2, <4>1, <4>2 DEF AnswersReachTheirSheet, SheetInv
    <3>. QED BY <2>3, <3>1, <3>2 DEF SheetTap
  <2>4. CASE \E card \in Under : PointerDown(card) \/ ContextMenu(card)
    BY <2>1, <2>4 DEF PointerDown, ContextMenu, OpenSheet, actions
  <2>5. CASE MoveSlop \/ MoveVertical \/ MoveHorizontal \/ LongPressTick
    BY <2>1, <2>5 DEF MoveSlop, MoveVertical, MoveHorizontal, MoveTo, LongPressTick, LongPressOn,
                      OpenSheet, actions
  <2>6. ASSUME NEW how, PointerUp(how) PROVE AnswersReachTheirSheet
    BY <2>1, <2>6 DEF PointerUp, Lift, actions
  <2>7. CASE PointerCancel \/ CaptureLost \/ TrailingClick \/ ClickOnSheet \/ ScrollFlicks
    BY <2>1, <2>7 DEF PointerCancel, CaptureLost, CancelStroke, TrailingClick, ClickOnSheet,
                      ScrollFlicks, actions
  <2>8. ASSUME NEW to \in Page, KeyClick(to) \/ PipTap(to) \/ ScrollPages(to)
        PROVE  AnswersReachTheirSheet
    BY <2>1, <2>8 DEF KeyClick, PipTap, ScrollPages, actions
  <2>9. CASE (\E card \in grid : ScrollStarts(card)) \/ Settled \/ Snapshot \/ DismissSheet
    BY <2>1, <2>9 DEF ScrollStarts, Settled, Snapshot, DismissSheet, actions
  <2>. QED BY <2>2, <2>3, <2>4, <2>5, <2>6, <2>7, <2>8, <2>9 DEF TouchNext
<1>2. []SheetInv /\ [][TouchNext]_touchVars => [][AnswersReachTheirSheet]_touchVars
  BY <1>1, PTL
<1>. QED BY <1>2, SheetInitInv, SheetStepInv, PTL DEF TouchSpec, SheetsKeepApart
=============================================================================
