----------------------------- MODULE Migrations -----------------------------
(***************************************************************************)
(* initializeDatabase (src/src/core/schema.ts): a registry of any version  *)
(* is brought to the latest one by a chain of transactions, each of which  *)
(* stamps the version it reached.  An init may die between two of them; a  *)
(* later one starts again from whatever stamp it finds.                    *)
(*                                                                         *)
(* A table is the set of its columns; of the rows all that counts is which *)
(* columns still hold what they held before the upgrade.  A transaction    *)
(* that fails leaves nothing behind: SQLite's promise, external.           *)
(***************************************************************************)
EXTENDS Naturals

CONSTANT MaxCrashes    \* bound: failed or interrupted inits
ASSUME MigrationsAssumption == MaxCrashes \in Nat

Latest == 17           \* LATEST_SCHEMA_VERSION

\* The version each column came with; base stands for the nine of version 1,
\* origin for origin_kind, origin_ref and origin_subagent.
Born == [base |-> 1, ghostty_terminal_id |-> 2, background_outstanding |-> 3,
         transcript_path |-> 4, model |-> 6, origin |-> 7, unread_since |-> 7,
         acked_at |-> 9, status_since |-> 11, origin_parent_ref |-> 11,
         activity_line |-> 11, done_since |-> 15, viewed_since |-> 17, ended_at |-> 17]
Column == DOMAIN Born
Shape(v) == {c \in Column : Born[c] <= v}

VARIABLES
    version,       \* PRAGMA user_version
    columns,       \* the columns of active_sessions; none before version 1
    had, intact,   \* ghosts: the columns there were at first; those never dropped or cleared
    orphan,        \* a row refers to a parent that does not exist
    pc, read,      \* the init under way, and the version it read at its start
    crashes

database == <<version, columns, intact>>
migrationsVars == <<database, had, orphan, pc, read, crashes>>

\* The shapes the builds so far have left: branch builds stamped 7 without
\* the model column; columns of 15 and 17 may be there before their stamp.
Found(v) ==
    {Shape(v) \cup early : early \in SUBSET (IF v = 14 THEN {"done_since"} ELSE
                                            IF v = 16 THEN {"viewed_since", "ended_at"} ELSE {})}
    \cup (IF v = 7 THEN {Shape(7) \ {"model"}} ELSE {})

Steps == {"pre5", "to5", "post5", "to8", "post8", "to10", "post10", "to12", "to13", "to14",
          "to15", "to16", "to17"}

MigrationsTypeOK ==
    /\ version \in 0..Latest + 1 /\ read \in 0..Latest
    /\ {columns, had, intact} \subseteq SUBSET Column
    /\ orphan \in BOOLEAN /\ pc \in Steps \cup {"idle"} /\ crashes \in 0..MaxCrashes

\* Latest + 1 stands for a schema of the future.
MigrationsInit ==
    /\ version \in 0..Latest + 1 /\ columns \in Found(version)
    /\ had = columns /\ intact = columns
    /\ orphan \in BOOLEAN /\ (orphan => version > 0)
    /\ pc = "idle" /\ read = 0 /\ crashes = 0

-----------------------------------------------------------------------------
\* A database of the latest version, or a later one, is left as it is.
StartInit ==
    /\ pc = "idle" /\ version < Latest
    /\ pc' = "pre5" /\ read' = version
    /\ UNCHANGED <<database, had, orphan, crashes>>

Commit(to, shape) == version' = to /\ columns' = shape /\ intact' = intact \cap shape

\* One transaction: not due, committed, or failed, which ends the init.
Transaction(at, next, due, sound, to, shape) ==
    /\ pc = at
    /\ \/ ~due /\ pc' = next /\ UNCHANGED database
       \/ due /\ sound /\ pc' = next /\ Commit(to, shape)
       \/ due /\ ~sound /\ pc' = "idle" /\ UNCHANGED database
    /\ UNCHANGED <<had, orphan, read, crashes>>

\* A loop over MIGRATIONS: those of versions from..to that are above the
\* version read; a column that is already there is an error.
Alter(at, next, from, to) ==
    LET added == {c \in Column : read < Born[c] /\ from <= Born[c] /\ Born[c] <= to}
    IN  Transaction(at, next, read < to, added \cap columns = {}, to, columns \cup added)

\* Rename aside, create, copy an explicit column list, drop: the list is the
\* shape of version copied; all of it has to be there, and every parent.
Rebuild(at, next, to, copied) ==
    Transaction(at, next, read < to, Shape(copied) \subseteq columns /\ ~orphan, to, Shape(copied))

\* Shape-driven repair: what is there already is not added again.
Repair(at, next, to, missing) ==
    Transaction(at, next, read < to, TRUE, to, columns \cup missing)

\* Mutant: the repair of version 8 is not gated on the version read.
RepairAlways == Transaction("to8", "post8", TRUE, TRUE, 8, columns \cup {"model"})
\* Mutant: the rebuild of version 16 copies the column list of version 13.
CopyListOf13 == Rebuild("to16", "to17", 16, 13)

MigratePreV5   == Alter("pre5", "to5", 1, 4)
MigrateToV5    == Rebuild("to5", "post5", 5, 4)
MigratePostV5  == Alter("post5", "to8", 6, 7)
MigrateToV8    == Repair("to8", "post8", 8, {"model"})
MigratePostV8  == Alter("post8", "to10", 9, 9)
MigrateToV10   == Rebuild("to10", "post10", 10, 9)
MigratePostV10 == Alter("post10", "to12", 11, 11)
MigrateToV12   == Rebuild("to12", "to13", 12, 11)
MigrateToV13   == Rebuild("to13", "to14", 13, 11)
MigrateToV15   == Repair("to15", "to16", 15, {"done_since"})
MigrateToV16   == Rebuild("to16", "to17", 16, 15)
MigrateToV17   == Repair("to17", "idle", 17, {"viewed_since", "ended_at"})

\* Version 14 clears the activity lines of older builds on purpose.
MigrateToV14 ==
    /\ pc = "to14" /\ pc' = "to15"
    /\ IF read < 14 THEN version' = 14 /\ intact' = intact \ {"activity_line"}
                    ELSE UNCHANGED <<version, intact>>
    /\ UNCHANGED <<columns, had, orphan, read, crashes>>

\* The process dies, or a transaction meets a lock or a full disk.
Crash ==
    /\ pc # "idle" /\ crashes < MaxCrashes
    /\ pc' = "idle" /\ crashes' = crashes + 1
    /\ UNCHANGED <<database, had, orphan, read>>

Migrate ==
    \/ MigratePreV5 \/ MigrateToV5 \/ MigratePostV5 \/ MigrateToV8 \/ MigratePostV8
    \/ MigrateToV10 \/ MigratePostV10 \/ MigrateToV12 \/ MigrateToV13 \/ MigrateToV14
    \/ MigrateToV15 \/ MigrateToV16 \/ MigrateToV17
MigrationsNext == StartInit \/ Migrate \/ Crash

\* An init that started runs, and one that failed is run again.
MigrationsFairness == WF_migrationsVars(Migrate) /\ WF_migrationsVars(StartInit)
MigrationsSpec == MigrationsInit /\ [][MigrationsNext]_migrationsVars /\ MigrationsFairness

-----------------------------------------------------------------------------
(***************************************************************************)
(* Properties.                                                             *)
(***************************************************************************)

\* From whatever version, along whatever interrupted inits, a registry that
\* openRegistryDatabase accepts has every column it asks for, and each column
\* it came with holds what it held; only activity lines are cleared.
UpgradeKeepsTheRows ==
    /\ version = Latest => columns = Column
    /\ had \ intact \subseteq {"activity_line"}

\* No interruption bricks a registry: an init begun on one without dangling
\* parents ends at the latest version, after retries if need be.
InitConverges == pc # "idle" /\ ~orphan ~> version = Latest
=============================================================================
