-------------------------------- MODULE Quota --------------------------------
(***************************************************************************)
(* The accounts of the quota snapshot (src/src/core/quota.ts and           *)
(* quota-accounts.ts): what a source that answers in part, twice, in       *)
(* error or not at all may do to the rows of the accounts it has named     *)
(* before.                                                                 *)
(*                                                                         *)
(* The inventories of Claude and Codex share the pass and its write and    *)
(* nothing else: a behaviour is about one of them.  Accounts are numbers:  *)
(* a Claude slot is its own label, Codex identities are numbered in the    *)
(* order of their digests.  Of a row's measurement the instant is kept, of *)
(* its health nothing (a row is healthy when the last answer read it).     *)
(***************************************************************************)
EXTENDS Naturals, FiniteSets, FiniteSetsExt

CONSTANTS
    Account,       \* the accounts there may be
    AccountLimit,  \* QUOTA_ACCOUNTS_LIMIT
    Unmeasured,    \* fetchedAt of a row never measured
    MaxReading,    \* bound: the last instant of a measurement
    MaxUpsets      \* bound: changes at the source, failed writes, restarts

ASSUME QuotaAssumption ==
    /\ Account \subseteq Nat \ {0} /\ IsFiniteSet(Account) /\ AccountLimit \in Nat \ {0}
    /\ Unmeasured \notin Nat
    /\ {MaxReading, MaxUpsets} \subseteq Nat

VARIABLES
    source,        \* which inventory this is
    actual,        \* the accounts the source has
    reading,       \* the instant of its next measurement
    rows,          \* states.get(provider).quota.accounts, by identity
    onFile,        \* the same in the snapshot file
    upsets

quotaVars == <<source, actual, reading, rows, onFile, upsets>>

NoRows == <<>>
Upset == upsets < MaxUpsets /\ upsets' = upsets + 1

\* parseProviderQuotaAccounts.
ReaderAccepts(table) ==
    /\ Cardinality(DOMAIN table) <= AccountLimit
    /\ \A a, b \in DOMAIN table : a # b => /\ table[a].label # table[b].label
                                           /\ ~(table[a].active /\ table[b].active)

-----------------------------------------------------------------------------
(***************************************************************************)
(* reconcileQuotaAccounts.                                                 *)
(***************************************************************************)
NotOlder(at, than) == than = Unmeasured \/ (at # Unmeasured /\ at >= than)

\* Without a reading, the later of what the source and the row remember.
Measurement(listed, a) ==
    IF a \notin DOMAIN listed THEN rows[a].at
    ELSE IF listed[a].read \/ a \notin DOMAIN rows \/ ~NotOlder(rows[a].at, listed[a].at)
         THEN listed[a].at
         ELSE rows[a].at

\* At most one account is active: an answer that names one unmarks the rest.
Active(listed, a) ==
    IF a \in DOMAIN listed THEN listed[a].active
    ELSE rows[a].active /\ \A b \in DOMAIN listed : ~listed[b].active

\* Only a complete inventory drops rows; too many, and all stays.
InventoryAfter(listed, complete) ==
    LET inventory == DOMAIN listed \cup (IF complete THEN {} ELSE DOMAIN rows)
    IN  IF Cardinality(inventory) > AccountLimit THEN rows
        ELSE [a \in inventory |->
                [label  |-> IF a \in DOMAIN rows THEN rows[a].label ELSE listed[a].label,
                 active |-> Active(listed, a),
                 at     |-> Measurement(listed, a)]]

\* The end of a pass: the collector moves on only if the write worked.
Collect(listed, complete) ==
    \/ /\ rows' = InventoryAfter(listed, complete) /\ onFile' = rows'
       /\ UNCHANGED upsets
    \/ Upset /\ UNCHANGED <<rows, onFile>>

-----------------------------------------------------------------------------
(***************************************************************************)
(* What the sources answer.                                                *)
(***************************************************************************)
\* codexbar --all-accounts: each account is left out, named once with a
\* reading, an error or nothing that can be read, or named twice; the run may
\* exit with an error, and there may be records without a name.
Told == {"missing", "read", "error", "malformed", "twice"}

\* Mutant: a run that failed is believed to have named everyone.
CompleteDespiteExit(run) == ~run.noise /\ \A a \in actual : run.told[a] \in {"missing", "read"}
Complete(run) == /\ ~run.failed /\ ~run.noise
                 /\ \A a \in actual : run.told[a] \in {"missing", "read"}

\* Mutant: the next label is the number of rows.
LabelsByCount == Cardinality(DOMAIN rows)
LabelsTaken == Max({0} \cup {rows[a].label : a \in DOMAIN rows})

\* The identified records; new ones are numbered after the rows, in the
\* order of their digests, those that cannot be read included.
CodexListed(told) ==
    LET named == {a \in actual : told[a] \in {"read", "error", "malformed"}}
        new   == named \ DOMAIN rows
    IN  [a \in {b \in named : told[b] # "malformed"} |->
            [label  |-> LabelsTaken + Cardinality({b \in new : b <= a}),
             active |-> FALSE,
             read   |-> told[a] = "read",
             at     |-> IF told[a] = "read" THEN reading ELSE Unmeasured]]

\* A run that went well leaves no account out; an answer with more records
\* than accounts are allowed is no answer.
CodexRuns ==
    {run \in [told : [actual -> Told], failed : BOOLEAN, noise : BOOLEAN] :
        /\ ~run.failed /\ ~run.noise /\ (\A a \in actual : run.told[a] \in {"missing", "read"})
              => \A a \in actual : run.told[a] = "read"
        /\ Cardinality({a \in actual : run.told[a] # "missing"})
           + Cardinality({a \in actual : run.told[a] = "twice"}) <= AccountLimit}
CodexAnswers == {[listed |-> CodexListed(run.told), complete |-> Complete(run)] : run \in CodexRuns}
CodexPass ==
    /\ source = "codex"
    /\ \E answer \in CodexAnswers : Collect(answer.listed, answer.complete)
    /\ UNCHANGED <<source, actual, reading>>

\* cswap list: each account named has a reading or the last good one, if
\* any, and one of them is active.
ClaudePass ==
    /\ source = "claude"
    /\ \E named \in SUBSET actual : \E read \in SUBSET named, mark \in SUBSET named :
          /\ read = named => named = actual
          /\ Cardinality(named) <= AccountLimit
          /\ Cardinality(mark) = IF named = {} THEN 0 ELSE 1
          /\ \E lastGood \in [named \ read -> {Unmeasured} \cup 0..reading] :
                Collect([a \in named |-> [label |-> a, active |-> a \in mark, read |-> a \in read,
                                          at |-> IF a \in read THEN reading ELSE lastGood[a]]],
                        read = named)
    /\ UNCHANGED <<source, actual, reading>>

\* No binary, a timeout, or an answer that is none.
UnansweredPass == Collect(NoRows, FALSE) /\ UNCHANGED <<source, actual, reading>>

-----------------------------------------------------------------------------
QuotaInit ==
    /\ source \in {"claude", "codex"} /\ actual \in SUBSET Account
    /\ reading = 0 /\ rows = NoRows /\ onFile = NoRows /\ upsets = 0

Measure == /\ reading < MaxReading /\ reading' = reading + 1
           /\ UNCHANGED <<source, actual, rows, onFile, upsets>>
AccountsChange == /\ Upset /\ actual' \in SUBSET Account
                  /\ UNCHANGED <<source, reading, rows, onFile>>
\* A collector starts from the file, if it can be read.
QuotaRestart == /\ Upset
                /\ \/ rows' = onFile /\ ReaderAccepts(onFile)
                   \/ rows' = NoRows
                /\ UNCHANGED <<source, actual, reading, onFile>>

QuotaNext == Measure \/ AccountsChange \/ QuotaRestart
             \/ CodexPass \/ ClaudePass \/ UnansweredPass
QuotaSpec == QuotaInit /\ [][QuotaNext]_quotaVars

-----------------------------------------------------------------------------
(***************************************************************************)
(* Properties.                                                             *)
(***************************************************************************)
Row == [label : Nat, active : BOOLEAN, at : {Unmeasured} \cup 0..MaxReading]
QuotaTypeOK ==
    /\ source \in {"claude", "codex"} /\ actual \subseteq Account
    /\ reading \in 0..MaxReading /\ upsets \in 0..MaxUpsets
    /\ \A table \in {rows, onFile} :
          DOMAIN table \subseteq Account /\ \A a \in DOMAIN table : table[a] \in Row

\* What is published its reader accepts, however accounts came, went and
\* returned: one bad row and the board loses every provider's quota.
QuotaReadable == ReaderAccepts(onFile)

\* An account of the source that has a row keeps it, under its label and with
\* a measurement no older than before, through every answer that is partial,
\* ambiguous, late or missing.  A collector that could not read its file
\* starts anew.
KnownAccountsStay ==
    [][rows = onFile => \A a \in DOMAIN onFile \cap actual :
          /\ a \in DOMAIN onFile'
          /\ onFile'[a].label = onFile[a].label
          /\ NotOlder(onFile'[a].at, onFile[a].at)]_quotaVars
=============================================================================
