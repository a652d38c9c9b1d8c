----------------------------- MODULE Projection -----------------------------
(***************************************************************************)
(* What the board shows of a table: projectSnapshotRows of                 *)
(* src/src/core/projection.ts, as a function of the table.                 *)
(*                                                                         *)
(* A top-level row is a root.  Roots form a second forest through their    *)
(* Paseo links; a root is published as a card when it has something to     *)
(* say, and the results of hidden Paseo subagents are rolled up to it.     *)
(* The order of cards and the fields a row hands through unread are left   *)
(* out.                                                                    *)
(***************************************************************************)
EXTENDS RegistryTable, FiniteSetsExt

Priority == [idle |-> 0, working |-> 1, waiting |-> 2, error |-> 3]
MaxStatus(a, b) == IF Priority[a] > Priority[b] THEN a ELSE b
Highest(S) == CHOOSE a \in S : \A b \in S : Priority[a] >= Priority[b]

\* An idle native child is still a running helper.
OwnStatus(tbl, s) ==
    IF s \notin TopLevel(tbl) /\ tbl[s].status = "idle" THEN "working" ELSE tbl[s].status

\* Status of a root and of all its native descendants.
NativeStatus(tbl) ==
    [s \in TopLevel(tbl) |->
        Highest({OwnStatus(tbl, x) : x \in {y \in DOMAIN tbl : s \in Ancestry(NativeParent(tbl), y)}})]

Links(tbl) == PaseoLinks(StoredLineage(tbl))

-----------------------------------------------------------------------------
(***************************************************************************)
(* The status carry: roots in slot order, each walking up its Paseo chain  *)
(* and raising what it meets.                                              *)
(***************************************************************************)
Between(link, s, x) == {y \in Ancestry(link, s) : x \in Ancestry(link, y)}
\* Mutant: the walk stops at the first parent.
RaiseParent(link, status, s) ==
    [x \in DOMAIN status |->
        IF s \in DOMAIN link /\ link[s] = x THEN MaxStatus(status[s], status[x]) ELSE status[x]]
RaiseAncestors(link, status, s) ==
    [x \in DOMAIN status |->
        IF x \in Ancestry(link, s) THEN Highest({status[y] : y \in Between(link, s, x)})
                                   ELSE status[x]]
RootAt(tbl, n) == CHOOSE s \in TopLevel(tbl) : tbl[s].slot = n
LastSlot(tbl) == Max(UsedSlots(tbl) \cup {0})
\* The statuses once the roots of the first n slots have walked.
Carry(tbl) ==
    LET carry[n \in 0..LastSlot(tbl)] ==
            IF n = 0 THEN NativeStatus(tbl)
            ELSE IF n \in UsedSlots(tbl)
            THEN RaiseAncestors(Links(tbl), carry[n - 1], RootAt(tbl, n))
            ELSE carry[n - 1]
    IN  carry
EffectiveStatus(tbl) == Carry(tbl)[LastSlot(tbl)]

-----------------------------------------------------------------------------
(***************************************************************************)
(* Cards.                                                                  *)
(***************************************************************************)
HoldsLedger(row) == row.unread # Null \/ row.done # Null

\* Mutant: only direct subagents hold their parent's card.
HasChildLedger(tbl, s) ==
    \E d \in DOMAIN Links(tbl) : HoldsLedger(tbl[d]) /\ Links(tbl)[d] = s
HasDescendantLedger(tbl, s) ==
    \E d \in TopLevel(tbl) \ {s} : HoldsLedger(tbl[d]) /\ s \in Ancestry(Links(tbl), d)

\* A root whose news is on a card of its own, never on an ancestor's.
SpeaksForItself(tbl, s) ==
    \/ EffectiveStatus(tbl)[s] # "idle"
    \/ s \notin DOMAIN Links(tbl) /\ HoldsLedger(tbl[s])

\* The Paseo descendants whose ledgers the card of c aggregates.
RolledUp(tbl, c) ==
    {d \in TopLevel(tbl) \ {c} :
        /\ c \in Ancestry(Links(tbl), d)
        /\ \A x \in Between(Links(tbl), d, c) \ {c} : ~SpeaksForItself(tbl, x)}

IsPaseoSubagent(row) == row.origin # Null /\ row.origin.kind = "paseo" /\ row.origin.sub
RootVisible(tbl, s) ==
    \/ EffectiveStatus(tbl)[s] # "idle"
    \/ /\ ~(IsPaseoSubagent(tbl[s]) /\ s \in DOMAIN Links(tbl))
       /\ HoldsLedger(tbl[s]) \/ HasDescendantLedger(tbl, s)
VisibleRoots(tbl) == {s \in TopLevel(tbl) : RootVisible(tbl, s)}

Latest(S) == IF S \subseteq {Null} THEN Null
             ELSE CHOOSE t \in S \ {Null} : \A u \in S \ {Null} : t >= u
Card(tbl, c) ==
    [status  |-> EffectiveStatus(tbl)[c],
     unread  |-> Latest({tbl[x].unread : x \in {c} \cup RolledUp(tbl, c)}),
     done    |-> Latest({tbl[x].done : x \in {c} \cup RolledUp(tbl, c)}),
     pending |-> Cardinality({x \in RolledUp(tbl, c) : tbl[x].unread # Null})]

-----------------------------------------------------------------------------
(***************************************************************************)
(* Where the projection throws, which turns the whole board unhealthy.     *)
(***************************************************************************)
ValidTopology(tbl) ==
    /\ \A s \in TopLevel(tbl) : tbl[s].slot # Null /\ tbl[s].slot >= 1
    /\ \A s \in DOMAIN tbl \ TopLevel(tbl) :
          /\ tbl[s].slot = Null
          /\ tbl[s].parent \in DOMAIN tbl
          /\ Ancestry(NativeParent(tbl), s) \cap TopLevel(tbl) # {}

\* The parent a published root names: only a Paseo subagent names one.
NodeParent(tbl, s) ==
    IF IsPaseoSubagent(tbl[s]) /\ s \in DOMAIN Links(tbl) THEN Links(tbl)[s] ELSE Null
\* Every named parent is itself published, and every published root hangs
\* below one the ordering starts from: a primary or an unresolved subagent.
ValidGraph(tbl) ==
    \A s \in VisibleRoots(tbl) :
        /\ NodeParent(tbl, s) \in VisibleRoots(tbl) \cup {Null}
        /\ \E r \in VisibleRoots(tbl) : NodeParent(tbl, r) = Null /\ r \in Ancestry(Links(tbl), s)
=============================================================================
