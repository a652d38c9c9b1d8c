--------------------------- MODULE RegistryBoard ---------------------------
(***************************************************************************)
(* The registry together with what the board shows of it.  The daemon      *)
(* projects committed states only; inside an overlay transaction that is   *)
(* the state it started from, which has been judged already.               *)
(***************************************************************************)
EXTENDS Registry, Projection

\* No history of registrations, repairs and lineage changes leaves a table
\* whose projection throws: the daemon would replace every card by an error.
ProjectionNeverThrows == txn = Null => ValidTopology(rows) /\ ValidGraph(rows)

\* A finished turn is always somewhere on the board and never twice: each
\* root that holds a result is aggregated by exactly one published card,
\* through broken, ambiguous, cyclic and rotated Paseo lineage alike.
NewsOnExactlyOneCard ==
    txn = Null =>
        \A s \in TopLevel(rows) : HoldsLedger(rows[s]) =>
            \E c \in VisibleRoots(rows) :
                \A v \in VisibleRoots(rows) : s \in {v} \cup RolledUp(rows, v) <=> v = c

\* The one pass of the status carry over roots in slot order gives each root
\* the highest status of its whole Paseo subtree, whichever order the slots
\* put parents and children in.
CarriedStatusIsSubtreeMax ==
    txn = Null =>
        \A s \in TopLevel(rows) :
            EffectiveStatus(rows)[s] =
                Highest({NativeStatus(rows)[x] :
                            x \in {y \in TopLevel(rows) : s \in Ancestry(Links(rows), y)}})

\* What the board shows and what its gestures reach agree.  Pressing a card
\* with the stamp it shows leaves it nothing unviewed, and dismissing it
\* releases every result it shows: the registry's subtree is never smaller
\* than what the card aggregates.  A dismissed card stays on the board only
\* for what no dismissal may touch: a row below it still runs, a native
\* helper failed, or a result newer than the card showed is there.
MayNotBeDismissed(tbl, d, shown) ==
    \/ ~Consumable(tbl[d], shown)
    \/ \E x \in DOMAIN tbl : /\ d \in Ancestry(NativeParent(tbl), x)
                             /\ OwnStatus(tbl, x) \in {"working", "waiting"}
                                    \/ (x # d /\ tbl[x].status = "error")
GesturesCoverTheCard ==
    txn = Null =>
        \A c \in VisibleRoots(rows) :
            LET shown     == Card(rows, c).unread
                viewed    == ViewSession(rows, c, clock, shown)
                dismissed == AcknowledgeSession(rows, c, clock, shown)
            IN  /\ Card(viewed, c).unread = Null /\ Card(viewed, c).pending = 0
                /\ \A d \in {c} \cup RolledUp(rows, c) : ~HoldsResult(dismissed[d])
                /\ c \in VisibleRoots(dismissed) =>
                        \E d \in PaseoSubtree(rows, c, NoHints) : MayNotBeDismissed(rows, d, shown)
=============================================================================
