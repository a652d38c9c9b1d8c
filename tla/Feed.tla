-------------------------------- MODULE Feed --------------------------------
(***************************************************************************)
(* What the snapshot file promises the board: at any time it holds one     *)
(* committed state of the registry, whole, or an explicit failure, and it  *)
(* never goes back to a state older than one it has already brought the    *)
(* board to.                                                               *)
(***************************************************************************)
EXTENDS Naturals, Sequences

CONSTANTS
    Content,   \* what a committed registry can hold, as far as the board shows it
    Corrupt,   \* the contents whose projection throws
    Failure,   \* the health codes of an unhealthy snapshot
    Nothing    \* no snapshot yet

VARIABLES
    history,   \* every committed content so far, oldest first
    file,      \* the snapshot file
    seen       \* how far into history the file has brought the board

FeedVars == <<history, file, seen>>

FeedInit == /\ \E c \in Content : history = <<c>>
            /\ file = Nothing
            /\ seen = 0

Commit == \E c \in Content : history' = Append(history, c) /\ UNCHANGED <<file, seen>>

Reached == {i \in 1..Len(history) : i >= seen}
Show == \E i \in Reached :
           /\ history[i] \notin Corrupt
           /\ file' = history[i]
           /\ seen' = i
           /\ UNCHANGED history
Fail == /\ file' \in Failure
        /\ seen' \in {seen} \cup {i \in Reached : history[i] \in Corrupt}
        /\ UNCHANGED history

FeedNext == Commit \/ Show \/ Fail
FeedSpec == FeedInit /\ [][FeedNext]_FeedVars
=============================================================================
