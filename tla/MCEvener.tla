------------------------------ MODULE MCEvener ------------------------------
(***************************************************************************)
(* The Evener collector with a root thread and its child; in the nested    *)
(* runs the child has a child of its own, and all three work when the      *)
(* daemon starts.                                                          *)
(***************************************************************************)
EXTENDS EvenerCollector

CONSTANTS root, child, grandchild

MCProviderOf == [s \in Session |-> "evener"]
MCParentOf == [s \in Session |-> IF s = child THEN root ELSE IF s = grandchild THEN child ELSE Null]

NestedInit == Init /\ \A s \in Session : hub[s].raw = "active"
NestedSpec == NestedInit /\ [][Next]_vars /\ Fairness
=============================================================================
