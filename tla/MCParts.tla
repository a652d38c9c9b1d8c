------------------------------ MODULE MCParts ------------------------------
(***************************************************************************)
(* The parts that never meet in one process, side by side: one behaviour   *)
(* is a behaviour of one of them, the others rest in an initial state.     *)
(***************************************************************************)
EXTENDS Touch, Migrations, CodexChildren, TokenUsage, Quota

CONSTANTS a, outer, inner

MCCard == {a}
MCKid == {outer, inner}
MCAbove == [k \in MCKid |-> IF k = inner THEN outer ELSE Root]

VARIABLE part

MCInit ==
    /\ part \in {"touch", "migrations", "children", "tokens", "quota"}
    /\ TouchInit /\ ChildrenInit /\ MigrationsInit /\ TokenInit
    /\ QuotaInit
    /\ part # "migrations" => version = Latest /\ ~orphan
    /\ part # "tokens" => published = Missing
    /\ part # "quota" => source = "claude" /\ actual = {}

Handled == part = "touch" /\ TouchNext
           /\ UNCHANGED <<part, migrationsVars, childrenVars, tokenVars, quotaVars>>
Migrated == part = "migrations" /\ MigrationsNext
            /\ UNCHANGED <<part, touchVars, childrenVars, tokenVars, quotaVars>>
Reconciled == part = "children" /\ ChildrenNext
              /\ UNCHANGED <<part, touchVars, migrationsVars, tokenVars, quotaVars>>
Counted == part = "tokens" /\ TokenNext
           /\ UNCHANGED <<part, touchVars, migrationsVars, childrenVars, quotaVars>>
Collected == part = "quota" /\ QuotaNext
             /\ UNCHANGED <<part, touchVars, migrationsVars, childrenVars, tokenVars>>
MCNext == Handled \/ Migrated \/ Reconciled \/ Counted \/ Collected

MCSpec == /\ MCInit
          /\ [][MCNext]_<<part, touchVars, migrationsVars, childrenVars, tokenVars,
                        quotaVars>>
          /\ MigrationsFairness /\ ChildrenFairness
=============================================================================
