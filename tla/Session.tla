------------------------------- MODULE Session -------------------------------
(***************************************************************************)
(* A coding session beside its run: the transcript on disk, and the size   *)
(* of the context.  The journal takes any compaction at any time, so that  *)
(* what the estimate decides adds nothing to it: a behaviour is of one of  *)
(* the two.                                                                *)
(***************************************************************************)
EXTENDS SessionJournal, ContextBudget

VARIABLE part   \* "journal" or "context"

vars == <<journalVars, budgetVars, part>>

\* The other part stays in one of its initial states.
Init ==
  /\ part \in {"journal", "context"}
  /\ JournalInit /\ BudgetInit
  /\ part = "context" => scene = CHOOSE s \in Scenes : TRUE

Next ==
  \/ part = "journal" /\ JournalNext /\ UNCHANGED <<budgetVars, part>>
  \/ part = "context" /\ BudgetNext /\ UNCHANGED <<journalVars, part>>

Spec == Init /\ [][Next]_vars
=============================================================================
