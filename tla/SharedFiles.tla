---------------------------- MODULE SharedFiles ----------------------------
(***************************************************************************)
(* The files under the LeAgent home that several writers share: the index  *)
(* of a project's sessions, written by processes; the credentials, written *)
(* by the tasks of one process; and the provider settings, written by      *)
(* sessions, other programs and hands.  They have little in common but     *)
(* their way of being written, read and replaced whole: a behaviour is one *)
(* of a single file.                                                       *)
(***************************************************************************)
EXTENDS SessionIndex, Credentials, ModelChoice

VARIABLE part   \* "index", "credentials" or "settings"

vars == <<indexVars, credVars, choiceVars, part>>

\* The files that a behaviour is not about keep one of their initial states.
Init ==
  /\ part \in {"index", "credentials", "settings"}
  /\ IndexInit /\ CredentialsInit /\ ChoiceInit
  /\ part # "credentials" => resolver = "codex" /\ store = None
  /\ part # "settings" => file = NoFile /\ creds = {}

Next ==
  \/ part = "index" /\ IndexNext /\ UNCHANGED <<credVars, choiceVars, part>>
  \/ part = "credentials" /\ CredentialsNext /\ UNCHANGED <<indexVars, choiceVars, part>>
  \/ part = "settings" /\ ChoiceNext /\ UNCHANGED <<indexVars, credVars, part>>

Spec == Init /\ [][Next]_vars /\ RequestFairness
=============================================================================
