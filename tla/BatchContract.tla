---------------------------- MODULE BatchContract ----------------------------
(***************************************************************************)
(* What one batch of tool calls promises to the loop that asked for it     *)
(* (run_agent_loop in src/src/le_agent/loop.py): results come back one at  *)
(* a time, in the order the calls have in the assistant message, and a     *)
(* batch ends either complete, with one result per call, or aborted, with  *)
(* the results handed over so far.                                         *)
(*                                                                         *)
(* ToolBatch implements this contract with concurrent workers; AgentLoop   *)
(* is written against it.                                                  *)
(***************************************************************************)
EXTENDS Naturals, Sequences

VARIABLES
  total,      \* number of calls in the current (or last) batch
  answered,   \* calls whose result is in the transcript, oldest first
  status      \* "idle" | "open" | "complete" | "aborted"

vars == <<total, answered, status>>

Init ==
  /\ total = 0
  /\ answered = <<>>
  /\ status = "idle"

\* The assistant message froze a non-empty list of calls.
Open ==
  /\ status # "open"
  /\ total' \in Nat \ {0}
  /\ answered' = <<>>
  /\ status' = "open"

\* The next result in source order is appended to the transcript; the last one
\* completes the batch.
Answer ==
  /\ status = "open"
  /\ answered' = Append(answered, Len(answered) + 1)
  /\ status' = IF Len(answered') = total THEN "complete" ELSE "open"
  /\ UNCHANGED total

\* The batch is given up: a worker failed, or the run is being closed.
Abort ==
  /\ status = "open"
  /\ status' = "aborted"
  /\ UNCHANGED <<total, answered>>

Next == Open \/ Answer \/ Abort

Spec == Init /\ [][Next]_vars
==============================================================================
