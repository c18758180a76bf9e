----------------------------- MODULE MCSession -----------------------------
(* Small instances of Session and of its journal alone.                     *)
EXTENDS Session

\* Nobody cancels; or everything but terminal output in the middle of a run.
CalmScene ==
  [made |-> 4, calls |-> 2, crashes |-> 1,
   cancels |-> FALSE, raises |-> FALSE, overlap |-> FALSE, terminal |-> FALSE]
RoughScene ==
  [made |-> 3, calls |-> 1, crashes |-> 2,
   cancels |-> TRUE, raises |-> TRUE, overlap |-> TRUE, terminal |-> TRUE]
MCScenes == {CalmScene, RoughScene}

\* One cancellation and one crash.
CancelScenes ==
  {[made |-> 2, calls |-> 1, crashes |-> 1,
    cancels |-> TRUE, raises |-> FALSE, overlap |-> FALSE, terminal |-> FALSE]}

\* Short messages and long ones: two long ones are over the threshold.
MCSizes == {1, 2}
=============================================================================
