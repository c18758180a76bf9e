----------------------------- MODULE MCCommands -----------------------------
(* Small instances of Commands: the kinds of start and the tasks.            *)
EXTENDS Commands

MCSettings == {[disabled |-> TRUE, printing |-> FALSE], [disabled |-> FALSE, printing |-> TRUE]}

MCEvaluator == [fix |-> "failing_test_fix", look |-> "repository_lookup", edit |-> "targeted_edit"]
MCRequests == {<<"fix", "fix">>, <<"edit">>, <<"look">>, <<"gone">>}
=============================================================================
