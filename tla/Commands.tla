------------------------------ MODULE Commands ------------------------------
(***************************************************************************)
(* What cli.py runs besides a session: the update checks of every start    *)
(* with the update command, and the benchmark command.  A behaviour is one *)
(* of the former or one of the latter.                                     *)
(***************************************************************************)
EXTENDS Updates, Benchmark

VARIABLE part   \* "updates" or "benchmark"

commandsVars == <<updateVars, benchmarkVars, part>>

\* The part that does not run stays in one of its initial states.
CommandsInit ==
  /\ UpdatesInit /\ BenchmarkInit
  /\ \/ part = "updates" /\ ~keep /\ ~real
        /\ tasks = SelectTasks(CHOOSE ids \in Requests : Selectable(ids))
     \/ part = "benchmark" /\ setting.printing

CommandsNext ==
  \/ part = "updates" /\ UpdatesNext /\ UNCHANGED <<benchmarkVars, part>>
  \/ part = "benchmark" /\ BenchmarkNext /\ UNCHANGED <<updateVars, part>>

CommandsSpec == CommandsInit /\ [][CommandsNext]_commandsVars /\ BenchmarkFairness
-----------------------------------------------------------------------------
\* run_trial, run_benchmark_command: a benchmark command ends, even if an agent never does by
\* itself: the timer ends its prompt and every cleanup comes to an end.
CommandEnds == part = "benchmark" ~> awaiting = "done"
=============================================================================
