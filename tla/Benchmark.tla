----------------------------- MODULE Benchmark -----------------------------
(***************************************************************************)
(* `le-agent benchmark`: trials one after the other, each in a workspace   *)
(* and a session of its own, then the results (cli.py, benchmark/).        *)
(*                                                                         *)
(* Everything between two awaits is one step.  A cancellation of the       *)
(* surrounding scope is raised at every await that is not shielded; a      *)
(* signal is raised once, at any await, the shielded ones too; either may  *)
(* find the command at any await, while a prompt ends or its timer fires.  *)
(***************************************************************************)
EXTENDS Naturals, SequencesExt

CONSTANTS
    Builtin,    \* the names of the packaged tasks
    Evaluator,  \* [Builtin -> a member of Evaluators]
    Requests,   \* the lists of task names a user may ask for
    Trials,     \* per task
    MaxWork     \* bounds what the agent does in one prompt

LookupChecks == {"path", "symbol", "relation"}
FixChecks == {"visible_tests", "hidden_cases"}
EditChecks == {"behavior"}
Evaluators == {"repository_lookup", "targeted_edit", "failing_test_fix"}

ASSUME BenchmarkAssumption ==
       /\ Trials \in Nat \ {0}
       /\ \A t \in Builtin : Evaluator[t] \in Evaluators

VARIABLES
    awaiting,   \* the await the command is at
    tasks,      \* the tasks selected
    keep, real, \* --keep-workspaces; a provider other than the fake one
    cancel,     \* "no", or who cancelled: "scope", "signal", "raised" (a signal delivered)
    session,    \* the trial's: "none", "open", "closed", "broken" (its close raised)
    token,      \* the session's cancellation was asked for
    prompt,     \* the prompt task: "none", "running", "returned", "raised"
    late,       \* the timer fired, and the prompt task was cancelled
    seen,       \* what the collector holds: the answer, and an agent failure
    work,       \* the checks the workspace would pass now
    steps,      \* what the agent did in this prompt
    trial,      \* the outcome of the trial under way
    results, provider, root, archived, artifact, failed, exit

trialVars == <<session, token, prompt, late, seen, work, steps, trial>>
endVars == <<provider, root, archived, artifact, failed, exit>>
benchmarkVars == <<awaiting, tasks, keep, real, cancel, trialVars, results, endVars>>

\* In the order asked for, once each; an unknown name is an error.
SelectTasks(ids) ==
    FoldLeft(LAMBDA chosen, id : IF Contains(chosen, id) THEN chosen ELSE Append(chosen, id),
             <<>>, ids)
Selectable(ids) == \A i \in DOMAIN ids : ids[i] \in Builtin

Fresh == [status |-> "agent_failure", reward |-> 0, error |-> FALSE, diagnosed |-> FALSE]
Unseen == [answer |-> {}, failure |-> FALSE]

BenchmarkInit ==
        /\ awaiting = "prepare"
        /\ \E ids \in Requests : Selectable(ids) /\ tasks = SelectTasks(ids)
        /\ keep \in BOOLEAN /\ real \in BOOLEAN
        /\ cancel = "no"
        /\ session = "none" /\ token = FALSE /\ prompt = "none" /\ late = FALSE
        /\ seen = Unseen /\ work = {} /\ steps = 0
        /\ trial = Fresh
        /\ results = <<>>
        /\ provider = "none" /\ root = "none" /\ archived = {} /\ artifact = FALSE
        /\ failed = FALSE /\ exit = "none"

CurrentTask == tasks[(Len(results) \div Trials) + 1]
Over == Len(results) = Len(tasks) * Trials

-----------------------------------------------------------------------------
(* Cancellation.                                                           *)

Ran == \/ awaiting = "ran"
       \/ awaiting = "next" /\ Over
Waiting == \/ awaiting \in {"load", "prompt", "join", "drain"}
           \/ awaiting = "close" /\ session = "open"
           \/ Ran /\ real

\* Others run, and may cancel, only while the command waits; a signal comes anywhere.
CancelBenchmark(who) ==
  /\ cancel = "no" /\ awaiting \notin {"prepare", "done"}
  /\ who = "scope" => Waiting
  /\ cancel' = who
  /\ UNCHANGED <<awaiting, tasks, keep, real, trialVars, results, endVars>>

Raises(shielded) == cancel = "signal" \/ (cancel = "scope" /\ ~shielded)
Raised == cancel' = IF cancel = "signal" THEN "raised" ELSE cancel

-----------------------------------------------------------------------------
(* Starting.                                                               *)

\* The output directory is tried before any model is called.
Prepare ==
    /\ awaiting = "prepare"
    /\ \/ /\ awaiting' = "next" /\ root' = "there"
          /\ provider' = IF real THEN "open" ELSE "none"
          /\ UNCHANGED <<failed, exit>>
       \/ /\ awaiting' = "done" /\ failed' = TRUE /\ exit' = "usage"
          /\ UNCHANGED <<root, provider>>
    /\ UNCHANGED <<tasks, keep, real, cancel, trialVars, results, archived, artifact>>

StartTrial ==
    /\ awaiting = "next" /\ ~Over
    /\ session' = "none" /\ token' = FALSE /\ prompt' = "none" /\ late' = FALSE
    /\ seen' = Unseen /\ work' = {} /\ steps' = 0
    /\ \/ awaiting' = "load" /\ trial' = Fresh
       \/ awaiting' = "close" /\ trial' = [Fresh EXCEPT !.error = TRUE]
    /\ UNCHANGED <<tasks, keep, real, cancel, results, endVars>>

\* What cancel_session may leave: the notice itself may fail.
CancelSession == /\ token' = (token \/ session = "open")
                 /\ trial' \in IF session = "open" /\ ~token
                               THEN {trial, [trial EXCEPT !.diagnosed = TRUE]} ELSE {trial}

Load ==
    /\ awaiting = "load"
    /\ IF Raises(FALSE)
       THEN /\ Raised /\ awaiting' = "close" /\ trial' = [trial EXCEPT !.status = "cancelled"]
            /\ UNCHANGED <<session, prompt>>
       ELSE /\ \/ awaiting' = "prompt" /\ session' = "open" /\ prompt' = "running" /\ trial' = trial
               \/ awaiting' = "close" /\ trial' = [trial EXCEPT !.error = TRUE]
                  /\ UNCHANGED <<session, prompt>>
            /\ UNCHANGED cancel
    /\ UNCHANGED <<tasks, keep, real, token, late, seen, work, steps, results, endVars>>

-----------------------------------------------------------------------------
(* The prompt task.                                                        *)

Prompting == awaiting \in {"prompt", "join", "drain"} /\ prompt = "running"

Record(answer, stop) ==
    [answer |-> answer, failure |-> seen.failure \/ stop \in {"error", "aborted"}]

\* The agent works in the workspace, or ends a message.
AgentActs ==
    /\ Prompting /\ steps < MaxWork
    /\ steps' = steps + 1
    /\ \/ \E done \in {FixChecks, {"visible_tests"}, EditChecks} : work' = done /\ seen' = seen
       \/ \E answer \in {LookupChecks, {"path"}}, stop \in {"stop", "error", "aborted"} :
             seen' = Record(answer, stop) /\ UNCHANGED work
    /\ UNCHANGED <<awaiting, tasks, keep, real, cancel, session, token, prompt, late, trial, results,
                   endVars>>

PromptEnds ==
    /\ Prompting
    /\ prompt' \in {"returned", "raised"}
    /\ UNCHANGED <<awaiting, tasks, keep, real, cancel, session, token, late, seen, work, steps,
                   trial, results, endVars>>

\* Seeded fault: only the session is told, its task is left to notice.
TimeOutTold ==
    /\ awaiting = "prompt" /\ prompt = "running" /\ ~Raises(FALSE)
    /\ CancelSession
    /\ late' = FALSE
    /\ awaiting' = "join"
    /\ UNCHANGED <<tasks, keep, real, cancel, session, prompt, seen, work, steps, results,
                   endVars>>

TimeOut ==
    /\ awaiting = "prompt" /\ prompt = "running" /\ ~Raises(FALSE)
    /\ CancelSession
    /\ late' = TRUE
    /\ awaiting' = "join"
    /\ UNCHANGED <<tasks, keep, real, cancel, session, prompt, seen, work, steps, results,
                   endVars>>

\* Seeded fault: the prompt task is cancelled and not waited for.
CancelPromptUnwaited ==
    /\ awaiting \in {"prompt", "join"} /\ prompt = "running" /\ Raises(FALSE)
    /\ Raised
    /\ token' = TRUE /\ trial' = [trial EXCEPT !.status = "cancelled"]
    /\ awaiting' = "close"
    /\ UNCHANGED <<tasks, keep, real, session, prompt, late, seen, work, steps, results, endVars>>

\* The session hears of it first, then its task is cancelled and waited for.
CancelPrompt ==
    /\ awaiting \in {"prompt", "join"} /\ prompt = "running" /\ Raises(FALSE)
    /\ Raised
    /\ CancelSession
    /\ awaiting' = "drain"
    /\ UNCHANGED <<tasks, keep, real, session, prompt, late, seen, work, steps, results, endVars>>

-----------------------------------------------------------------------------
(* The verdict.                                                            *)

\* A check's process may also time out or fail to start.
RepositoryLookup == LookupChecks \subseteq seen.answer
TargetedEdit == EditChecks \subseteq work
FailingTestFix == FixChecks \subseteq work
ChecksMet == CASE Evaluator[CurrentTask] = "repository_lookup" -> RepositoryLookup
               [] Evaluator[CurrentTask] = "targeted_edit"     -> TargetedEdit
               [] Evaluator[CurrentTask] = "failing_test_fix"  -> FailingTestFix

Evaluate == [trial EXCEPT !.status = IF ChecksMet THEN "passed" ELSE "task_failed",
                          !.reward = IF ChecksMet THEN 1 ELSE 0]

Judged == IF late THEN {[trial EXCEPT !.status = "timeout", !.error = TRUE]}
          ELSE IF prompt = "raised" \/ seen.failure THEN {[trial EXCEPT !.error = TRUE]}
          ELSE {Evaluate, [trial EXCEPT !.status = "evaluation_failure", !.error = TRUE]}

\* Leaving the task group: the verdict, unless a cancellation is raised there.
PromptIsOver ==
    /\ awaiting \in {"prompt", "join", "drain"} /\ prompt \in {"returned", "raised"}
    /\ awaiting' = "close"
    /\ IF awaiting = "drain" \/ Raises(FALSE)
       THEN /\ trial' \in {[trial EXCEPT !.status = "cancelled"]} /\ token' = TRUE
            /\ IF awaiting = "drain" THEN UNCHANGED cancel ELSE Raised
       ELSE trial' \in Judged /\ UNCHANGED <<token, cancel>>
    /\ UNCHANGED <<tasks, keep, real, session, prompt, late, seen, work, steps, results, endVars>>

-----------------------------------------------------------------------------
(* The end of a trial.                                                     *)

\* Seeded fault: the reward stays although the trial is called a failure.
AdjustedStatusOnly(t) ==
    IF ~t.diagnosed THEN t
    ELSE [t EXCEPT !.status = IF @ \in {"passed", "task_failed"} THEN "agent_failure" ELSE @,
                   !.error = TRUE]

Adjusted(t) ==
    IF ~t.diagnosed THEN t
    ELSE IF t.status \in {"passed", "task_failed"}
         THEN [t EXCEPT !.status = "agent_failure", !.reward = 0, !.error = TRUE]
         ELSE [t EXCEPT !.error = TRUE]

CancelledInCleanup == cancel = "scope"

\* What a reward is for, kept beside the result.
Earned(t) == prompt = "returned" /\ ~late /\ ~seen.failure /\ ChecksMet /\ ~t.diagnosed

\* A shielded close, the workspace removed, then what arrived in between.
CloseTrial ==
    /\ awaiting = "close"
    /\ \E closes, removes \in BOOLEAN :
         LET t == [trial EXCEPT !.diagnosed = @ \/ (session = "open" /\ ~closes)
                                                \/ (~keep /\ ~removes)]
         IN  /\ session' = IF session # "open" THEN session
                           ELSE IF closes THEN "closed" ELSE "broken"
             /\ IF t.status = "cancelled" \/ CancelledInCleanup
                THEN awaiting' = "ran" /\ failed' = TRUE /\ trial' = t /\ UNCHANGED results
                ELSE /\ awaiting' = "next" /\ trial' = t
                     /\ results' = Append(results, [task |-> CurrentTask, earned |-> Earned(t),
                                                    outcome |-> Adjusted(t)])
                     /\ UNCHANGED failed
    /\ UNCHANGED <<tasks, keep, real, cancel, token, prompt, late, seen, work, steps,
                   provider, root, archived, artifact, exit>>

\* A signal finds the close itself: what was left of the cleanup is skipped.
CloseInterrupted ==
    /\ awaiting = "close" /\ cancel = "signal" /\ session = "open"
    /\ cancel' = "raised" /\ awaiting' = "ran" /\ failed' = TRUE
    /\ UNCHANGED <<tasks, keep, real, trialVars, results, provider, root, archived, artifact,
                   exit>>

-----------------------------------------------------------------------------
(* The end of the command.                                                 *)

Infrastructure == {"agent_failure", "timeout", "evaluation_failure"}
CloseProvider(closes) == IF ~real THEN provider ELSE IF closes THEN "closed" ELSE "broken"
Archive(moves) == IF keep /\ moves THEN DOMAIN results ELSE {}
ClearRoot(clears) == IF clears THEN "gone" ELSE "left"

\* A failed close of the provider is raised after the artifact is written.
ExitCode(written, broken) ==
    IF ~written THEN "usage"
    ELSE IF broken THEN "cleanup"
    ELSE IF \E i \in DOMAIN results : results[i].outcome.status \in Infrastructure
         THEN "failures" ELSE "ok"

\* The provider is closed behind a shield; nothing after it waits, so the
\* archive, the temporary root, the artifact and the exit code are one step.
Finish ==
    /\ Ran
    /\ \E closes, moves, clears, writes \in BOOLEAN :
         LET stopped == failed \/ (real /\ cancel = "scope")
             written == ~stopped /\ (keep => moves) /\ clears /\ writes
         IN  /\ provider' = CloseProvider(closes)
             /\ archived' = IF stopped THEN {} ELSE Archive(moves)
             /\ root' = ClearRoot(clears)
             /\ artifact' = written
             /\ failed' = (~written \/ provider' = "broken")
             /\ exit' = IF stopped THEN "interrupted" ELSE ExitCode(written, provider' = "broken")
    /\ awaiting' = "done"
    /\ UNCHANGED <<tasks, keep, real, cancel, trialVars, results>>

\* Here too a signal ends the close it finds, and the root goes all the same.
FinishInterrupted ==
    /\ Ran /\ real /\ cancel = "signal"
    /\ cancel' = "raised" /\ awaiting' = "done" /\ failed' = TRUE /\ exit' = "interrupted"
    /\ root' \in {"gone", "left"}
    /\ UNCHANGED <<tasks, keep, real, trialVars, results, provider, archived, artifact>>

BenchmarkNext ==
        \/ Prepare \/ StartTrial \/ Load \/ AgentActs \/ PromptEnds \/ TimeOut
        \/ CancelPrompt \/ PromptIsOver \/ CloseTrial \/ CloseInterrupted
        \/ Finish \/ FinishInterrupted
        \/ \E who \in {"scope", "signal"} : CancelBenchmark(who)

\* A cancelled task ends; a timer fires; what is not waiting goes on.
BenchmarkFairness ==
            /\ WF_benchmarkVars(Prepare) /\ WF_benchmarkVars(StartTrial) /\ WF_benchmarkVars(Load)
            /\ WF_benchmarkVars(TimeOut) /\ WF_benchmarkVars(CancelPrompt) /\ WF_benchmarkVars(PromptIsOver)
            /\ WF_benchmarkVars((late \/ awaiting = "drain") /\ PromptEnds)
            /\ WF_benchmarkVars(CloseTrial) /\ WF_benchmarkVars(Finish)

-----------------------------------------------------------------------------
(* Properties.                                                             *)

\* However the command ends, no prompt runs on, every session and provider it
\* opened was closed or failed to close, and the temporary root was cleared or
\* reported; only a signal that finds a close under way leaves that one open.
\* A cancellation that was raised, or that came while a shield held it back,
\* leaves no artifact.
NothingLeftOpen ==
    /\ awaiting \in {"next", "ran", "done"} => prompt # "running" /\ (session = "open" => cancel = "raised")
    /\ awaiting = "done" => /\ provider = "open" => cancel = "raised"
                      /\ root # "there"
    /\ artifact => cancel \notin {"scope", "raised"}

\* A reward is given only for a prompt that returned in time, without an agent
\* error, was found good, and left nothing behind; and always then, unless the
\* checks themselves could not be run.
RewardIsEarned ==
    \A i \in DOMAIN results :
        LET r == results[i] IN
        /\ r.outcome.reward = 1 => r.earned /\ r.outcome.status = "passed"
        /\ r.earned => r.outcome.reward = 1 \/ r.outcome.status = "evaluation_failure"
=============================================================================
