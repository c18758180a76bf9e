------------------------------ MODULE ToolBatch ------------------------------
(***************************************************************************)
(* One batch of tool calls: _execute_tool_calls, _prepare_tool_call,       *)
(* _stream_tool_workers and _run_tool_worker of src/src/le_agent/loop.py.  *)
(*                                                                         *)
(* The executor is an async generator: it stops at every event it yields   *)
(* until its consumer asks for the next one, and it awaits a queue that    *)
(* the worker tasks fill.  A step of this module is the code between two   *)
(* such suspension points; anything may happen in between.                 *)
(*                                                                         *)
(*   announce -> announced -> [announce ...] -> stream <-> yielded         *)
(*        -> emit -> emitted -> [emit | announce ...] -> done              *)
(*                                                                         *)
(* with "raising"/"raised" when a worker or a hook fails the batch and     *)
(* "closing"/"unwinding"/"closed" when the consumer gives the batch up.    *)
(***************************************************************************)
EXTENDS Naturals, Sequences, FiniteSets

CONSTANTS
  N,            \* calls of the batch, numbered 1..N in source order
  AfterHook     \* TRUE when an after_tool_call callback is installed

ASSUME NAssumption == N \in Nat \ {0}
ASSUME HookAssumption == AfterHook \in BOOLEAN

VARIABLES
  mode,         \* tool of each call: "unknown", or its execution_mode
  option,       \* the tool_execution argument of the loop
  signal,       \* the run's cancellation token has been set
  pc,           \* where the executor is suspended
  cur,          \* call the executor is announcing, preparing or emitting
  plan,         \* verdict of _prepare_tool_call on each call
  hookSaid,     \* boolean before_tool_call returned for each call
  work,         \* state of each worker task
  cancelling,   \* workers with an undelivered task.cancel()
  queue,        \* the asyncio.Queue between the workers and the executor
  updated,      \* calls that sent a progress update (bound: one each)
  ran,          \* calls whose tool.execute was entered
  ended,        \* calls whose ToolExecutionEnd event was delivered
  outcome,      \* outcomes[i] holds a ToolResultMessage
  committed     \* calls whose result the loop appended to the transcript

batchVars == <<mode, option, signal, pc, cur, plan, hookSaid, work, cancelling,
          queue, updated, ran, ended, outcome, committed>>

Calls == 1 .. N
Mode == {"unknown", "parallel", "sequential"}
Option == {"parallel", "sequential"}
Item == [kind : {"update", "end", "done", "failed"}, call : Calls]
Halted == {"raised", "closed", "done"}
PC == {"idle", "announce", "announced", "stream", "yielded", "emit",
       "emitted", "raising", "closing", "unwinding"} \cup Halted

\* A task that will take no further step.
Settled(i) == work[i] \in {"posted", "failed", "cancelled"}
Live(i) == work[i] \in {"spawned", "executing", "after"}

\* One sequential tool makes the whole batch sequential; unknown tools do not.
Parallel ==
  /\ option = "parallel"
  /\ \A i \in Calls : mode[i] # "sequential"

\* The calls whose workers one _stream_tool_workers call runs.
Group == IF Parallel THEN Calls ELSE {cur}

TypeOK ==
  /\ mode \in [Calls -> Mode]
  /\ option \in Option
  /\ signal \in BOOLEAN
  /\ pc \in PC
  /\ cur \in Calls
  /\ plan \in [Calls -> {"none", "denied", "approved"}]
  /\ hookSaid \in [Calls -> {"none", "true", "false"}]
  /\ work \in [Calls -> {"none", "spawned", "executing", "after", "posted",
                         "failed", "cancelled"}]
  /\ cancelling \in SUBSET Calls
  /\ queue \in Seq(Item)
  /\ updated \in SUBSET Calls
  /\ ran \in SUBSET Calls
  /\ ended \in SUBSET Calls
  /\ outcome \in [Calls -> BOOLEAN]
  /\ committed \in Seq(Calls)

BatchInit ==
  /\ mode \in [Calls -> Mode]
  /\ option \in Option
  /\ signal = FALSE
  /\ pc = "idle"
  /\ cur = 1
  /\ plan = [i \in Calls |-> "none"]
  /\ hookSaid = [i \in Calls |-> "none"]
  /\ work = [i \in Calls |-> "none"]
  /\ cancelling = {}
  /\ queue = <<>>
  /\ updated = {}
  /\ ran = {}
  /\ ended = {}
  /\ outcome = [i \in Calls |-> FALSE]
  /\ committed = <<>>

------------------------------------------------------------------------------
(* The executor: preparation *)

\* The loop hands over the frozen calls of the assistant message.
Begin ==
  /\ pc = "idle"
  /\ pc' = "announce"
  /\ UNCHANGED <<mode, option, signal, cur, plan, hookSaid, work, cancelling,
                 queue, updated, ran, ended, outcome, committed>>

\* yield ToolExecutionStartEvent
Announce ==
  /\ pc = "announce"
  /\ pc' = "announced"
  /\ UNCHANGED <<mode, option, signal, cur, plan, hookSaid, work, cancelling,
                 queue, updated, ran, ended, outcome, committed>>

(* _prepare_tool_call: the verdicts it can reach, with what before_tool_call *)
(* answered on the way ("none" when it was not asked).                       *)
Verdicts(i) ==
  IF mode[i] = "unknown"
  THEN {<<"denied", "none">>}
  ELSE {<<"denied", "none">>,                        \* prepare_arguments raised
        <<"denied", "true">>,                        \* blocked by the hook
        <<IF signal THEN "denied" ELSE "approved", "false">>}

\* Resumed after the start event: prepare the call, then announce the next one
\* or create the worker tasks of the group.
Prepare ==
  /\ pc = "announced"
  /\ \E v \in Verdicts(cur) :
       /\ plan' = [plan EXCEPT ![cur] = v[1]]
       /\ hookSaid' = [hookSaid EXCEPT ![cur] = v[2]]
  /\ IF Parallel /\ cur < N
     THEN /\ cur' = cur + 1
          /\ pc' = "announce"
          /\ UNCHANGED work
     ELSE /\ cur' = IF Parallel THEN 1 ELSE cur
          /\ pc' = "stream"
          /\ work' = [i \in Calls |-> IF i \in Group THEN "spawned" ELSE work[i]]
  /\ UNCHANGED <<mode, option, signal, cancelling, queue, updated, ran, ended,
                 outcome, committed>>

\* before_tool_call raises: nothing catches it, and no worker of this group exists.
BeforeHookRaises ==
  /\ pc = "announced"
  /\ mode[cur] # "unknown"
  /\ pc' = "raised"
  /\ UNCHANGED <<mode, option, signal, cur, plan, hookSaid, work, cancelling,
                 queue, updated, ran, ended, outcome, committed>>

------------------------------------------------------------------------------
(* The executor: draining the queue and committing the results *)

Oldest == Head(queue)

\* An update or an end event is handed to the consumer.
YieldEvent ==
  /\ pc = "stream"
  /\ queue # <<>>
  /\ Oldest.kind \in {"update", "end"}
  /\ ended' = IF Oldest.kind = "end" THEN ended \cup {Oldest.call} ELSE ended
  /\ queue' = Tail(queue)
  /\ pc' = "yielded"
  /\ UNCHANGED <<mode, option, signal, cur, plan, hookSaid, work, cancelling,
                 updated, ran, outcome, committed>>

ResumeStream ==
  /\ pc = "yielded"
  /\ pc' = "stream"
  /\ UNCHANGED <<mode, option, signal, cur, plan, hookSaid, work, cancelling,
                 queue, updated, ran, ended, outcome, committed>>

\* _WorkerDone: keep the message; leave the loop when the whole group is done.
TakeDone ==
  /\ pc = "stream"
  /\ queue # <<>>
  /\ Oldest.kind = "done"
  /\ outcome' = [outcome EXCEPT ![Oldest.call] = TRUE]
  /\ queue' = Tail(queue)
  /\ pc' = IF \A i \in Group : outcome'[i] THEN "emit" ELSE "stream"
  /\ UNCHANGED <<mode, option, signal, cur, plan, hookSaid, work, cancelling,
                 updated, ran, ended, committed>>

CancelWorkers == cancelling' = cancelling \cup {i \in Calls : Live(i)}

\* _WorkerFailed: cancel the other workers, then wait for them in gather().
TakeFailed ==
  /\ pc = "stream"
  /\ queue # <<>>
  /\ Oldest.kind = "failed"
  /\ queue' = Tail(queue)
  /\ CancelWorkers
  /\ pc' = "raising"
  /\ UNCHANGED <<mode, option, signal, cur, plan, hookSaid, work, updated, ran,
                 ended, outcome, committed>>

\* yield MessageStartEvent and MessageEndEvent of the result
Emit ==
  /\ pc = "emit"
  /\ outcome[cur]
  /\ pc' = "emitted"
  /\ UNCHANGED <<mode, option, signal, cur, plan, hookSaid, work, cancelling,
                 queue, updated, ran, ended, outcome, committed>>

\* Seeded fault: the last result is forgotten.
CommitShort ==
  /\ pc = "emitted"
  /\ committed' = Append(committed, cur)
  /\ IF cur + 1 >= N
     THEN pc' = "done" /\ UNCHANGED cur
     ELSE /\ cur' = cur + 1
          /\ pc' = IF Parallel THEN "emit" ELSE "announce"
  /\ UNCHANGED <<mode, option, signal, plan, hookSaid, work, cancelling, queue,
                 updated, ran, ended, outcome>>

\* The consumer comes back: run_agent_loop appends the result it was shown,
\* then asks for the next event.
Commit ==
  /\ pc = "emitted"
  /\ committed' = Append(committed, cur)
  /\ IF cur = N
     THEN pc' = "done" /\ UNCHANGED cur
     ELSE /\ cur' = cur + 1
          /\ pc' = IF Parallel THEN "emit" ELSE "announce"
  /\ UNCHANGED <<mode, option, signal, plan, hookSaid, work, cancelling, queue,
                 updated, ran, ended, outcome>>

\* Seeded fault: the error leaves without waiting for the other workers.
UnwoundAtOnce ==
  /\ pc \in {"raising", "unwinding"}
  /\ pc' = IF pc = "raising" THEN "raised" ELSE "closed"
  /\ UNCHANGED <<mode, option, signal, cur, plan, hookSaid, work, cancelling,
                 queue, updated, ran, ended, outcome, committed>>

\* gather() returned: the error, or the cancellation, leaves the generator.
Unwound ==
  /\ pc \in {"raising", "unwinding"}
  /\ \A i \in Group : Settled(i)
  /\ pc' = IF pc = "raising" THEN "raised" ELSE "closed"
  /\ UNCHANGED <<mode, option, signal, cur, plan, hookSaid, work, cancelling,
                 queue, updated, ran, ended, outcome, committed>>

\* A generator dropped while suspended is finalized by the event loop later on;
\* only then does its finally block cancel the workers.
Finalize ==
  /\ pc = "closing"
  /\ CancelWorkers
  /\ pc' = "unwinding"
  /\ UNCHANGED <<mode, option, signal, cur, plan, hookSaid, work, queue,
                 updated, ran, ended, outcome, committed>>

------------------------------------------------------------------------------
(* The workers *)

Post(i, kinds) ==
  queue' = queue \o [k \in 1 .. Len(kinds) |-> [kind |-> kinds[k], call |-> i]]

\* The end event and the result message are queued in one go.
Finish(i) ==
  /\ work' = [work EXCEPT ![i] = "posted"]
  /\ Post(i, <<"end", "done">>)

\* A result is at hand: ask after_tool_call if there is one.
Produced(i) ==
  IF AfterHook
  THEN work' = [work EXCEPT ![i] = "after"] /\ UNCHANGED queue
  ELSE Finish(i)

\* First step of a worker task: an approved call enters its tool, a denied one
\* already has its result.
WorkerStart(i) ==
  /\ work[i] = "spawned"
  /\ i \notin cancelling
  /\ IF plan[i] = "approved"
     THEN /\ work' = [work EXCEPT ![i] = "executing"]
          /\ ran' = ran \cup {i}
          /\ UNCHANGED queue
     ELSE /\ Produced(i)
          /\ UNCHANGED ran
  /\ UNCHANGED <<mode, option, signal, pc, cur, plan, hookSaid, cancelling,
                 updated, ended, outcome, committed>>

\* on_update, called by a tool that is executing.
ToolUpdates(i) ==
  /\ work[i] = "executing"
  /\ i \notin updated
  /\ updated' = updated \cup {i}
  /\ Post(i, <<"update">>)
  /\ UNCHANGED <<mode, option, signal, pc, cur, plan, hookSaid, work,
                 cancelling, ran, ended, outcome, committed>>

\* tool.execute returns or raises an Exception: both give a result message.
ToolReturns(i) ==
  /\ work[i] = "executing"
  /\ Produced(i)
  /\ UNCHANGED <<mode, option, signal, pc, cur, plan, hookSaid, cancelling,
                 updated, ran, ended, outcome, committed>>

\* after_tool_call returns.
AfterHookReturns(i) ==
  /\ work[i] = "after"
  /\ Finish(i)
  /\ UNCHANGED <<mode, option, signal, pc, cur, plan, hookSaid, cancelling,
                 updated, ran, ended, outcome, committed>>

\* Seeded fault: the worker dies without telling the executor.
WorkerFailsSilently(i) ==
  /\ work[i] \in {"executing", "after"}
  /\ work' = [work EXCEPT ![i] = "failed"]
  /\ UNCHANGED <<mode, option, signal, pc, cur, plan, hookSaid, cancelling, queue,
                 updated, ran, ended, outcome, committed>>

\* A CancelledError out of the tool, or anything out of the hook: the worker
\* reports it on the queue.
WorkerFails(i) ==
  /\ work[i] \in {"executing", "after"}
  /\ work' = [work EXCEPT ![i] = "failed"]
  /\ Post(i, <<"failed">>)
  /\ UNCHANGED <<mode, option, signal, pc, cur, plan, hookSaid, cancelling,
                 updated, ran, ended, outcome, committed>>

\* A task cancelled before its first step never runs at all.
WorkerNeverRuns(i) ==
  /\ work[i] = "spawned"
  /\ i \in cancelling
  /\ work' = [work EXCEPT ![i] = "cancelled"]
  /\ UNCHANGED <<mode, option, signal, pc, cur, plan, hookSaid, cancelling,
                 queue, updated, ran, ended, outcome, committed>>

------------------------------------------------------------------------------
(* The environment *)

\* AgentHarness.cancel
SetSignal ==
  /\ pc \notin Halted
  /\ ~signal
  /\ signal' = TRUE
  /\ UNCHANGED <<mode, option, pc, cur, plan, hookSaid, work, cancelling,
                 queue, updated, ran, ended, outcome, committed>>

\* The run is closed while this generator is suspended at a yield.  The loop
\* above does not close it: it is left to the event loop's finalizer.
CloseAtYield ==
  /\ pc \in {"announced", "yielded", "emitted"}
  /\ pc' = IF pc = "yielded" THEN "closing" ELSE "closed"
  /\ UNCHANGED <<mode, option, signal, cur, plan, hookSaid, work, cancelling,
                 queue, updated, ran, ended, outcome, committed>>

\* The task driving the run is cancelled while it awaits the queue.
CancelAwait ==
  /\ pc = "stream"
  /\ CancelWorkers
  /\ pc' = "unwinding"
  /\ UNCHANGED <<mode, option, signal, cur, plan, hookSaid, work, queue,
                 updated, ran, ended, outcome, committed>>

------------------------------------------------------------------------------

Executor ==
  \/ Announce \/ Prepare
  \/ YieldEvent \/ ResumeStream \/ TakeDone \/ TakeFailed
  \/ Emit \/ Commit \/ Unwound \/ Finalize

Worker(i) ==
  \/ WorkerStart(i) \/ ToolReturns(i) \/ AfterHookReturns(i)
  \/ WorkerFails(i) \/ WorkerNeverRuns(i)

Environment == Begin \/ BeforeHookRaises \/ SetSignal \/ CloseAtYield \/ CancelAwait

BatchNext ==
  \/ Executor
  \/ \E i \in Calls : Worker(i) \/ ToolUpdates(i)
  \/ Environment

\* The event loop runs every ready task, the consumer keeps iterating, and a
\* tool that was entered returns or fails (the one assumption about tools).
BatchFairness ==
  /\ WF_batchVars(Executor)
  /\ \A i \in Calls : WF_batchVars(Worker(i))

------------------------------------------------------------------------------
(* Properties *)

\* Results enter the transcript in the order of the calls in the assistant
\* message, without a gap, whatever order the tools finish in.
SourceOrder ==
  \A k \in 1 .. Len(committed) : committed[k] = k

\* When the generator has finished, failed or been closed, none of its worker
\* tasks is left running.
NoOrphanWorkers ==
  pc \in Halted => \A i \in Calls : ~Live(i)

\* A batch that ends normally answered every call; a parallel batch that fails
\* answers none of them, although some of its tools ran to completion.
AllOrNothing ==
  /\ pc = "done" => Len(committed) = N
  /\ Parallel /\ pc \in {"raising", "raised"} => committed = <<>>

\* A batch that began comes to an end: no worker outcome leaves the executor
\* waiting on its queue for ever.
Terminates == (pc = "announce") ~> (pc \in Halted)

\* Refinement: the batch seen from the loop.
Status ==
  CASE pc = "idle" -> "idle"
    [] pc = "done" -> "complete"
    [] pc \in {"raising", "raised", "closing", "unwinding", "closed"} -> "aborted"
    [] OTHER -> "open"

Contract == INSTANCE BatchContract
              WITH total <- (IF pc = "idle" THEN 0 ELSE N),
                   answered <- committed,
                   status <- Status

\* Every behaviour of the executor and its workers is one the loop was promised.
ImplementsContract == Contract!Init /\ [][Contract!Next]_Contract!vars
==============================================================================
