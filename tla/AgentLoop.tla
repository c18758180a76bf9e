------------------------------ MODULE AgentLoop ------------------------------
(***************************************************************************)
(* One agent: the harness that owns the transcript and the two message     *)
(* queues (AgentHarness, src/src/le_agent/harness.py) and the loop it      *)
(* drives (run_agent_loop, src/src/le_agent/loop.py).                      *)
(*                                                                         *)
(* The loop is an async generator.  A step of a run is the code between    *)
(* two suspension points, and at each of them the user may steer, queue,   *)
(* cancel or abandon the run:                                              *)
(*                                                                         *)
(*   idle -> opening -> [injected ...] -> provider -> answered             *)
(*     answered -> tools <-> shown -> turnEnd -> turnStart -> [injected ...] *)
(*     answered -> ending (failed reply) or turnEnd (no tool call)         *)
(*     turnEnd -> ending -> idle                                           *)
(*                                                                         *)
(* The batch of tool calls is the contract of module BatchContract, which  *)
(* module ToolBatch implements.                                            *)
(***************************************************************************)
EXTENDS Integers, Sequences, FiniteSets, SequencesExt

CONSTANTS
  None,             \* Python's None
  TurnLimits,       \* values AgentHarnessConfig.max_turns is given
  QueueMode,        \* "one_at_a_time" or "all"
  UniqueCallIds,    \* FALSE: the provider numbers tool calls per reply
  ExternalAppends,  \* TRUE: append_message may be called at any time
  MaxUserMsgs,      \* bound: messages accepted from the user
  MaxReplies,       \* bound: assistant messages of the provider
  MaxCalls,         \* bound: tool calls in one assistant message
  MaxRuns           \* bound: runs started

ASSUME NoneAssumption == None \notin Int
ASSUME TurnsAssumption == TurnLimits \subseteq Int \cup {None}
ASSUME ModeAssumption == QueueMode \in {"one_at_a_time", "all"}
ASSUME FlagAssumption == UniqueCallIds \in BOOLEAN /\ ExternalAppends \in BOOLEAN
ASSUME BoundAssumption ==
  /\ MaxUserMsgs \in Nat
  /\ MaxReplies \in Nat
  /\ MaxCalls \in Nat
  /\ MaxRuns \in Nat

VARIABLES
  transcript,   \* _messages
  steering,     \* _steering_queue
  followUp,     \* _follow_up_queue
  signal,       \* _current_signal: "none", "live" or "cancelled"
  pc,           \* where the run is suspended; _running is pc # "idle"
  turn,         \* number of the current turn
  pending,      \* drained messages not yet in the transcript
  reply,        \* the last assistant message of this run
  answered,     \* calls of the batch whose result is in the transcript
  batch,        \* status of the batch
  base,         \* length of the transcript when this run began
  maxTurns,     \* the limit this run was started with
  users,        \* messages accepted so far
  replies,      \* assistant messages produced so far
  runs          \* runs started so far

run == <<pc, turn, pending, reply, answered, batch, base, maxTurns>>
counters == <<users, replies, runs>>
vars == <<transcript, steering, followUp, signal, run, counters>>

------------------------------------------------------------------------------
(* Messages *)

CallId == [reply : 0 .. MaxReplies, index : 1 .. MaxCalls]

NewCall(j) == [reply |-> IF UniqueCallIds THEN replies + 1 ELSE 0, index |-> j]

UserMessage == [role : {"user"}, id : 1 .. MaxUserMsgs,
                via : {"prompt", "steer", "follow_up", "external"}]
CallList == UNION {[1 .. n -> CallId] : n \in 0 .. MaxCalls}
AssistantMessage == [role : {"assistant"}, calls : CallList,
                     stop : {"done", "failed", "refused"}]
ToolResult == [role : {"result"}, call : CallId]
Message == UserMessage \cup AssistantMessage \cup ToolResult

User(via) == [role |-> "user", id |-> users + 1, via |-> via]
Assistant(calls, stop) == [role |-> "assistant", calls |-> calls, stop |-> stop]
Result(call) == [role |-> "result", call |-> call]

\* _error_message: the loop itself ends the run over its turn limit.
Refusal == Assistant(<<>>, "refused")
NoReply == Assistant(<<>>, "done")

PlacesOf(t, role) == {p \in DOMAIN t : t[p].role = role}

\* Where the tool calls of a transcript are, and their order.
CallPlaces(t) == UNION {{p} \X DOMAIN t[p].calls : p \in PlacesOf(t, "assistant")}
CallAt(t, x) == t[x[1]].calls[x[2]]
Before(x, y) == x[1] < y[1] \/ (x[1] = y[1] /\ x[2] < y[2])
Returned(t) == {t[q].call : q \in PlacesOf(t, "result")}

\* Calls without a result, one place per id: the loop over returned_ids.
Unanswered(t) ==
  {x \in CallPlaces(t) :
     /\ CallAt(t, x) \notin Returned(t)
     /\ \A y \in CallPlaces(t) : Before(y, x) => CallAt(t, y) # CallAt(t, x)}

Nth(S, k) == CHOOSE x \in S : Cardinality({y \in S : Before(y, x)}) = k - 1

\* _append_interrupted_tool_results
Repaired(t) ==
  LET open == Unanswered(t)
  IN  t \o [k \in 1 .. Cardinality(open) |-> Result(CallAt(t, Nth(open, k)))]

Running == pc # "idle"

Batch == INSTANCE BatchContract
           WITH total <- Len(reply.calls), status <- batch

Init ==
  /\ transcript = <<>>
  /\ steering = <<>>
  /\ followUp = <<>>
  /\ signal = "none"
  /\ pc = "idle"
  /\ turn = 1
  /\ pending = <<>>
  /\ reply = NoReply
  /\ answered = <<>>
  /\ batch = "idle"
  /\ base = 0
  /\ maxTurns = None
  /\ users = 0
  /\ replies = 0
  /\ runs = 0

------------------------------------------------------------------------------
(* The harness: starting and leaving a run *)

Start(t) ==
  /\ pc = "idle"
  /\ runs < MaxRuns
  /\ runs' = runs + 1
  /\ transcript' = t
  /\ base' = Len(t)
  /\ maxTurns' \in TurnLimits
  /\ signal' = "live"
  /\ pc' = "opening"
  /\ turn' = 1
  /\ reply' = NoReply
  /\ answered' = <<>>
  /\ batch' = "idle"
  /\ UNCHANGED <<steering, followUp, pending, replies>>

\* prompt_message, up to the first event: repair, then add the new message.
Prompt ==
  /\ users < MaxUserMsgs
  /\ users' = users + 1
  /\ Start(Append(Repaired(transcript), User("prompt")))

\* Seeded fault: a continued run trusts the transcript it finds.
ContinueUnrepaired ==
  /\ Start(transcript)
  /\ UNCHANGED users

\* continue_: the same without a message.
Continue ==
  /\ Start(Repaired(transcript))
  /\ UNCHANGED users

\* Seeded fault: the finally block only resets the flags.
LeaveUnrepaired ==
  /\ UNCHANGED transcript
  /\ signal' = "none"
  /\ pc' = "idle"
  /\ pending' = <<>>
  /\ UNCHANGED <<steering, followUp, turn, reply, answered, base, maxTurns, counters>>

\* The finally block of _run: after a cancellation every call gets a result.
Leave ==
  /\ transcript' = IF signal = "cancelled" THEN Repaired(transcript) ELSE transcript
  /\ signal' = "none"
  /\ pc' = "idle"
  /\ pending' = <<>>
  /\ UNCHANGED <<steering, followUp, turn, reply, answered, base, maxTurns, counters>>

------------------------------------------------------------------------------
(* The loop *)

\* Seeded faults: the newest message is taken from a queue that gives up its
\* oldest; a queue is emptied after one message was taken.
DrainedNewest(queue) ==
  IF QueueMode = "all" \/ queue = <<>> THEN queue ELSE <<queue[Len(queue)]>>
RestCleared(queue) == <<>>

Drained(queue) == IF QueueMode = "all" \/ queue = <<>> THEN queue ELSE <<Head(queue)>>

Rest(queue) == IF QueueMode = "all" \/ queue = <<>> THEN <<>> ELSE Tail(queue)

OverBudgetNever(n) == FALSE

OverBudget(n) == maxTurns # None /\ n > maxTurns

\* The messages todo go into the transcript one at a time; then the turn limit
\* is checked and the provider is called.
Proceed(todo) ==
  IF todo # <<>>
  THEN /\ transcript' = Append(transcript, Head(todo))
       /\ pending' = Tail(todo)
       /\ pc' = "injected"
  ELSE /\ pending' = <<>>
       /\ IF OverBudget(turn)
          THEN transcript' = Append(transcript, Refusal) /\ pc' = "ending"
          ELSE UNCHANGED transcript /\ pc' = "provider"

\* Resumed after the opening events with max_turns below one.
RefuseRun ==
  /\ pc = "opening"
  /\ OverBudget(1)
  /\ transcript' = Append(transcript, Refusal)
  /\ pc' = "ending"
  /\ UNCHANGED <<steering, followUp, signal, turn, pending, reply, answered, batch, base,
                 maxTurns, counters>>

\* Resumed after the opening events: a first look at the steering queue.
Open ==
  /\ pc = "opening"
  /\ ~OverBudget(1)
  /\ Proceed(Drained(steering))
  /\ steering' = Rest(steering)
  /\ UNCHANGED <<followUp, signal, turn, reply, answered, batch, base, maxTurns, counters>>

\* Resumed after the events of an injected message, or after TurnStartEvent.
Inject ==
  /\ pc \in {"injected", "turnStart"}
  /\ Proceed(pending)
  /\ UNCHANGED <<steering, followUp, signal, turn, reply, answered, batch, base, maxTurns, counters>>

\* The stream ended in a done or an error event: its MessageEndEvent is out.  Its
\* calls, if it has any, will be a batch of their own.
ProviderReplies ==
  /\ pc = "provider"
  /\ replies < MaxReplies
  /\ \E n \in 0 .. MaxCalls, stop \in {"done", "failed"} :
       reply' = Assistant([j \in 1 .. n |-> NewCall(j)], stop)
  /\ replies' = replies + 1
  /\ pc' = "answered"
  /\ answered' = <<>>
  /\ batch' = "idle"
  /\ UNCHANGED <<transcript, steering, followUp, signal, turn, pending, base, maxTurns,
                 users, runs>>

\* The stream itself raises: nothing catches it.
ProviderRaises ==
  /\ pc = "provider"
  /\ Leave
  /\ UNCHANGED batch

TakeReply ==
  /\ pc = "answered"
  /\ transcript' = Append(transcript, reply)
  /\ UNCHANGED <<steering, followUp, signal, turn, pending, reply, base, maxTurns, counters>>

\* An error or an aborted reply ends the run; its calls are not executed.
TakeFailure ==
  /\ TakeReply
  /\ reply.stop = "failed"
  /\ pc' = "ending"
  /\ UNCHANGED <<answered, batch>>

TakeText ==
  /\ TakeReply
  /\ reply.stop = "done"
  /\ reply.calls = <<>>
  /\ pc' = "turnEnd"
  /\ UNCHANGED <<answered, batch>>

TakeCalls ==
  /\ TakeReply
  /\ reply.stop = "done"
  /\ Batch!Open
  /\ pc' = "tools"

\* The MessageEndEvent of the next result is out; the result is not stored yet.
ShowResult ==
  /\ pc = "tools"
  /\ pc' = "shown"
  /\ UNCHANGED <<transcript, steering, followUp, signal, turn, pending, reply, answered,
                 batch, base, maxTurns, counters>>

StoreResult ==
  /\ pc = "shown"
  /\ transcript' = Append(transcript, Result(reply.calls[Len(answered) + 1]))
  /\ UNCHANGED <<steering, followUp, signal, turn, pending, reply, base, maxTurns, counters>>
  /\ Batch!Answer
  /\ pc' = IF batch' = "complete" THEN "turnEnd" ELSE "tools"

\* A worker or a hook fails the batch: the exception ends the run.
BatchFails ==
  /\ pc = "tools"
  /\ Leave
  /\ Batch!Abort

\* Resumed after TurnEndEvent: steering first, follow-ups only when the chain of
\* tool calls is over, otherwise the run is.
EndTurn ==
  LET steered == Drained(steering)
      chained == reply.calls # <<>> \/ steered # <<>>
      followed == Drained(followUp)
  IN /\ pc = "turnEnd"
     /\ turn' = turn + 1
     /\ steering' = Rest(steering)
     /\ pending' = IF chained THEN steered ELSE followed
     /\ followUp' = IF chained THEN followUp ELSE Rest(followUp)
     /\ pc' = IF chained \/ followed # <<>> THEN "turnStart" ELSE "ending"
     /\ UNCHANGED <<transcript, signal, reply, answered, batch, base, maxTurns, counters>>

\* Resumed after AgentEndEvent.
Finish ==
  /\ pc = "ending"
  /\ Leave
  /\ UNCHANGED batch

\* The consumer stops iterating, or its task is cancelled, at any suspension.
Abandon ==
  /\ Running
  /\ Leave
  /\ batch' = IF batch = "open" THEN "aborted" ELSE batch

------------------------------------------------------------------------------
(* Callers of the harness, at any time *)

Accept ==
  /\ users < MaxUserMsgs
  /\ users' = users + 1
  /\ UNCHANGED <<signal, run, replies, runs>>

Steer ==
  /\ Accept
  /\ steering' = Append(steering, User("steer"))
  /\ UNCHANGED <<transcript, followUp>>

FollowUp ==
  /\ Accept
  /\ followUp' = Append(followUp, User("follow_up"))
  /\ UNCHANGED <<transcript, steering>>

\* append_message
AppendMessage ==
  /\ ExternalAppends
  /\ Accept
  /\ transcript' = Append(transcript, User("external"))
  /\ UNCHANGED <<steering, followUp>>

AllButLast(queue) == SubSeq(queue, 1, Len(queue) - 1)

\* pop_latest_steering, pop_latest_follow_up and clear_queues
Withdraw ==
  /\ \/ steering # <<>> /\ steering' = AllButLast(steering) /\ UNCHANGED followUp
     \/ followUp # <<>> /\ followUp' = AllButLast(followUp) /\ UNCHANGED steering
     \/ steering' = <<>> /\ followUp' = <<>>
  /\ UNCHANGED <<transcript, signal, run, counters>>

Cancel ==
  /\ signal = "live"
  /\ signal' = "cancelled"
  /\ UNCHANGED <<transcript, steering, followUp, run, counters>>

------------------------------------------------------------------------------

Loop ==
  \/ RefuseRun \/ Open \/ Inject \/ ProviderReplies
  \/ TakeFailure \/ TakeText \/ TakeCalls \/ ShowResult \/ StoreResult
  \/ EndTurn \/ Finish

Caller ==
  \/ Prompt \/ Continue \/ Steer \/ FollowUp \/ AppendMessage \/ Withdraw \/ Cancel

Next == Loop \/ ProviderRaises \/ BatchFails \/ Abandon \/ Caller

\* The consumer keeps asking for events, and provider and tools answer.  Nobody
\* is obliged to start a run, to steer it or to abandon it.
Spec == Init /\ [][Next]_vars /\ WF_vars(Loop)

------------------------------------------------------------------------------
(* Properties *)

TypeOK ==
  /\ transcript \in Seq(Message)
  /\ steering \in Seq(UserMessage)
  /\ followUp \in Seq(UserMessage)
  /\ signal \in {"none", "live", "cancelled"}
  /\ pc \in {"idle", "opening", "injected", "provider", "answered", "tools", "shown",
             "turnEnd", "turnStart", "ending"}
  /\ turn \in Nat \ {0}
  /\ pending \in Seq(UserMessage)
  /\ reply \in AssistantMessage
  /\ answered \in Seq(Nat)
  /\ batch \in {"idle", "open", "complete", "aborted"}
  /\ base \in Nat
  /\ maxTurns \in Int \cup {None}
  /\ users \in 0 .. MaxUserMsgs
  /\ replies \in 0 .. MaxReplies
  /\ runs \in 0 .. MaxRuns

\* Every tool call has a result of its own, somewhere after it.
AllAnswered(t) ==
  \A x \in CallPlaces(t) :
    \E q \in x[1] + 1 .. Len(t) : t[q] = Result(CallAt(t, x))

\* No provider call is made with a tool call in the history that has no result,
\* however earlier runs ended (failed batch, raising provider, cancellation).
AnsweredBeforeProvider == pc = "provider" => AllAnswered(transcript)

\* _provider_context: failed turns without content are not sent again.
Sent(t) ==
  {p \in DOMAIN t : ~(t[p].role = "assistant" /\ t[p].stop # "done" /\ t[p].calls = <<>>)}
Context(t) == FlattenSeq([p \in DOMAIN t |-> IF p \in Sent(t) THEN <<t[p]>> ELSE <<>>])

\* The results of an assistant message follow it at once, in the order of its
\* calls, and there are no other results: what provider APIs insist on.
Replayable(t) ==
  /\ \A x \in CallPlaces(t) :
       x[1] + x[2] \in DOMAIN t /\ t[x[1] + x[2]] = Result(CallAt(t, x))
  /\ \A q \in PlacesOf(t, "result") : \E x \in CallPlaces(t) : q = x[1] + x[2]

\* Messages of either queue in the order they were accepted.
Queued(s, via) == {p \in DOMAIN s : s[p].role = "user" /\ s[p].via = via}
InOrder(s, via) == \A i, j \in Queued(s, via) : i < j => s[i].id < s[j].id
InAcceptedOrder ==
  /\ InOrder(transcript \o pending \o steering, "steer")
  /\ InOrder(transcript \o pending \o followUp, "follow_up")

\* A follow-up directly after an answer without calls, or after another follow-up.
FollowUpsWait(t) ==
  \A p \in Queued(t, "follow_up") :
    /\ p > 1
    /\ t[p - 1] = Assistant(<<>>, "done") \/ p - 1 \in Queued(t, "follow_up")

\* The transcript is in order: a provider is only sent results that directly follow
\* their calls, no path through pending, a repair or a second run lets one queued
\* message overtake another, and no follow-up interrupts a chain of tool calls.
TranscriptInOrder ==
  /\ pc = "provider" => Replayable(Context(transcript))
  /\ InAcceptedOrder
  /\ FollowUpsWait(transcript)

\* A run gets at most max_turns answers from the provider, whatever is steered
\* into it or queued behind it.
TurnBudget ==
  Running /\ maxTurns # None =>
    Cardinality({p \in base + 1 .. Len(transcript) :
                   p \in PlacesOf(transcript, "assistant") /\ transcript[p].stop # "refused"})
      + (IF pc = "answered" THEN 1 ELSE 0)
    <= IF maxTurns < 0 THEN 0 ELSE maxTurns

\* When a cancelled run is over, none of its tool calls is left without a result.
CancelledRunIsClosed ==
  [][Running /\ ~Running' /\ signal = "cancelled" => AllAnswered(transcript')]_vars

\* An accepted message is never lost, except by its sender withdrawing it or by a
\* run that ends while it holds messages it drained but did not add yet.
Accepted ==
  {m.id : m \in {transcript[p] : p \in PlacesOf(transcript, "user")}
                  \cup {steering[p] : p \in DOMAIN steering}
                  \cup {followUp[p] : p \in DOMAIN followUp}
                  \cup {pending[p] : p \in DOMAIN pending}}

MessagesKept ==
  [][\/ Accepted \subseteq Accepted'
     \/ Withdraw
     \/ ~Running' /\ pending # <<>>]_vars

\* A run with a turn limit comes to an end, however much is steered into it.
RunTerminates == Running ~> ~Running
==============================================================================
