------------------------------- MODULE ToolsProofs -------------------------------
(***************************************************************************)
(* Theorems about Tools, for any number of calls of a batch, any number of *)
(* processes a command starts, and any text that is read or edited.        *)
(*                                                                         *)
(* IInv strengthens the safety properties of a batch to something each     *)
(* step preserves: where the executor is relative to the results it        *)
(* already handed over (Position), which workers may exist at all          *)
(* (WorkersPlaced) and what an item in the queue, or a stored outcome,     *)
(* says of the worker it came from (Evidence).                             *)
(*                                                                         *)
(* NoSurvivors is not inductive: between the kill and the end of the call  *)
(* a child could start another.  GroupIsDead says that the group is empty  *)
(* from the kill on, which is preserved because a process is in the group  *)
(* only if its parent is.                                                  *)
(*                                                                         *)
(* ImageInv and PageInv are what reading preserves: an image that is       *)
(* encoded is small enough and no animation, and no line behind the next   *)
(* offset was named as too long.  What the functions on text compute is    *)
(* proved along their loops: TailAt says of the lines taken from the end   *)
(* so far that both limits allow them, and Ready of the spans replaced     *)
(* from the last on that what follows the first of them is what is meant.  *)
(***************************************************************************)
EXTENDS Tools, SequenceLemmas

------------------------------------------------------------------------------
(* The batch *)

\* The built-in tools leave the batch alone.
LEMMA BatchPart == (Init => BatchInit) /\ ([Next]_vars => [BatchNext]_batchVars)
<1>1. Init => BatchInit
  BY DEF Init, NoBatch
<1>2. [Next]_vars => [BatchNext]_batchVars
  BY DEF Next, vars
<1> QED
  BY <1>1, <1>2

\* Before the streaming phase of a group nothing after cur has started.
Position ==
  /\ pc = "idle" => cur = 1 /\ committed = <<>>
  /\ Parallel /\ pc \in {"announce", "announced", "stream", "yielded", "raising", "raised"}
       => committed = <<>>
  /\ Parallel /\ pc \in {"stream", "yielded"} => cur = 1
  /\ ~Parallel /\ pc \in {"announce", "announced", "stream", "yielded"}
       => Len(committed) = cur - 1
  /\ pc \in {"emit", "emitted"} => Len(committed) = cur - 1
  /\ pc = "done" => Len(committed) = N

\* Workers that may still take a step belong to the group being streamed.
WorkersPlaced ==
  /\ \A i \in Calls :
       Live(i) => /\ pc \in {"stream", "yielded", "raising", "closing", "unwinding"}
                  /\ i \in Group
  /\ pc = "idle" => \A i \in Calls : work[i] = "none"
  /\ \A i \in Calls : ~Parallel /\ i > cur => work[i] = "none"
  /\ pc \in {"announce", "announced"} =>
       \A i \in Calls : Parallel \/ i = cur => work[i] = "none"

\* An end or done item, and a stored outcome, is of a worker that finished.
Evidence ==
  /\ \A k \in 1 .. Len(queue) : queue[k].kind \in {"end", "done"}
                                  => work[queue[k].call] = "posted"
  /\ \A i \in Calls : outcome[i] => work[i] = "posted"

IInv == TypeOK /\ SourceOrder /\ Position /\ WorkersPlaced /\ Evidence

------------------------------------------------------------------------------

\* What a worker puts on the queue keeps the queue a sequence of items.
LEMMA PostType ==
  ASSUME queue \in Seq(Item), NEW i \in Calls,
         NEW kinds \in Seq({"update", "end", "done", "failed"}),
         Post(i, kinds)
  PROVE  queue' \in Seq(Item)
<1> DEFINE added == [k \in 1 .. Len(kinds) |-> [kind |-> kinds[k], call |-> i]]
<1>1. \A k \in 1 .. Len(kinds) : added[k] \in Item
  BY DEF Item
<1>2. added \in Seq(Item)
  BY <1>1
<1>3. queue' = queue \o added
  BY DEF Post
<1> QED
  BY <1>2, <1>3

\* Finishing worker i only touches its own state and the queue.
LEMMA FinishType ==
  ASSUME TypeOK, NEW i \in Calls, Finish(i)
  PROVE  /\ queue' \in Seq(Item)
         /\ work' \in [Calls -> {"none", "spawned", "executing", "after", "posted",
                                 "failed", "cancelled"}]
<1>1. <<"end", "done">> \in Seq({"update", "end", "done", "failed"})
  OBVIOUS
<1>2. queue' \in Seq(Item)
  BY <1>1, PostType DEF Finish, TypeOK
<1> QED
  BY <1>2 DEF Finish, TypeOK

LEMMA ProducedType ==
  ASSUME TypeOK, NEW i \in Calls, Produced(i)
  PROVE  /\ queue' \in Seq(Item)
         /\ work' \in [Calls -> {"none", "spawned", "executing", "after", "posted",
                                 "failed", "cancelled"}]
<1>1. CASE AfterHook
  BY <1>1 DEF Produced, TypeOK
<1>2. CASE ~AfterHook
  BY <1>2, FinishType DEF Produced
<1> QED
  BY <1>1, <1>2

\* The initial states are well typed.
LEMMA InitTypeOK == BatchInit => TypeOK
<1> SUFFICES ASSUME BatchInit PROVE TypeOK
  OBVIOUS
<1>1. cur \in Calls
  BY NAssumption DEF BatchInit, Calls
<1>2. queue \in Seq(Item) /\ committed \in Seq(Calls)
  BY DEF BatchInit
<1> QED
  BY <1>1, <1>2 DEF BatchInit, TypeOK, PC

\* Every step keeps the types.
LEMMA NextTypeOK == TypeOK /\ [BatchNext]_batchVars => TypeOK'
<1> SUFFICES ASSUME TypeOK, [BatchNext]_batchVars PROVE TypeOK'
  OBVIOUS
<1> USE NAssumption DEF TypeOK, PC, Halted
<1>1. CASE Announce \/ ResumeStream \/ Emit \/ Unwound \/ Begin \/ BeforeHookRaises
           \/ SetSignal \/ CloseAtYield
  BY <1>1 DEF Announce, ResumeStream, Emit, Unwound, Begin, BeforeHookRaises,
              SetSignal, CloseAtYield
<1>2. CASE TakeFailed \/ Finalize \/ CancelAwait
  <2>1. cancelling' = cancelling \cup {i \in Calls : Live(i)}
    BY <1>2 DEF TakeFailed, Finalize, CancelAwait, CancelWorkers
  <2>2. cancelling' \in SUBSET Calls
    BY <2>1
  <2>3. CASE TakeFailed
    <3>1. queue \in Seq(Item) /\ queue # <<>> /\ queue' = Tail(queue)
      BY <2>3 DEF TakeFailed
    <3>2. queue' \in Seq(Item)
      BY <3>1
    <3> QED
      BY <2>2, <2>3, <3>2 DEF TakeFailed
  <2>4. CASE Finalize
    BY <2>2, <2>4 DEF Finalize
  <2>5. CASE CancelAwait
    BY <2>2, <2>5 DEF CancelAwait
  <2> QED
    BY <1>2, <2>3, <2>4, <2>5
<1>3. CASE Prepare
  <2>1. PICK v \in Verdicts(cur) : /\ plan' = [plan EXCEPT ![cur] = v[1]]
                                   /\ hookSaid' = [hookSaid EXCEPT ![cur] = v[2]]
    BY <1>3 DEF Prepare
  <2>2. v[1] \in {"denied", "approved"} /\ v[2] \in {"none", "true", "false"}
    BY <2>1 DEF Verdicts
  <2>3. /\ plan' \in [Calls -> {"none", "denied", "approved"}]
        /\ hookSaid' \in [Calls -> {"none", "true", "false"}]
    BY <2>1, <2>2
  <2>4. cur' \in Calls /\ pc' \in PC
    BY <1>3 DEF Prepare, Calls
  <2>5. work' \in [Calls -> {"none", "spawned", "executing", "after", "posted",
                             "failed", "cancelled"}]
    BY <1>3 DEF Prepare
  <2> QED
    BY <1>3, <2>3, <2>4, <2>5 DEF Prepare
<1>4. CASE YieldEvent
  <2>1. Oldest \in Item
    BY <1>4 DEF YieldEvent, Oldest
  <2> QED
    BY <1>4, <2>1 DEF YieldEvent, Item
<1>5. CASE TakeDone
  <2>1. Oldest \in Item
    BY <1>5 DEF TakeDone, Oldest
  <2> QED
    BY <1>5, <2>1 DEF TakeDone, Item
<1>6. CASE Commit
  BY <1>6 DEF Commit, Calls
<1>7. ASSUME NEW i \in Calls, WorkerStart(i) PROVE TypeOK'
  BY <1>7, ProducedType DEF WorkerStart
<1>8. ASSUME NEW i \in Calls, ToolUpdates(i) PROVE TypeOK'
  <2>1. <<"update">> \in Seq({"update", "end", "done", "failed"})
    OBVIOUS
  <2> QED
    BY <1>8, <2>1, PostType DEF ToolUpdates
<1>9. ASSUME NEW i \in Calls, ToolReturns(i) PROVE TypeOK'
  BY <1>9, ProducedType DEF ToolReturns
<1>10. ASSUME NEW i \in Calls, AfterHookReturns(i) PROVE TypeOK'
  BY <1>10, FinishType DEF AfterHookReturns
<1>11. ASSUME NEW i \in Calls, WorkerFails(i) PROVE TypeOK'
  <2>1. <<"failed">> \in Seq({"update", "end", "done", "failed"})
    OBVIOUS
  <2> QED
    BY <1>11, <2>1, PostType DEF WorkerFails
<1>12. ASSUME NEW i \in Calls, WorkerNeverRuns(i) PROVE TypeOK'
  BY <1>12 DEF WorkerNeverRuns
<1>13. CASE UNCHANGED batchVars
  BY <1>13 DEF batchVars
<1> QED
  BY <1>1, <1>2, <1>3, <1>4, <1>5, <1>6, <1>7, <1>8, <1>9, <1>10, <1>11, <1>12, <1>13
  DEF BatchNext, Executor, Worker, Environment

\* Type correctness: every variable keeps its type, for every number of calls.
THEOREM TypeCorrect == Spec => []TypeOK
<1>1. Init => TypeOK
  BY BatchPart, InitTypeOK
<1>2. TypeOK /\ [Next]_vars => TypeOK'
  BY BatchPart, NextTypeOK
<1> QED
  BY <1>1, <1>2, PTL DEF Spec

------------------------------------------------------------------------------

\* Items already queued stay good evidence when worker i posts, and the new ones
\* are good evidence if i claims to have ended only once it has posted.
LEMMA PostEvidence ==
  ASSUME TypeOK, Evidence, NEW i \in Calls,
         NEW kinds \in Seq({"update", "end", "done", "failed"}),
         Post(i, kinds), outcome' = outcome,
         \A j \in Calls : work[j] = "posted" => work'[j] = "posted",
         \A k \in 1 .. Len(kinds) : kinds[k] \in {"end", "done"} => work'[i] = "posted"
  PROVE  Evidence'
<1> DEFINE added == [k \in 1 .. Len(kinds) |-> [kind |-> kinds[k], call |-> i]]
<1>1. /\ added \in Seq(Item) /\ Len(added) = Len(kinds)
      /\ \A k \in 1 .. Len(kinds) : added[k] \in Item
  BY DEF Item
<1>2. queue \in Seq(Item) /\ queue' = queue \o added
  BY DEF Post, TypeOK
<1>3. ASSUME NEW k \in 1 .. Len(queue'), queue'[k].kind \in {"end", "done"}
      PROVE  work'[queue'[k].call] = "posted"
  <2>1. CASE k <= Len(queue)
    <3>1. k \in 1 .. Len(queue) /\ queue'[k] = queue[k]
      BY <1>1, <1>2, <2>1
    <3>2. queue[k] \in Item
      BY <1>2, <3>1
    <3> QED
      BY <1>3, <3>1, <3>2 DEF Evidence, Item
  <2>2. CASE k > Len(queue)
    <3> DEFINE m == k - Len(queue)
    <3>1. m \in 1 .. Len(kinds) /\ queue'[k] = added[m]
      BY <1>1, <1>2, <2>2
    <3>2. queue'[k] = [kind |-> kinds[m], call |-> i]
      BY <3>1
    <3>3. kinds[m] \in {"end", "done"}
      BY <1>3, <3>2
    <3> QED
      BY <3>1, <3>2, <3>3
  <2> QED
    BY <1>1, <1>2, <2>1, <2>2
<1>4. \A j \in Calls : outcome'[j] => work'[j] = "posted"
  BY DEF Evidence
<1> QED
  BY <1>3, <1>4 DEF Evidence

\* Taking the front item off the queue leaves good evidence behind.
LEMMA TailEvidence ==
  ASSUME TypeOK, Evidence, queue # <<>>, queue' = Tail(queue), work' = work
  PROVE  \A k \in 1 .. Len(queue') : queue'[k].kind \in {"end", "done"}
                                       => work'[queue'[k].call] = "posted"
<1>1. queue \in Seq(Item)
  BY DEF TypeOK
<1>2. \A k \in 1 .. Len(queue') : k + 1 \in 1 .. Len(queue) /\ queue'[k] = queue[k + 1]
  BY <1>1
<1> QED
  BY <1>2 DEF Evidence

\* The initial states satisfy the inductive invariant.
LEMMA InitIInv == BatchInit => IInv
<1> SUFFICES ASSUME BatchInit PROVE IInv
  OBVIOUS
<1>1. TypeOK
  BY InitTypeOK
<1>2. SourceOrder /\ Position
  BY NAssumption DEF BatchInit, SourceOrder, Position, Calls
<1>3. WorkersPlaced
  BY DEF BatchInit, WorkersPlaced, Live
<1>4. Evidence
  BY DEF BatchInit, Evidence
<1> QED
  BY <1>1, <1>2, <1>3, <1>4 DEF IInv

\* A step of the executor, a worker or the environment keeps the results handed
\* over in source order and the executor's place among them.
LEMMA NextPosition == IInv /\ [BatchNext]_batchVars => SourceOrder' /\ Position'
<1> SUFFICES ASSUME IInv, [BatchNext]_batchVars PROVE SourceOrder' /\ Position'
  OBVIOUS
<1> USE NAssumption DEF IInv
<1>1. CASE Commit
  <2>1. /\ cur \in Nat /\ 1 <= cur /\ cur <= N
        /\ committed \in Seq(Calls) /\ Len(committed) = cur - 1
        /\ committed' = Append(committed, cur)
    BY <1>1 DEF Commit, TypeOK, Calls, Position
  <2>2. Len(committed') = cur /\ committed'[cur] = cur
    BY <2>1
  <2>3. \A k \in 1 .. Len(committed) : committed'[k] = committed[k]
    BY <2>1
  <2>4. SourceOrder'
    BY <2>1, <2>2, <2>3 DEF SourceOrder
  <2>5. Parallel' = Parallel
    BY <1>1 DEF Commit, Parallel
  <2>6. Position'
    BY <1>1, <2>1, <2>2, <2>5 DEF Commit, Position
  <2> QED
    BY <2>4, <2>6
<1>2. CASE Announce \/ ResumeStream \/ Emit \/ Unwound \/ BeforeHookRaises
           \/ SetSignal \/ CloseAtYield \/ TakeFailed \/ Finalize \/ CancelAwait
           \/ YieldEvent \/ Begin
  <2>1. committed' = committed /\ cur' = cur /\ Parallel' = Parallel
    BY <1>2 DEF Announce, ResumeStream, Emit, Unwound, BeforeHookRaises, SetSignal,
                CloseAtYield, TakeFailed, Finalize, CancelAwait, YieldEvent, Begin, Parallel
  <2>2. cur \in Nat /\ 1 <= cur /\ cur <= N
    BY DEF TypeOK, Calls
  <2> QED
    BY <1>2, <2>1, <2>2
    DEF Announce, ResumeStream, Emit, Unwound, BeforeHookRaises, SetSignal, CloseAtYield,
        TakeFailed, Finalize, CancelAwait, YieldEvent, Begin, Position, SourceOrder
<1>3. CASE TakeDone
  <2>1. committed' = committed /\ cur' = cur /\ Parallel' = Parallel
    BY <1>3 DEF TakeDone, Parallel
  <2>2. cur \in Nat /\ 1 <= cur /\ cur <= N /\ committed \in Seq(Calls)
    BY DEF TypeOK, Calls
  <2> QED
    BY <1>3, <2>1, <2>2 DEF TakeDone, Position, SourceOrder
<1>4. CASE Prepare
  <2>1. committed' = committed /\ Parallel' = Parallel
    BY <1>4 DEF Prepare, Parallel
  <2>2. cur \in Nat /\ 1 <= cur /\ cur <= N /\ committed \in Seq(Calls)
    BY DEF TypeOK, Calls
  <2>3. CASE Parallel
    BY <1>4, <2>1, <2>2, <2>3 DEF Prepare, Position, SourceOrder
  <2>4. CASE ~Parallel
    BY <1>4, <2>1, <2>2, <2>4 DEF Prepare, Position, SourceOrder
  <2> QED
    BY <2>3, <2>4
<1>5. ASSUME NEW i \in Calls, Worker(i) \/ ToolUpdates(i)
      PROVE  SourceOrder' /\ Position'
  <2>1. UNCHANGED <<committed, cur, pc, mode, option>>
    BY <1>5 DEF Worker, ToolUpdates, WorkerStart, ToolReturns, AfterHookReturns,
                WorkerFails, WorkerNeverRuns
  <2> QED
    BY <2>1 DEF SourceOrder, Position, Parallel
<1>6. CASE UNCHANGED batchVars
  BY <1>6 DEF batchVars, SourceOrder, Position, Parallel
<1> QED
  BY <1>1, <1>2, <1>3, <1>4, <1>5, <1>6 DEF BatchNext, Executor, Environment

\* Every step keeps the queue and the stored outcomes good evidence of finished
\* workers.
LEMMA NextEvidence == IInv /\ [BatchNext]_batchVars => Evidence'
<1> SUFFICES ASSUME IInv, [BatchNext]_batchVars PROVE Evidence'
  OBVIOUS
<1> USE DEF IInv
<1>1. CASE YieldEvent \/ TakeFailed
  <2>1. /\ queue # <<>> /\ queue' = Tail(queue)
        /\ work' = work /\ outcome' = outcome
    BY <1>1 DEF YieldEvent, TakeFailed
  <2> QED
    BY <2>1, TailEvidence DEF Evidence
<1>2. CASE TakeDone
  <2>1. /\ queue # <<>> /\ queue' = Tail(queue) /\ work' = work
        /\ outcome' = [outcome EXCEPT ![Oldest.call] = TRUE]
        /\ Oldest.kind = "done"
    BY <1>2 DEF TakeDone
  <2>2. Oldest = queue[1] /\ 1 \in 1 .. Len(queue) /\ Oldest \in Item
    BY <2>1 DEF Oldest, TypeOK
  <2>3. work[Oldest.call] = "posted"
    BY <2>1, <2>2 DEF Evidence
  <2>4. \A i \in Calls : outcome'[i] => work'[i] = "posted"
    BY <2>1, <2>3 DEF Evidence, TypeOK
  <2> QED
    BY <2>1, <2>4, TailEvidence DEF Evidence
<1>3. CASE Prepare
  <2>1. outcome' = outcome /\ queue' = queue
    BY <1>3 DEF Prepare
  <2>2. cur \in Calls /\ pc = "announced"
    BY <1>3 DEF Prepare, TypeOK
  <2>3. ASSUME NEW i \in Calls, work[i] = "posted" PROVE work'[i] = "posted"
    <3>1. ~Parallel /\ i # cur
      BY <2>2, <2>3 DEF WorkersPlaced
    <3>2. i \notin Group
      BY <3>1 DEF Group
    <3> QED
      BY <1>3, <2>3, <3>1, <3>2 DEF Prepare
  <2>4. \A k \in 1 .. Len(queue) : queue[k] \in Item
    BY DEF TypeOK
  <2>5. \A k \in 1 .. Len(queue) : queue[k].call \in Calls
    BY <2>4 DEF Item
  <2> QED
    BY <2>1, <2>3, <2>5 DEF Evidence
<1>4. ASSUME NEW i \in Calls, Finish(i), work[i] # "posted", outcome' = outcome
      PROVE  Evidence'
  <2>1. <<"end", "done">> \in Seq({"update", "end", "done", "failed"})
    OBVIOUS
  <2>2. work'[i] = "posted" /\ \A j \in Calls : work[j] = "posted" => work'[j] = "posted"
    BY <1>4 DEF Finish, TypeOK
  <2> QED
    BY <1>4, <2>1, <2>2, PostEvidence DEF Finish
<1>5. ASSUME NEW i \in Calls, NEW s, s # "posted", work[i] # "posted",
             work' = [work EXCEPT ![i] = s], UNCHANGED <<queue, outcome>>
      PROVE  Evidence'
  <2>1. \A j \in Calls : work[j] = "posted" => work'[j] = "posted"
    BY <1>5 DEF TypeOK
  <2>2. \A k \in 1 .. Len(queue) : queue[k] \in Item
    BY DEF TypeOK
  <2>3. \A k \in 1 .. Len(queue) : queue[k].call \in Calls
    BY <2>2 DEF Item
  <2> QED
    BY <1>5, <2>1, <2>3 DEF Evidence
<1>6. ASSUME NEW i \in Calls, WorkerStart(i) \/ ToolReturns(i) \/ AfterHookReturns(i)
             \/ WorkerNeverRuns(i)
      PROVE  Evidence'
  <2>1. work[i] # "posted" /\ outcome' = outcome
    BY <1>6 DEF WorkerStart, ToolReturns, AfterHookReturns, WorkerNeverRuns
  <2>2. \/ Finish(i)
        \/ \E s \in {"executing", "after", "cancelled"} :
             work' = [work EXCEPT ![i] = s] /\ queue' = queue
    BY <1>6 DEF WorkerStart, ToolReturns, AfterHookReturns, WorkerNeverRuns, Produced
  <2> QED
    BY <1>4, <1>5, <2>1, <2>2
<1>7. ASSUME NEW i \in Calls, ToolUpdates(i) PROVE Evidence'
  <2>1. <<"update">> \in Seq({"update", "end", "done", "failed"})
    OBVIOUS
  <2>2. Post(i, <<"update">>) /\ work' = work /\ outcome' = outcome
    BY <1>7 DEF ToolUpdates
  <2>3. \A k \in 1 .. Len(<<"update">>) : <<"update">>[k] \notin {"end", "done"}
    OBVIOUS
  <2> QED
    BY <2>1, <2>2, <2>3, PostEvidence
<1>8. ASSUME NEW i \in Calls, WorkerFails(i) PROVE Evidence'
  <2>1. <<"failed">> \in Seq({"update", "end", "done", "failed"})
    OBVIOUS
  <2>2. /\ Post(i, <<"failed">>) /\ outcome' = outcome
        /\ \A j \in Calls : work[j] = "posted" => work'[j] = "posted"
    BY <1>8 DEF WorkerFails, TypeOK
  <2>3. \A k \in 1 .. Len(<<"failed">>) : <<"failed">>[k] \notin {"end", "done"}
    OBVIOUS
  <2> QED
    BY <2>1, <2>2, <2>3, PostEvidence
<1>9. CASE UNCHANGED <<queue, work, outcome>>
  BY <1>9 DEF Evidence
<1>10. ASSUME Announce \/ ResumeStream \/ Emit \/ Commit \/ Unwound \/ Finalize
              \/ Environment \/ UNCHANGED batchVars
       PROVE  UNCHANGED <<queue, work, outcome>>
  BY <1>10 DEF Announce, ResumeStream, Emit, Commit, Unwound, Finalize, Environment, Begin,
               BeforeHookRaises, SetSignal, CloseAtYield, CancelAwait, batchVars
<1> QED
  BY <1>1, <1>2, <1>3, <1>6, <1>7, <1>8, <1>9, <1>10 DEF BatchNext, Executor, Worker

\* Every step keeps the workers that may still run inside the group the executor
\* is streaming.
LEMMA NextWorkers == IInv /\ [BatchNext]_batchVars => WorkersPlaced'
<1> SUFFICES ASSUME IInv, [BatchNext]_batchVars PROVE WorkersPlaced'
  OBVIOUS
<1> USE NAssumption DEF IInv
<1>0. cur \in Nat /\ 1 <= cur /\ cur <= N
  BY DEF TypeOK, Calls
<1>1. CASE Prepare
  <2>1. Parallel' = Parallel /\ pc = "announced"
    BY <1>1 DEF Prepare, Parallel
  <2>2. CASE Parallel
    <3>1. Group' = Calls
      BY <2>1, <2>2 DEF Group
    <3> QED
      BY <1>0, <1>1, <2>1, <2>2, <3>1 DEF Prepare, WorkersPlaced, Live, TypeOK
  <2>3. CASE ~Parallel
    <3>1. cur' = cur /\ pc' = "stream" /\ Group = {cur} /\ Group' = {cur}
      BY <1>1, <2>1, <2>3 DEF Prepare, Group
    <3>2. work' = [i \in Calls |-> IF i \in Group THEN "spawned" ELSE work[i]]
      BY <1>1, <2>3 DEF Prepare
    <3>3. \A i \in Calls : Live(i)' => i = cur
      BY <2>1, <3>1, <3>2 DEF WorkersPlaced, Live
    <3> QED
      BY <1>0, <2>1, <2>3, <3>1, <3>2, <3>3 DEF WorkersPlaced, Live
  <2> QED
    BY <2>2, <2>3
<1>2. CASE Commit
  <2>1. Parallel' = Parallel /\ work' = work /\ pc = "emitted"
    BY <1>2 DEF Commit, Parallel
  <2>2. \A i \in Calls : ~Live(i)'
    BY <2>1 DEF WorkersPlaced, Live
  <2> QED
    BY <1>0, <1>2, <2>1, <2>2 DEF Commit, WorkersPlaced, Calls
<1>3. CASE TakeDone
  <2>1. /\ work' = work /\ cur' = cur /\ Parallel' = Parallel /\ Group' = Group
        /\ pc = "stream"
    BY <1>3 DEF TakeDone, Parallel, Group
  <2>2. Evidence'
    BY NextEvidence
  <2>3. pc' = "emit" => \A i \in Group : work'[i] = "posted"
    BY <1>3, <2>2 DEF TakeDone, Evidence, Group, TypeOK
  <2>4. pc' \in {"stream", "emit"}
    BY <1>3 DEF TakeDone
  <2> QED
    BY <2>1, <2>3, <2>4 DEF WorkersPlaced, Live
<1>4. CASE Unwound
  <2>1. /\ UNCHANGED <<work, cur>> /\ Parallel' = Parallel /\ Group' = Group
        /\ pc' \in {"raised", "closed"}
    BY <1>4 DEF Unwound, Parallel, Group
  <2>2. \A i \in Group : ~Live(i)
    BY <1>4 DEF Unwound, Settled, Live
  <2> QED
    BY <2>1, <2>2 DEF WorkersPlaced, Live
<1>5. CASE Announce \/ ResumeStream \/ Emit \/ BeforeHookRaises \/ SetSignal
           \/ CloseAtYield \/ TakeFailed \/ Finalize \/ CancelAwait \/ YieldEvent \/ Begin
  <2>1. UNCHANGED <<work, cur>> /\ Parallel' = Parallel /\ Group' = Group
    BY <1>5 DEF Announce, ResumeStream, Emit, BeforeHookRaises, SetSignal, CloseAtYield,
                TakeFailed, Finalize, CancelAwait, YieldEvent, Begin, Parallel, Group
  <2> QED
    BY <1>5, <2>1
    DEF Announce, ResumeStream, Emit, BeforeHookRaises, SetSignal, CloseAtYield,
        TakeFailed, Finalize, CancelAwait, YieldEvent, Begin, WorkersPlaced, Live
<1>6. ASSUME NEW i \in Calls, Worker(i) \/ ToolUpdates(i) PROVE WorkersPlaced'
  <2>1. UNCHANGED <<cur, pc>> /\ Parallel' = Parallel /\ Group' = Group
    BY <1>6 DEF Worker, ToolUpdates, WorkerStart, ToolReturns, AfterHookReturns,
                WorkerFails, WorkerNeverRuns, Parallel, Group
  <2>2. Live(i)
    BY <1>6 DEF Worker, ToolUpdates, WorkerStart, ToolReturns, AfterHookReturns,
                WorkerFails, WorkerNeverRuns, Live
  <2>3. \A j \in Calls : j # i => work'[j] = work[j]
    BY <1>6 DEF Worker, ToolUpdates, WorkerStart, ToolReturns, AfterHookReturns,
                WorkerFails, WorkerNeverRuns, Produced, Finish, TypeOK
  <2>4. pc \notin {"idle", "announce", "announced"} /\ i \in Group
    BY <2>2 DEF WorkersPlaced
  <2>5. ~Parallel => i = cur
    BY <2>4 DEF Group
  <2> QED
    BY <1>0, <2>1, <2>2, <2>3, <2>4, <2>5 DEF WorkersPlaced, Live
<1>7. CASE UNCHANGED batchVars
  BY <1>7 DEF batchVars, WorkersPlaced, Live, Group, Parallel
<1> QED
  BY <1>1, <1>2, <1>3, <1>4, <1>5, <1>6, <1>7 DEF BatchNext, Executor, Environment

------------------------------------------------------------------------------

\* The inductive invariant holds in every reachable state.
LEMMA Inductive == Spec => []IInv
<1>1. Init => IInv
  BY BatchPart, InitIInv
<1>2. IInv /\ [Next]_vars => IInv'
  <2> SUFFICES ASSUME IInv, [BatchNext]_batchVars PROVE IInv'
    BY BatchPart
  <2>1. TypeOK'
    BY NextTypeOK DEF IInv
  <2>2. SourceOrder' /\ Position'
    BY NextPosition
  <2>3. WorkersPlaced'
    BY NextWorkers
  <2>4. Evidence'
    BY NextEvidence
  <2> QED
    BY <2>1, <2>2, <2>3, <2>4 DEF IInv
<1> QED
  BY <1>1, <1>2, PTL DEF Spec

\* Results enter the transcript in source order, however the tools interleave.
THEOREM ResultsInSourceOrder == Spec => []SourceOrder
<1>1. IInv => SourceOrder
  BY DEF IInv
<1> QED
  BY <1>1, Inductive, PTL

\* A finished, failed or closed batch leaves no worker task running.
THEOREM WorkersAreJoined == Spec => []NoOrphanWorkers
<1>1. IInv => NoOrphanWorkers
  BY DEF IInv, WorkersPlaced, NoOrphanWorkers, Halted
<1> QED
  BY <1>1, Inductive, PTL

\* A batch that ends normally answered every call; a failed parallel batch none.
THEOREM BatchIsAllOrNothing == Spec => []AllOrNothing
<1>1. IInv => AllOrNothing
  BY DEF IInv, Position, AllOrNothing
<1> QED
  BY <1>1, Inductive, PTL

\* A step of the executor and its workers is a step of the contract, or none.
LEMMA StepRefines == IInv /\ [BatchNext]_batchVars => [Contract!Next]_Contract!vars
<1> SUFFICES ASSUME IInv, [BatchNext]_batchVars PROVE [Contract!Next]_Contract!vars
  OBVIOUS
<1> USE NAssumption DEF IInv
<1>1. CASE Begin
  <2>1. committed = <<>> /\ UNCHANGED committed /\ pc = "idle" /\ pc' = "announce"
    BY <1>1 DEF Begin, Position
  <2>2. Contract!Open
    BY <2>1 DEF Contract!Open, Status
  <2> QED
    BY <2>2 DEF Contract!Next
<1>2. CASE Commit
  <2>1. /\ pc = "emitted" /\ committed \in Seq(Calls) /\ committed' = Append(committed, cur)
        /\ cur \in Nat /\ Len(committed) = cur - 1
        /\ pc' = IF cur = N THEN "done" ELSE IF Parallel THEN "emit" ELSE "announce"
    BY <1>2 DEF Commit, Position, TypeOK, Calls
  <2>2. Len(committed') = cur /\ Len(committed) + 1 = cur
    BY <2>1
  <2>3. Status = "open" /\ Status' = IF cur = N THEN "complete" ELSE "open"
    BY <2>1 DEF Status
  <2>4. Contract!Answer
    BY <2>1, <2>2, <2>3 DEF Contract!Answer
  <2> QED
    BY <2>4 DEF Contract!Next
<1>3. CASE BeforeHookRaises \/ TakeFailed \/ CancelAwait \/ CloseAtYield
  <2>1. /\ Status = "open" /\ Status' = "aborted"
        /\ committed' = committed /\ pc # "idle" /\ pc' # "idle"
    BY <1>3 DEF BeforeHookRaises, TakeFailed, CancelAwait, CloseAtYield, Status
  <2>2. Contract!Abort
    BY <2>1 DEF Contract!Abort
  <2> QED
    BY <2>2 DEF Contract!Next
<1>4. ASSUME committed' = committed, Status' = Status, (pc = "idle") = (pc' = "idle")
      PROVE  UNCHANGED Contract!vars
  BY <1>4 DEF Contract!vars
<1>5. CASE Announce \/ Prepare \/ YieldEvent \/ ResumeStream \/ TakeDone \/ Emit
           \/ Unwound \/ Finalize
  <2>1. committed' = committed /\ pc # "idle" /\ pc' # "idle"
    BY <1>5 DEF Announce, Prepare, YieldEvent, ResumeStream, TakeDone, Emit, Unwound, Finalize
  <2>2. Status' = Status
    BY <1>5 DEF Announce, Prepare, YieldEvent, ResumeStream, TakeDone, Emit, Unwound,
                Finalize, Status
  <2> QED
    BY <1>4, <2>1, <2>2
<1>6. ASSUME SetSignal \/ (\E i \in Calls : Worker(i) \/ ToolUpdates(i)) \/ UNCHANGED batchVars
      PROVE  UNCHANGED Contract!vars
  <2>1. UNCHANGED <<pc, committed>>
    BY <1>6 DEF SetSignal, Worker, ToolUpdates, WorkerStart, ToolReturns, AfterHookReturns,
                WorkerFails, WorkerNeverRuns, batchVars
  <2> QED
    BY <1>4, <2>1 DEF Status
<1> QED
  BY <1>1, <1>2, <1>3, <1>5, <1>6 DEF BatchNext, Executor, Environment

\* The executor and its workers implement the contract the loop relies on.
THEOREM BatchRefinesContract == Spec => ImplementsContract
<1>1. Init => Contract!Init
  BY BatchPart DEF BatchInit, Contract!Init, Status
<1>2. IInv /\ [Next]_vars => [Contract!Next]_Contract!vars
  BY BatchPart, StepRefines
<1> QED
  BY <1>1, <1>2, Inductive, PTL DEF Spec, ImplementsContract

------------------------------------------------------------------------------
(* Commands *)

CmdType ==
  /\ call \in {"none", "idle", "waiting", "killed", "returned", "raised"}
  /\ options \in [timeout : BOOLEAN, token : BOOLEAN]
  /\ shell \in {"none", "running", "gone"}
  /\ kids \in [Kids -> [is : {"none", "running", "gone"}, group : BOOLEAN, pipe : BOOLEAN]]
  /\ token \in BOOLEAN /\ seen \in BOOLEAN
  /\ timer \in {"off", "armed", "fired"}
  /\ stopped \in [timedOut : BOOLEAN, cancelled : BOOLEAN]

GroupIsEmpty == shell # "running" /\ \A k \in Kids : Running(k) => ~kids[k].group

\* Only a kill says in the result that the command was stopped.
GroupIsDead ==
  /\ call \in {"none", "idle", "killed", "raised"} => GroupIsEmpty
  /\ stopped.timedOut \/ stopped.cancelled =>
       call \in {"killed", "returned"} /\ GroupIsEmpty

CmdInv == CmdType /\ GroupIsDead

------------------------------------------------------------------------------

\* Whatever is killed, and whichever child had left the group, none of the group is left.
LEMMA KillEmpties ==
  ASSUME CmdType, KillTree
  PROVE  /\ GroupIsEmpty'
         /\ shell' \in {"none", "running", "gone"}
         /\ kids' \in [Kids -> [is : {"none", "running", "gone"}, group : BOOLEAN, pipe : BOOLEAN]]
  BY DEF CmdType, KillTree, GroupIsEmpty, Running

\* An empty group stays empty: a child inherits the group from a member of it.
LEMMA ForkKeepsEmpty ==
  ASSUME CmdType, GroupIsEmpty, NEW k \in Kids, Fork(k)
  PROVE  GroupIsEmpty'
<1>1. PICK kind \in Kinds : ParentOf(kind) /\ kids' = [kids EXCEPT ![k] = kind]
  BY DEF Fork
<1>2. ~kind.group
  BY <1>1 DEF ParentOf, GroupIsEmpty, Kinds, Running
<1> QED
  BY <1>1, <1>2 DEF Fork, GroupIsEmpty, Running, CmdType

LEMMA CmdIdleInv ==
  ASSUME NEW c \in {"none", "idle"}, NEW o \in [timeout : BOOLEAN, token : BOOLEAN], CmdIdle(c, o)
  PROVE  CmdInv
<1>1. CmdType
  BY DEF CmdIdle, CmdType
<1>2. GroupIsDead
  BY DEF CmdIdle, GroupIsDead, GroupIsEmpty, Running
<1> QED
  BY <1>1, <1>2 DEF CmdInv

LEMMA CmdStepInv == CmdInv /\ [CmdNext]_cmdVars => CmdInv'
<1> SUFFICES ASSUME CmdInv, [CmdNext]_cmdVars PROVE CmdInv'
  OBVIOUS
<1> USE DEF CmdInv, CmdType, GroupIsDead
<1>1. CASE Start
  BY <1>1 DEF Start, GroupIsEmpty, Running
<1>2. CASE ShellExits
  BY <1>2 DEF ShellExits, GroupIsEmpty, Running
<1>3. CASE SetToken
  BY <1>3 DEF SetToken, GroupIsEmpty, Running
<1>4. CASE WatchSees
  BY <1>4 DEF WatchSees, GroupIsEmpty, Running
<1>5. CASE TimerFires
  BY <1>5 DEF TimerFires, GroupIsEmpty, Running
<1>6. CASE Wake
  <2>1. CASE Communicated
    BY <1>6, <2>1 DEF Wake, GroupIsEmpty, Running
  <2>2. CASE ~Communicated
    <3>1. KillTree /\ call' = "killed" /\ stopped' = [timedOut |-> ~seen, cancelled |-> seen]
      BY <1>6, <2>2 DEF Wake
    <3> QED
      BY <1>6, <3>1, KillEmpties DEF Wake
  <2> QED
    BY <2>1, <2>2
<1>7. CASE Drained
  BY <1>7 DEF Drained, GroupIsEmpty, Running
<1>8. CASE TaskCancelled
  <2>1. CASE call = "waiting"
    BY <1>8, <2>1, KillEmpties DEF TaskCancelled
  <2>2. CASE call = "killed"
    BY <1>8, <2>2 DEF TaskCancelled, GroupIsEmpty, Running
  <2> QED
    BY <1>8, <2>1, <2>2 DEF TaskCancelled
<1>9. ASSUME NEW k \in Kids, Fork(k) PROVE CmdInv'
  <2>1. kids' \in [Kids -> [is : {"none", "running", "gone"}, group : BOOLEAN, pipe : BOOLEAN]]
    BY <1>9 DEF Fork, Kinds
  <2>2. GroupIsEmpty => GroupIsEmpty'
    BY <1>9, ForkKeepsEmpty
  <2> QED
    BY <1>9, <2>1, <2>2 DEF Fork
<1>10. ASSUME NEW k \in Kids, KidExits(k) PROVE CmdInv'
  BY <1>10 DEF KidExits, GroupIsEmpty, Running
<1>11. CASE UNCHANGED cmdVars
  BY <1>11 DEF cmdVars, GroupIsEmpty, Running
<1> QED
  BY <1>1, <1>2, <1>3, <1>4, <1>5, <1>6, <1>7, <1>8, <1>9, <1>10, <1>11 DEF CmdNext

\* A call runs one tool, so the others leave the command alone.
LEMMA CommandHolds == Spec => []CmdInv
<1>1. Init => CmdInv
  <2>1. CmdInit => CmdInv
    BY CmdIdleInv DEF CmdInit
  <2>2. NoCommand => CmdInv
    BY CmdIdleInv DEF NoCommand
  <2> QED
    BY <2>1, <2>2 DEF Init
<1>2. CmdInv /\ [Next]_vars => CmdInv'
  BY CmdStepInv DEF Next, vars
<1> QED
  BY <1>1, <1>2, PTL DEF Spec

\* "The entire process group is killed": no process of a stopped command's group runs when the
\* call is over, for any number of children, which may fork, exit and leave the group at any
\* time (_kill_process_tree and the three ends of the bash tool).
THEOREM StoppedIsDead == Spec => []NoSurvivors
<1>1. CmdInv => NoSurvivors
  BY DEF CmdInv, GroupIsDead, GroupIsEmpty, NoSurvivors
<1> QED
  BY <1>1, CommandHolds, PTL

------------------------------------------------------------------------------
(* Images *)

Images == [kind : ImageKinds, bytes : Nat, width : Nat, height : Nat]
Small(i) == i.width <= MaxDimension /\ i.height <= MaxDimension

ImageInv ==
  /\ source \in Images /\ image \in Images
  /\ read = "reading" => image = source
  /\ read = "encoding" => Small(image) /\ source.kind # "animated"
  /\ AttachmentFits

LEMMA LargerIs ==
  ASSUME NEW a \in Nat, NEW b \in Nat
  PROVE  Max({a, b}) \in {a, b} /\ Max({a, b}) >= a /\ Max({a, b}) >= b
<1>1. \E x \in {a, b} : \A y \in {a, b} : x >= y
  <2>1. CASE a >= b
    BY <2>1
  <2>2. CASE ~(a >= b)
    BY <2>2
  <2> QED
    BY <2>1, <2>2
<1> QED
  BY <1>1 DEF Max

\* One side scaled as the longer one is stays within the limit.
LEMMA ScaledIs ==
  ASSUME NEW n \in Nat, NEW side \in Nat, n <= side, side > MaxDimension
  PROVE  /\ Max({1, (n * MaxDimension) \div side}) \in Nat
         /\ Max({1, (n * MaxDimension) \div side}) <= MaxDimension
<1> DEFINE q == (n * MaxDimension) \div side
<1>1. MaxDimension \in Nat /\ MaxDimension >= 1 /\ side \in Nat \ {0}
  BY FileAssumption
<1>2. n * MaxDimension \in Nat
  BY <1>1
<1>3. q \in Nat /\ q * side <= n * MaxDimension
  BY <1>1, <1>2, SMTT(30)
<1>4. q <= MaxDimension
  <2> HIDE DEF q
  <2>1. SUFFICES ASSUME q >= MaxDimension + 1 PROVE FALSE
    BY <1>1, <1>3
  <2>2. q * side >= (MaxDimension + 1) * side
    BY <1>1, <1>3, <2>1, SMTT(30)
  <2>3. (MaxDimension + 1) * side = MaxDimension * side + side
    BY <1>1, SMTT(30)
  <2>4. n * MaxDimension <= side * MaxDimension
    BY <1>1, SMTT(30)
  <2>5. side * MaxDimension = MaxDimension * side
    BY <1>1
  <2> QED
    BY <1>1, <1>3, <2>2, <2>3, <2>4, <2>5, SMTT(30)
<1> HIDE DEF q
<1>5. 1 \in Nat /\ Max({1, q}) \in {1, q}
  BY <1>3, LargerIs
<1> USE DEF q
<1> QED
  BY <1>1, <1>3, <1>4, <1>5

LEMMA BoundedIs ==
  ASSUME NEW i \in Images
  PROVE  Bounded(i) \in Images /\ Small(Bounded(i))
<1> DEFINE side == Max({i.width, i.height})
           Scaled(n) == IF side <= MaxDimension THEN n ELSE Max({1, (n * MaxDimension) \div side})
<1>1. i.width \in Nat /\ i.height \in Nat /\ i.kind \in ImageKinds /\ i.bytes \in Nat
  BY DEF Images
<1>2. side \in Nat /\ i.width <= side /\ i.height <= side
  <2>1. side \in {i.width, i.height} /\ side >= i.width /\ side >= i.height
    BY <1>1, LargerIs
  <2> QED
    BY <1>1, <2>1
<1>3. MaxDimension \in Nat
  BY FileAssumption
<1> HIDE DEF side
<1>4. ASSUME NEW n \in Nat, n <= side PROVE Scaled(n) \in Nat /\ Scaled(n) <= MaxDimension
  <2>1. CASE side <= MaxDimension
    BY <1>2, <1>3, <1>4, <2>1
  <2>2. CASE ~(side <= MaxDimension)
    <3>1. side > MaxDimension
      BY <1>2, <1>3, <2>2
    <3> QED
      BY <1>2, <1>4, <2>2, <3>1, ScaledIs
  <2> QED
    BY <2>1, <2>2
<1>5. /\ Scaled(i.width) \in Nat /\ Scaled(i.width) <= MaxDimension
      /\ Scaled(i.height) \in Nat /\ Scaled(i.height) <= MaxDimension
  BY <1>1, <1>2, <1>4
<1>6. Bounded(i) = [i EXCEPT !.width = Scaled(i.width), !.height = Scaled(i.height)]
  BY DEF Bounded, side
<1> HIDE DEF Scaled
<1> QED
  BY <1>1, <1>5, <1>6 DEF Images, Small

LEMMA ShrunkIs ==
  ASSUME NEW n \in Nat, n <= MaxDimension
  PROVE  Shrunk(n) \in Nat /\ Shrunk(n) <= MaxDimension
<1>1. MaxDimension \in Nat /\ MaxDimension >= 1
  BY FileAssumption
<1>2. (n * 4) \div 5 \in Nat /\ (n * 4) \div 5 <= n
  OBVIOUS
<1> DEFINE q == (n * 4) \div 5
<1> HIDE DEF q
<1>3. q \in Nat /\ q <= n
  BY <1>2 DEF q
<1>4. Max({1, q}) \in {1, q}
  BY <1>3, LargerIs
<1>5. Max({1, q}) \in Nat /\ Max({1, q}) <= MaxDimension
  BY <1>1, <1>3, <1>4
<1> QED
  BY <1>5 DEF Shrunk, q

LEMMA ImageStepInv == ImageInv /\ [ImageNext]_imageVars => ImageInv'
<1> SUFFICES ASSUME ImageInv, [ImageNext]_imageVars PROVE ImageInv'
  OBVIOUS
<1>1. CASE UNCHANGED imageVars
  BY <1>1 DEF ImageInv, imageVars, AttachmentFits
<1>2. CASE ReadImage
  <2>1. /\ read = "reading" /\ source \in Images /\ image = source /\ UNCHANGED source
    BY <1>2 DEF ReadImage, ImageInv, Omit
  <2>2. CASE Refused
    BY <1>2, <2>1, <2>2 DEF ReadImage, ImageInv, Omit, AttachmentFits
  <2>3. CASE ~Refused /\ source.kind # "bmp" /\ ~TooBig(source)
    BY <1>2, <2>1, <2>3, FileAssumption DEF ReadImage, ImageInv, AttachmentFits, TooBig, Images
  <2>4. CASE ~Refused /\ ~(source.kind # "bmp" /\ ~TooBig(source))
    <3>1. read' = "encoding" /\ image' = Bounded(source) /\ source.kind # "animated"
      BY <1>2, <2>4 DEF ReadImage, Refused
    <3>2. image' \in Images /\ Small(image')
      BY <2>1, <3>1, BoundedIs
    <3> QED
      BY <2>1, <3>1, <3>2 DEF ImageInv, AttachmentFits, Small
  <2> QED
    BY <2>2, <2>3, <2>4
<1>3. CASE Encode
  <2>1. /\ read = "encoding" /\ UNCHANGED source /\ image \in Images /\ Small(image)
        /\ source.kind # "animated" /\ MaxImageBytes \in Nat
    BY <1>3, FileAssumption, SMTT(30) DEF Encode, ImageInv
  <2>2. PICK bytes \in 1 .. MaxImageBytes + 1 :
       LET smaller == [image EXCEPT !.width = Shrunk(@), !.height = Shrunk(@), !.bytes = bytes]
       IN IF bytes <= MaxImageBytes
            THEN /\ read' = "attached" /\ image' = [image EXCEPT !.kind = "static", !.bytes = bytes]
                 /\ UNCHANGED attempt
          ELSE IF smaller = [image EXCEPT !.bytes = bytes]
            THEN read' = "omitted" /\ UNCHANGED <<image, attempt>>
          ELSE image' = smaller /\ attempt' = attempt + 1 /\ UNCHANGED read
    BY <1>3 DEF Encode
  <2>3. bytes \in Nat
    BY <2>1
  <2>4. CASE bytes <= MaxImageBytes
    <3>1. read' = "attached" /\ image' = [image EXCEPT !.kind = "static", !.bytes = bytes]
      BY <2>2, <2>4
    <3> QED
      BY <2>1, <2>3, <2>4, <3>1 DEF ImageInv, AttachmentFits, Small, Images, ImageKinds
  <2>5. CASE read' = "omitted" /\ UNCHANGED image
    BY <2>1, <2>5 DEF ImageInv, AttachmentFits
  <2>6. CASE /\ read' = read
             /\ image' = [image EXCEPT !.width = Shrunk(@), !.height = Shrunk(@), !.bytes = bytes]
    <3>1. /\ image.width \in Nat /\ image.width <= MaxDimension
          /\ image.height \in Nat /\ image.height <= MaxDimension
      BY <2>1 DEF Images, Small
    <3>2. /\ Shrunk(image.width) \in Nat /\ Shrunk(image.width) <= MaxDimension
          /\ Shrunk(image.height) \in Nat /\ Shrunk(image.height) <= MaxDimension
      BY <3>1, ShrunkIs
    <3> QED
      BY <2>1, <2>3, <2>6, <3>2 DEF ImageInv, AttachmentFits, Small, Images
  <2> QED
    BY <2>2, <2>4, <2>5, <2>6
<1>4. CASE GiveUp
  BY <1>4 DEF GiveUp, Omit, ImageInv, AttachmentFits
<1>5. CASE SelectModel
  BY <1>5 DEF SelectModel, ImageInv, AttachmentFits
<1> QED
  BY <1>1, <1>2, <1>3, <1>4, <1>5 DEF ImageNext

LEMMA ImageInitInv == NoImage \/ ImageInit => ImageInv
<1>1. Sources \subseteq Images
  BY FileAssumption, SMTT(30) DEF Sources, Images
<1>2. ImageInit => ImageInv
  BY <1>1 DEF ImageInit, ImageInv, AttachmentFits
<1>3. NoImage => ImageInv
  BY DEF NoImage, ImageInv, AttachmentFits, Images, ImageKinds
<1> QED
  BY <1>2, <1>3
------------------------------------------------------------------------------
(* Reading *)

\* The lines up to the n-th, but for those that were only named.
Shown(S, n) == [i \in 1 .. n |-> IF i \in S THEN <<>> ELSE <<pages[i]>>]

PageInv ==
  /\ pages \in Seq(Nat) /\ next \in 0 .. Len(pages) + 1
  /\ skipped \in SUBSET Nat /\ (next # 0 => \A k \in skipped : k < next)
  /\ PagesCover

LEMMA SmallerIs ==
  ASSUME NEW a \in Nat, NEW b \in Nat
  PROVE  Min({a, b}) \in {a, b} /\ Min({a, b}) <= a /\ Min({a, b}) <= b
<1>1. \E x \in {a, b} : \A y \in {a, b} : x <= y
  <2>1. CASE a <= b
    BY <2>1
  <2>2. CASE ~(a <= b)
    BY <2>2
  <2> QED
    BY <2>1, <2>2
<1> QED
  BY <1>1 DEF Min

LEMMA ShownIs ==
  ASSUME pages \in Seq(Nat), NEW S, NEW n \in Nat, n < Len(pages)
  PROVE  /\ Shown(S, n) \in Seq(Seq(Nat))
         /\ Shown(S, n + 1) = Append(Shown(S, n), IF n + 1 \in S THEN <<>> ELSE <<pages[n + 1]>>)
<1>1. Len(pages) \in Nat /\ \A i \in 1 .. Len(pages) : pages[i] \in Nat
  OBVIOUS
<1>2. ASSUME NEW i \in 1 .. n + 1 PROVE (IF i \in S THEN <<>> ELSE <<pages[i]>>) \in Seq(Nat)
  <2>1. pages[i] \in Nat
    BY <1>1
  <2> QED
    BY <2>1
<1>3. Shown(S, n) \in Seq(Seq(Nat)) /\ Len(Shown(S, n)) = n
  <2>1. \A i \in 1 .. n : i \in 1 .. n + 1
    OBVIOUS
  <2>2. Shown(S, n) \in [1 .. n -> Seq(Nat)]
    BY <1>2, <2>1 DEF Shown
  <2> QED
    BY <2>2
<1>4. Shown(S, n + 1) \in [1 .. n + 1 -> Seq(Nat)]
  BY <1>2 DEF Shown
<1>5. /\ n + 1 \in 1 .. n + 1
      /\ Shown(S, n + 1)[n + 1] = IF n + 1 \in S THEN <<>> ELSE <<pages[n + 1]>>
      /\ \A i \in 1 .. n : Shown(S, n + 1)[i] = Shown(S, n)[i]
  BY DEF Shown
<1>6. (IF n + 1 \in S THEN <<>> ELSE <<pages[n + 1]>>) \in Seq(Nat)
  BY <1>2, <1>5
<1> DEFINE e == IF n + 1 \in S THEN <<>> ELSE <<pages[n + 1]>>
           f == Shown(S, n + 1)
           s == Shown(S, n)
<1> HIDE DEF e, f, s
<1>7. /\ s \in Seq(Seq(Nat)) /\ e \in Seq(Nat) /\ Len(s) = n /\ f \in [1 .. n + 1 -> Seq(Nat)]
      /\ f[n + 1] = e /\ \A i \in 1 .. n : f[i] = s[i]
  BY <1>3, <1>4, <1>5, <1>6 DEF e, f, s
<1>8. f = Append(s, e)
  BY <1>7, AppendIs, SMTT(30)
<1> QED
  BY <1>3, <1>8 DEF e, f, s

\* A line that is only named adds nothing, and lines that are returned follow the others.
LEMMA CoverSkips ==
  ASSUME pages \in Seq(Nat), NEW S, NEW n \in Nat, n < Len(pages), \A k \in S : k <= n
  PROVE  FlattenSeq(Shown(S \cup {n + 1}, n + 1)) = FlattenSeq(Shown(S, n))
<1> DEFINE R == S \cup {n + 1}
<1>1. Shown(R, n) = Shown(S, n)
  BY DEF Shown
<1>2. Shown(R, n + 1) = Append(Shown(R, n), <<>>) /\ Shown(R, n) \in Seq(Seq(Nat))
  BY ShownIs, ZenonT(60)
<1>3. <<>> \in Seq(Nat)
  OBVIOUS
<1>4. /\ FlattenSeq(Shown(R, n)) \in Seq(Nat)
      /\ FlattenSeq(Append(Shown(R, n), <<>>)) = FlattenSeq(Shown(R, n)) \o <<>>
  BY <1>2, <1>3, FlattenAppend
<1>5. FlattenSeq(Shown(R, n)) \o <<>> = FlattenSeq(Shown(R, n))
  BY <1>4, ConcatEmptySeq
<1> QED
  BY <1>1, <1>2, <1>4, <1>5

\* The lines returned up to the m-th are those up to the n-th and the ones between.
Follows(S, n, m) ==
  FlattenSeq(Shown(S, m)) = FlattenSeq(Shown(S, n)) \o SubSeq(pages, n + 1, m)

LEMMA CoverIs ==
  ASSUME pages \in Seq(Nat), NEW S, NEW n \in Nat, n <= Len(pages)
  PROVE  FlattenSeq(Shown(S, n)) \in Seq(Nat)
<1>1. ASSUME NEW i \in 1 .. n PROVE (IF i \in S THEN <<>> ELSE <<pages[i]>>) \in Seq(Nat)
  <2>1. pages[i] \in Nat
    OBVIOUS
  <2> QED
    BY <2>1
<1>2. Shown(S, n) \in [1 .. n -> Seq(Nat)]
  BY <1>1 DEF Shown
<1>3. Shown(S, n) \in Seq(Seq(Nat))
  BY <1>2
<1> QED
  BY <1>3, FlattenPlaces

LEMMA ConcatMore ==
  ASSUME NEW a \in Seq(Nat), NEW b \in Seq(Nat), NEW c \in Seq(Nat)
  PROVE  (a \o b) \o c = a \o (b \o c)
BY ConcatAssociative, SMTT(30)

LEMMA FollowsMore ==
  ASSUME pages \in Seq(Nat), NEW S, NEW n \in Nat, NEW k \in Nat, n <= k, k < Len(pages),
         k + 1 \notin S, Follows(S, n, k)
  PROVE  Follows(S, n, k + 1)
<1> DEFINE a == FlattenSeq(Shown(S, n))
           b == SubSeq(pages, n + 1, k)
           c == <<pages[k + 1]>>
           d == FlattenSeq(Shown(S, k + 1))
           e == FlattenSeq(Shown(S, k))
<1>1. Shown(S, k + 1) = Append(Shown(S, k), c) /\ Shown(S, k) \in Seq(Seq(Nat))
  BY ShownIs
<1>2. Len(pages) \in Nat /\ k + 1 \in 1 .. Len(pages)
  OBVIOUS
<1>3. c \in Seq(Nat)
  BY <1>2
<1>4. d = e \o c
  BY <1>1, <1>3, FlattenAppend
<1>5. b \in Seq(Nat) /\ SubSeq(pages, n + 1, k + 1) = b \o c
  BY <1>2, SMTT(30)
<1>6. a \in Seq(Nat)
  BY <1>2, CoverIs
<1>7. e = a \o b
  BY DEF Follows
<1> HIDE DEF a, b, c, d, e
<1>8. d = a \o (b \o c)
  BY <1>3, <1>4, <1>5, <1>6, <1>7, ConcatMore
<1> USE DEF a, d
<1> QED
  BY <1>5, <1>8 DEF Follows

LEMMA CoverExtends ==
  ASSUME pages \in Seq(Nat), NEW S, NEW n \in Nat, n <= Len(pages), \A k \in S : k \in Nat /\ k <= n,
         NEW m \in n .. Len(pages)
  PROVE  Follows(S, n, m)
<1> DEFINE T == {d \in Nat : n + d <= Len(pages) => Follows(S, n, n + d)}
<1>1. Len(pages) \in Nat
  OBVIOUS
<1>2. Follows(S, n, n)
  <2>1. SubSeq(pages, n + 1, n) = <<>>
    OBVIOUS
  <2>2. FlattenSeq(Shown(S, n)) \o <<>> = FlattenSeq(Shown(S, n))
    BY CoverIs, ConcatEmptySeq
  <2> QED
    BY <2>1, <2>2 DEF Follows
<1>3. 0 \in T
  BY <1>2
<1>4. ASSUME NEW d \in Nat, n + d <= Len(pages) => Follows(S, n, n + d), n + (d + 1) <= Len(pages)
      PROVE  Follows(S, n, n + (d + 1))
  <2> DEFINE k == n + d
  <2>1. k \in Nat /\ n <= k /\ k < Len(pages) /\ k + 1 = n + (d + 1) /\ k + 1 \notin S
    BY <1>1, <1>4
  <2>2. Follows(S, n, k)
    BY <1>4, <2>1
  <2> HIDE DEF k
  <2>3. Follows(S, n, k + 1)
    BY <2>1, <2>2, FollowsMore
  <2> QED
    BY <2>1, <2>3
<1>5. \A d \in Nat : d \in T => d + 1 \in T
  BY <1>4
<1>6. m - n \in Nat /\ n + (m - n) = m
  OBVIOUS
<1>7. m - n \in T
  <2> HIDE DEF T
  <2> QED
    BY <1>3, <1>5, <1>6, Induction
<1> QED
  BY <1>1, <1>6, <1>7

LEMMA HeadIs ==
  ASSUME NEW lines, Len(lines) \in Nat
  PROVE  HeadLines(lines) \in 0 .. Len(lines)
<1> DEFINE E == {n \in 0 .. Len(lines) : n = Len(lines) \/ ~Fits(lines, n + 1)}
<1>1. E \in SUBSET Nat /\ Len(lines) \in E
  OBVIOUS
<1>2. PICK n \in E : \A m \in E : n <= m
  BY <1>1, LeastNumber
<1>3. \A m \in 1 .. n : Fits(lines, m)
  <2> SUFFICES ASSUME NEW m \in 1 .. n, ~Fits(lines, m) PROVE FALSE
    OBVIOUS
  <2>1. m - 1 \in 0 .. Len(lines) /\ (m - 1) + 1 = m /\ m - 1 < n
    BY <1>2
  <2>2. m - 1 \in E
    BY <2>1
  <2> QED
    BY <1>2, <2>1, <2>2, SMTT(60)
<1>4. \E k \in 0 .. Len(lines) :
        (\A m \in 1 .. k : Fits(lines, m)) /\ (k = Len(lines) \/ ~Fits(lines, k + 1))
  BY <1>2, <1>3
<1> QED
  BY <1>4 DEF HeadLines

LEMMA CountedIs ==
  ASSUME NEW lines \in Seq(Nat)
  PROVE  Counted(lines) \in Seq(Nat) /\ Len(Counted(lines)) <= Len(lines)
<1>1. CASE Counted(lines) = lines
  BY <1>1
<1>2. CASE lines # <<>> /\ Counted(lines) = Front(lines)
  BY <1>2 DEF Front
<1> QED
  BY <1>1, <1>2 DEF Counted

LEMMA PageStepInv ==
  ASSUME PageInv, NEW limit \in Nat, Read(limit)
  PROVE  PageInv'
<1> DEFINE last == IF limit = 0 THEN Len(pages) ELSE Min({next + limit - 1, Len(pages)})
           selected == SubSeq(pages, next, last)
           shown == IF Whole(selected) THEN Len(selected) ELSE HeadLines(Counted(selected))
           long == ~Whole(selected) /\ Counted(selected)[1] > MaxBytes
           ends == Whole(selected) /\ last = Len(pages)
<1>1. /\ next \in 1 .. Len(pages) /\ pages \in Seq(Nat) /\ Len(pages) \in Nat
      /\ skipped \in SUBSET Nat /\ \A k \in skipped : k < next
      /\ got = FlattenSeq(Shown(skipped, next - 1))
  <2>1. next \in 1 .. Len(pages)
    BY DEF Read
  <2>2. pages \in Seq(Nat) /\ skipped \in SUBSET Nat /\ (next # 0 => \A k \in skipped : k < next)
    BY DEF PageInv
  <2>3. next # 0 /\ Len(pages) \in Nat
    BY <2>1, <2>2
  <2>4. PagesCover
    BY DEF PageInv
  <2>5. got = FlattenSeq(Shown(skipped, next - 1))
    BY <2>3, <2>4 DEF PagesCover, Shown
  <2> QED
    BY <2>1, <2>2, <2>3, <2>5
<1>2. /\ pages' = pages
      /\ IF long
          THEN /\ next' = next + 1 /\ skipped' = skipped \cup {next} /\ UNCHANGED got
          ELSE /\ got' = got \o SubSeq(selected, 1, shown)
               /\ next' = IF ends THEN 0 ELSE Hint(next, shown)
               /\ UNCHANGED skipped
  BY DEF Read
<1> DEFINE n == next - 1
<1>3. /\ n \in Nat /\ n < Len(pages) /\ next = n + 1 /\ \A k \in skipped : k \in Nat /\ k <= n
      /\ got = FlattenSeq(Shown(skipped, n))
  BY <1>1
<1>4. last \in next .. Len(pages)
  <2>1. CASE limit = 0
    BY <1>1, <2>1
  <2>2. CASE limit # 0
    <3> DEFINE a == next + limit - 1
    <3>1. a \in Nat /\ a >= next
      BY <1>1, <2>2
    <3> HIDE DEF a
    <3>2. Min({a, Len(pages)}) \in {a, Len(pages)} /\ Min({a, Len(pages)}) <= Len(pages)
      BY <1>1, <3>1, SmallerIs
    <3> QED
      BY <1>1, <2>2, <3>1, <3>2 DEF a
  <2> QED
    BY <2>1, <2>2
<1> HIDE DEF last
<1>5. selected \in Seq(Nat) /\ Len(selected) = last - n
  BY <1>1, <1>3, <1>4
<1>6. shown \in 0 .. last - n /\ (Whole(selected) => shown = last - n)
  <2> HIDE DEF selected
  <2>1. Counted(selected) \in Seq(Nat) /\ Len(Counted(selected)) <= Len(selected)
    BY <1>5, CountedIs
  <2>2. Len(Counted(selected)) \in Nat
    BY <2>1
  <2>3. HeadLines(Counted(selected)) \in 0 .. Len(Counted(selected))
    BY <2>2, HeadIs
  <2> QED
    BY <1>3, <1>4, <1>5, <2>1, <2>2, <2>3
<1> HIDE DEF shown, long, ends, n
<1>9. ASSUME NEW to \in Nat, next' # 0, next' - 1 = to, got' = FlattenSeq(Shown(skipped', to))
      PROVE  PagesCover'
  BY <1>2, <1>9 DEF PagesCover, Shown
<1>7. CASE long
  <2> DEFINE R == skipped \cup {next}
  <2>1. FlattenSeq(Shown(R, next)) = FlattenSeq(Shown(skipped, n))
    BY <1>1, <1>3, CoverSkips
  <2>4. next' = next + 1 /\ skipped' = R /\ pages' = pages /\ got' = got
    BY <1>2, <1>7
  <2> HIDE DEF R
  <2>2. next \in Nat /\ next' # 0 /\ next' - 1 = next
    BY <1>1, <2>4
  <2>3. PagesCover'
    BY <1>3, <1>9, <2>1, <2>2, <2>4
  <2> USE DEF R
  <2>5. next' \in 0 .. Len(pages) + 1 /\ R \in SUBSET Nat /\ \A k \in R : k < next + 1
    BY <1>1, <2>4
  <2> HIDE DEF R
  <2> QED
    BY <1>1, <2>3, <2>4, <2>5 DEF PageInv
<1>8. CASE ~long
  <2> DEFINE m == n + shown
  <2>1. m \in n .. Len(pages)
    BY <1>1, <1>3, <1>4, <1>6
  <2>2. SubSeq(selected, 1, shown) = SubSeq(pages, n + 1, m)
    BY <1>1, <1>3, <1>4, <1>6
  <2> HIDE DEF m
  <2>3. Follows(skipped, n, m)
    <3>1. n <= Len(pages)
      BY <1>1, <1>3
    <3> QED
      BY <1>1, <1>3, <2>1, <3>1, CoverExtends
  <2>4. got' = FlattenSeq(Shown(skipped, m))
    BY <1>2, <1>3, <1>8, <2>2, <2>3 DEF Follows
  <2>5. CASE ends
    <3>1. m = Len(pages) /\ next' = 0
      BY <1>1, <1>2, <1>3, <1>4, <1>6, <1>8, <2>5 DEF ends, m
    <3>2. PagesCover'
      BY <1>2, <1>8, <2>4, <3>1 DEF PagesCover, Shown
    <3>3. skipped' = skipped /\ pages' = pages /\ 0 \in 0 .. Len(pages) + 1
      BY <1>1, <1>2, <1>8
    <3> QED
      BY <1>1, <3>1, <3>2, <3>3 DEF PageInv
  <2>6. CASE ~ends
    <3>1. m \in Nat /\ m <= Len(pages) /\ n <= m
      BY <1>1, <1>3, <2>1
    <3>2. next' = m + 1
      BY <1>2, <1>3, <1>6, <1>8, <2>6 DEF Hint, m
    <3>3. skipped' = skipped /\ pages' = pages
      BY <1>2, <1>8
    <3>4. PagesCover'
      BY <2>4, <3>1, <3>2, <3>3, <1>9
    <3>5. \A k \in skipped : k < m + 1
      BY <1>3, <3>1
    <3>6. next' \in 0 .. Len(pages) + 1
      BY <1>1, <3>1, <3>2
    <3> QED
      BY <1>1, <3>2, <3>3, <3>4, <3>5, <3>6 DEF PageInv
  <2> QED
    BY <2>5, <2>6
<1> QED
  BY <1>7, <1>8

LEMMA PageInitInv ==
  ASSUME NEW texts, NEW files \in SUBSET Seq(Nat), FilesInit(texts, files)
  PROVE  PageInv
<1>1. pages \in Seq(Nat) /\ next = 1 /\ got = <<>> /\ skipped = {}
  BY DEF FilesInit
<1>2. Shown({}, 0) = <<>>
  BY DEF Shown
<1>3. FlattenSeq(<<>>) = <<>>
  BY DEF FlattenSeq
<1> QED
  BY <1>1, <1>2, <1>3 DEF PageInv, PagesCover, Shown
------------------------------------------------------------------------------
(* The end of an output *)

\* The sums of the first lines.
Sums(f, lines) ==
  /\ f \in [0 .. Len(lines) -> Nat] /\ f[0] = 0
  /\ \A k \in 1 .. Len(lines) : f[k] = f[k - 1] + lines[k]
  /\ Bytes(lines) = f[Len(lines)] + (IF Len(lines) = 0 THEN 0 ELSE Len(lines) - 1)

LEMMA SumIs ==
  ASSUME NEW lines \in Seq(Nat)
  PROVE  \E f : Sums(f, lines)
<1> DEFINE n == Len(lines)
           adds == [x \in (1 .. n) \X Nat |-> x[2] + lines[x[1]]]
           Is(g) == g = [k \in 0 .. n |-> IF k = 0 THEN 0 ELSE g[k - 1] + lines[k]]
           sum == CHOOSE g : Is(g)
<1>1. n \in Nat /\ \A k \in 1 .. n : lines[k] \in Nat
  OBVIOUS
<1>2. adds \in [(1 .. n) \X Nat -> Nat]
  <2>1. ASSUME NEW x \in (1 .. n) \X Nat PROVE x[2] + lines[x[1]] \in Nat
    BY <1>1
  <2> QED
    BY <2>1
<1>3. PICK g : IteratesTo(g, n, Nat, 0, adds)
  <2> HIDE DEF n, adds
  <2> QED
    BY <1>1, <1>2, FiniteRecursion
<1>4. /\ g \in [0 .. n -> Nat] /\ g[0] = 0
      /\ \A k \in 1 .. n : g[k] = adds[<<k, g[k - 1]>>]
  <2> HIDE DEF n, adds
  <2>1. g \in [0 .. n -> Nat] /\ g = [i \in 0 .. n |-> IF i = 0 THEN 0 ELSE adds[<<i, g[i - 1]>>]]
    BY <1>3 DEF IteratesTo
  <2>2. 0 \in 0 .. n /\ \A k \in 1 .. n : k \in 0 .. n /\ k # 0
    BY <1>1
  <2> QED
    BY <2>1, <2>2
<1>5. ASSUME NEW k \in 1 .. n PROVE g[k] = g[k - 1] + lines[k]
  <2>1. k - 1 \in 0 .. n - 1 /\ (k - 1) + 1 = k /\ k - 1 \in 0 .. n
    BY <1>1
  <2>2. g[k - 1] \in Nat /\ <<k, g[k - 1]>> \in (1 .. n) \X Nat
    BY <1>4, <2>1
  <2>3. g[k] = adds[<<k, g[k - 1]>>]
    BY <1>4
  <2> QED
    BY <2>2, <2>3
<1>6. Is(g)
  <2> HIDE DEF n
  <2> QED
    BY <1>1, <1>4, <1>5
<1>7. Is(sum)
  BY <1>6
<1> HIDE DEF sum
<1>8. sum[0] = 0 /\ \A k \in 1 .. n : sum[k] = sum[k - 1] + lines[k]
  <2> HIDE DEF n
  <2> QED
    BY <1>1, <1>7
<1> DEFINE T == {k \in Nat : k <= n => sum[k] = g[k]}
<1>9. 0 \in T
  BY <1>4, <1>8
<1>10. ASSUME NEW k \in Nat, k \in T PROVE k + 1 \in T
  <2> SUFFICES ASSUME k + 1 <= n PROVE sum[k + 1] = g[k + 1]
    OBVIOUS
  <2>1. k + 1 \in 1 .. n /\ (k + 1) - 1 = k /\ sum[k] = g[k]
    BY <1>1, <1>10
  <2> QED
    BY <1>5, <1>8, <2>1
<1>11. n \in T
  <2> HIDE DEF T
  <2> QED
    BY <1>1, <1>9, <1>10, Induction
<1>12. Max({0, n - 1}) = IF n = 0 THEN 0 ELSE n - 1
  <2>1. CASE n = 0
    <3>1. {0, n - 1} = {0, -1}
      BY <2>1
    <3>2. Max({0, -1}) = 0
      BY DEF Max
    <3> QED
      BY <2>1, <3>1, <3>2
  <2>2. CASE n # 0
    <3> DEFINE m == n - 1
    <3>1. 0 \in Nat /\ m \in Nat
      BY <1>1, <2>2
    <3> HIDE DEF m
    <3>2. Max({0, m}) \in {0, m} /\ Max({0, m}) >= m
      BY <3>1, LargerIs
    <3>3. Max({0, m}) = m
      BY <3>1, <3>2
    <3> QED
      BY <2>2, <3>3 DEF m
  <2> QED
    BY <2>1, <2>2
<1>13. Bytes(lines) = sum[n] + Max({0, n - 1})
  BY DEF Bytes, sum
<1>14. Bytes(lines) = g[n] + (IF n = 0 THEN 0 ELSE n - 1)
  BY <1>1, <1>11, <1>12, <1>13
<1> QED
  BY <1>4, <1>5, <1>14 DEF Sums

LEMMA SumCons ==
  ASSUME NEW s \in Seq(Nat), NEW t \in Seq(Nat), Len(t) = Len(s) + 1,
         \A j \in 1 .. Len(s) : t[j + 1] = s[j]
  PROVE  /\ Bytes(s) \in Nat
         /\ Bytes(t) = t[1] + Bytes(s) + (IF Len(s) = 0 THEN 0 ELSE 1)
<1> DEFINE n == Len(s)
<1>1. n \in Nat /\ Len(t) = n + 1 /\ t[1] \in Nat
  OBVIOUS
<1>2. PICK f : Sums(f, s)
  BY SumIs
<1>3. PICK h : Sums(h, t)
  BY SumIs
<1>4. /\ f \in [0 .. n -> Nat] /\ f[0] = 0
      /\ \A k \in 1 .. n : f[k] = f[k - 1] + s[k]
      /\ Bytes(s) = f[n] + (IF n = 0 THEN 0 ELSE n - 1)
  BY <1>2 DEF Sums
<1>5. /\ h \in [0 .. n + 1 -> Nat] /\ h[0] = 0
      /\ \A k \in 1 .. n + 1 : h[k] = h[k - 1] + t[k]
      /\ Bytes(t) = h[n + 1] + n
  <2>1. n + 1 # 0 /\ (n + 1) - 1 = n
    BY <1>1
  <2> QED
    BY <1>1, <1>3, <2>1 DEF Sums
<1>12. \A j \in 1 .. n : s[j] \in Nat /\ t[j + 1] = s[j]
  BY SMTT(30)
<1> HIDE DEF n
<1> DEFINE T == {k \in Nat : k <= n => h[k + 1] = t[1] + f[k]}
<1>6. 0 \in T
  <2>1. 1 \in 1 .. n + 1 /\ 1 - 1 = 0
    BY <1>1
  <2>2. h[1] = h[0] + t[1]
    BY <1>5, <2>1
  <2> QED
    BY <1>1, <1>4, <1>5, <2>2
<1>7. ASSUME NEW k \in Nat, k \in T PROVE k + 1 \in T
  <2> SUFFICES ASSUME k + 1 <= n PROVE h[(k + 1) + 1] = t[1] + f[k + 1]
    OBVIOUS
  <2>1. /\ k + 1 \in 1 .. n /\ (k + 1) - 1 = k /\ k <= n /\ k \in 0 .. n
        /\ (k + 1) + 1 \in 1 .. n + 1 /\ ((k + 1) + 1) - 1 = k + 1
    BY <1>1
  <2>2. h[k + 1] = t[1] + f[k] /\ f[k] \in Nat /\ s[k + 1] \in Nat
    BY <1>4, <1>7, <1>12, <2>1
  <2>3. f[k + 1] = f[k] + s[k + 1]
    BY <1>4, <2>1
  <2>4. h[(k + 1) + 1] = h[k + 1] + t[(k + 1) + 1] /\ t[(k + 1) + 1] = s[k + 1]
    BY <1>5, <1>12, <2>1
  <2> QED
    BY <1>1, <2>2, <2>3, <2>4, SMTT(30)
<1>8. n \in T
  <2> HIDE DEF T
  <2> QED
    BY <1>1, <1>6, <1>7, Induction
<1>9. h[n + 1] = t[1] + f[n] /\ f[n] \in Nat
  BY <1>1, <1>4, <1>8
<1> DEFINE a == f[n]
           b == h[n + 1]
           c == t[1]
<1>13. a \in Nat /\ b = c + a /\ c \in Nat /\ Bytes(s) = a + (IF n = 0 THEN 0 ELSE n - 1) /\ Bytes(t) = b + n
  BY <1>1, <1>4, <1>5, <1>9
<1> HIDE DEF a, b, c
<1>10. Bytes(s) \in Nat
  <2>1. CASE n = 0
    BY <1>13, <2>1
  <2>2. CASE n # 0
    BY <1>1, <1>13, <2>2
  <2> QED
    BY <2>1, <2>2
<1>14. Bytes(t) = c + Bytes(s) + (IF n = 0 THEN 0 ELSE 1)
  <2>1. CASE n = 0
    BY <1>13, <2>1
  <2>2. CASE n # 0
    <3>1. Bytes(s) = a + (n - 1) /\ Bytes(t) = (c + a) + n
      BY <1>13, <2>2
    <3>2. c + (a + (n - 1)) + 1 = (c + a) + n
      BY <1>1, <1>13
    <3> QED
      BY <2>2, <3>1, <3>2
  <2> QED
    BY <2>1, <2>2
<1>11. Bytes(t) = t[1] + Bytes(s) + (IF n = 0 THEN 0 ELSE 1)
  BY <1>14 DEF c
<1> QED
  BY <1>10, <1>11 DEF n

\* The bytes of the lines from the k-th on.
PartOf(all, k) == Bytes(SubSeq(all, k, Len(all)))

LEMMA PartIs ==
  ASSUME NEW all \in Seq(Nat)
  PROVE  /\ PartOf(all, Len(all) + 1) = 0
         /\ \A k \in 1 .. Len(all) :
              /\ PartOf(all, k + 1) \in Nat /\ all[k] \in Nat
              /\ PartOf(all, k) = all[k] + PartOf(all, k + 1) + (IF k = Len(all) THEN 0 ELSE 1)
<1>1. Len(all) \in Nat /\ \A k \in 1 .. Len(all) : all[k] \in Nat
  OBVIOUS
<1>2. PartOf(all, Len(all) + 1) = 0
  <2>1. SubSeq(all, Len(all) + 1, Len(all)) = <<>>
    BY <1>1
  <2>2. <<>> \in Seq(Nat) /\ Len(<<>>) = 0
    OBVIOUS
  <2>3. PICK f : Sums(f, <<>>)
    BY <2>2, SumIs
  <2>4. Bytes(<<>>) = 0
    BY <2>2, <2>3 DEF Sums
  <2> QED
    BY <2>1, <2>4 DEF PartOf
<1>3. ASSUME NEW k \in 1 .. Len(all)
      PROVE  /\ PartOf(all, k + 1) \in Nat
             /\ PartOf(all, k) = all[k] + PartOf(all, k + 1) + (IF k = Len(all) THEN 0 ELSE 1)
  <2> DEFINE s == SubSeq(all, k + 1, Len(all))
             t == SubSeq(all, k, Len(all))
  <2>1. s \in Seq(Nat) /\ t \in Seq(Nat) /\ Len(s) = Len(all) - k /\ Len(t) = Len(all) - k + 1
    BY <1>1
  <2>2. t[1] = all[k] /\ \A j \in 1 .. Len(s) : t[j + 1] = s[j]
    BY <1>1, <2>1
  <2>3. Len(t) = Len(s) + 1 /\ (Len(s) = 0 <=> k = Len(all))
    BY <1>1, <2>1
  <2> HIDE DEF s, t
  <2>4. Bytes(s) \in Nat /\ Bytes(t) = t[1] + Bytes(s) + (IF Len(s) = 0 THEN 0 ELSE 1)
    BY <2>1, <2>2, <2>3, SumCons
  <2> QED
    BY <2>2, <2>3, <2>4 DEF PartOf, s, t
<1> QED
  BY <1>1, <1>2, <1>3

TailType == [shown : Nat, bytes : Nat, partial : BOOLEAN, full : BOOLEAN]

LEMMA LeastOfOne ==
  ASSUME NEW n \in Nat
  PROVE  Min({n, 1}) = IF n = 0 THEN 0 ELSE 1
<1>1. Min({n, 1}) \in {n, 1} /\ Min({n, 1}) <= n /\ Min({n, 1}) <= 1
  BY SmallerIs
<1> QED
  BY <1>1

LEMMA ClippedIs ==
  ASSUME NEW n \in Nat
  PROVE  Clipped(n) \in Nat
<1>1. MaxBytes \in Nat
  BY FileAssumption
<1>2. Min({n, MaxBytes}) \in {n, MaxBytes}
  BY <1>1, SmallerIs
<1> QED
  BY <1>1, <1>2 DEF Clipped

LEMMA TakeLineIs ==
  ASSUME NEW n \in Nat, NEW t \in TailType
  PROVE  LET more == n + (IF t.shown = 0 THEN 0 ELSE 1)
             taken == TakeLine(n, t)
         IN  /\ taken \in TailType
             /\ t.full => taken = t
             /\ ~t.full =>
                  IF t.shown < MaxLines /\ t.bytes + more <= MaxBytes
                    THEN /\ taken.shown = t.shown + 1 /\ taken.bytes = t.bytes + more
                         /\ taken.partial = t.partial /\ ~taken.full
                  ELSE /\ taken.full
                       /\ IF t.shown = 0 THEN taken.shown = 1 /\ taken.partial
                          ELSE /\ taken.shown = t.shown /\ taken.bytes = t.bytes
                               /\ taken.partial = t.partial
<1> DEFINE more == n + (IF t.shown = 0 THEN 0 ELSE 1)
           taken == TakeLine(n, t)
<1>1. t.shown \in Nat /\ t.bytes \in Nat /\ t.partial \in BOOLEAN /\ t.full \in BOOLEAN
  BY DEF TailType
<1>2. n + Min({t.shown, 1}) = more /\ more \in Nat
  BY <1>1, LeastOfOne
<1>3. taken = IF t.full THEN t
              ELSE IF t.shown < MaxLines /\ t.bytes + more <= MaxBytes
                THEN [t EXCEPT !.shown = @ + 1, !.bytes = @ + more]
              ELSE IF t.shown = 0
                THEN [shown |-> 1, bytes |-> Clipped(n), partial |-> TRUE, full |-> TRUE]
              ELSE [t EXCEPT !.full = TRUE]
  BY <1>2 DEF TakeLine
<1>4. Clipped(n) \in Nat
  BY ClippedIs
<1> HIDE DEF more, taken
<1>5. CASE t.full
  BY <1>3, <1>5 DEF more, taken
<1>6. CASE ~t.full /\ t.shown < MaxLines /\ t.bytes + more <= MaxBytes
  <2>1. taken = [t EXCEPT !.shown = @ + 1, !.bytes = @ + more]
    BY <1>3, <1>6
  <2>2. /\ taken \in TailType /\ taken.shown = t.shown + 1 /\ taken.bytes = t.bytes + more
        /\ taken.partial = t.partial /\ ~taken.full
    <3>1. t.shown + 1 \in Nat /\ t.bytes + more \in Nat
      BY <1>1, <1>2
    <3>2. taken \in TailType
      BY <2>1, <3>1 DEF TailType
    <3>3. taken.shown = t.shown + 1 /\ taken.bytes = t.bytes + more
      BY <2>1 DEF TailType
    <3>4. taken.partial = t.partial /\ taken.full = t.full
      BY <2>1 DEF TailType
    <3> QED
      BY <1>6, <3>2, <3>3, <3>4
  <2> QED
    BY <1>6, <2>2 DEF more, taken
<1>7. CASE ~t.full /\ ~(t.shown < MaxLines /\ t.bytes + more <= MaxBytes)
  <2>1. CASE t.shown = 0
    <3>1. taken = [shown |-> 1, bytes |-> Clipped(n), partial |-> TRUE, full |-> TRUE]
      BY <1>3, <1>7, <2>1
    <3>2. taken \in TailType /\ taken.shown = 1 /\ taken.partial /\ taken.full
      BY <1>4, <3>1 DEF TailType
    <3> QED
      BY <1>7, <2>1, <3>2 DEF more, taken
  <2>2. CASE t.shown # 0
    <3>1. taken = [t EXCEPT !.full = TRUE]
      BY <1>3, <1>7, <2>2
    <3>2. /\ taken \in TailType /\ taken.shown = t.shown /\ taken.bytes = t.bytes
          /\ taken.partial = t.partial /\ taken.full
      BY <1>1, <3>1 DEF TailType
    <3> QED
      BY <1>7, <2>2, <3>2 DEF more, taken
  <2> QED
    BY <2>1, <2>2
<1> QED
  BY <1>5, <1>6, <1>7

\* What has been taken when the last n lines were looked at.
Fitting(all, k) == Len(all) - k < MaxLines /\ PartOf(all, k) <= MaxBytes
TailAt(all, n, t) ==
  /\ t \in TailType /\ t.shown <= n
  /\ IF t.partial THEN t.full /\ t.shown = 1 /\ all[Len(all)] > MaxBytes
     ELSE /\ t.bytes = PartOf(all, Len(all) + 1 - t.shown)
          /\ t.shown # 0 => Fitting(all, Len(all) + 1 - t.shown)
          /\ IF t.full THEN t.shown # 0 /\ t.shown < Len(all) /\ ~Fitting(all, Len(all) - t.shown)
             ELSE t.shown = n

LEMMA TailAtStep ==
  ASSUME NEW all \in Seq(Nat), NEW n \in Nat, n < Len(all), NEW t, TailAt(all, n, t)
  PROVE  TailAt(all, n + 1, TakeLine(all[Len(all) - n], t))
<1> DEFINE L == Len(all)
           x == all[L - n]
           u == TakeLine(x, t)
           more == x + (IF t.shown = 0 THEN 0 ELSE 1)
<1>1. L \in Nat /\ n < L /\ L - n \in 1 .. L /\ x \in Nat /\ MaxBytes \in Nat /\ MaxLines \in Nat \ {0}
  BY FileAssumption, SMTT(30)
<1>2. /\ t \in TailType /\ t.shown <= n /\ t.shown \in Nat /\ t.bytes \in Nat
      /\ t.partial \in BOOLEAN /\ t.full \in BOOLEAN
  BY DEF TailAt, TailType
<1>3. /\ u \in TailType
      /\ t.full => u = t
      /\ ~t.full =>
           IF t.shown < MaxLines /\ t.bytes + more <= MaxBytes
             THEN /\ u.shown = t.shown + 1 /\ u.bytes = t.bytes + more
                  /\ u.partial = t.partial /\ ~u.full
           ELSE /\ u.full
                /\ IF t.shown = 0 THEN u.shown = 1 /\ u.partial
                   ELSE u.shown = t.shown /\ u.bytes = t.bytes /\ u.partial = t.partial
  <2> HIDE DEF x
  <2>1. x \in Nat
    BY <1>1
  <2> QED
    BY <1>2, <2>1, TakeLineIs
<1>4. CASE t.full
  <2>1. u = t /\ t.shown <= n + 1
    BY <1>2, <1>3, <1>4
  <2> HIDE DEF u
  <2> QED
    BY <1>4, <2>1 DEF TailAt, u
<1>5. CASE ~t.full
  <2>1. ~t.partial /\ t.shown = n /\ t.bytes = PartOf(all, L + 1 - n)
    BY <1>5 DEF TailAt
  <2>2. /\ (L - n) + 1 = L + 1 - n /\ L + 1 - (n + 1) = L - n /\ L - (L - n) = n
        /\ (L - n = L <=> n = 0)
    BY <1>1
  <2>3. PartOf(all, L - n) = more + t.bytes /\ more \in Nat
    <3>1. PartOf(all, L - n) = all[L - n] + PartOf(all, (L - n) + 1) + (IF L - n = L THEN 0 ELSE 1)
      BY <1>1, PartIs
    <3>2. PartOf(all, (L - n) + 1) = t.bytes
      BY <2>1, <2>2
    <3> QED
      BY <1>1, <1>2, <2>1, <2>2, <3>1, <3>2, SMTT(30)
  <2> HIDE DEF u, x, more
  <2>4. Fitting(all, L - n) <=> n < MaxLines /\ t.bytes + more <= MaxBytes
    BY <1>2, <2>2, <2>3 DEF Fitting
  <2>5. CASE n < MaxLines /\ t.bytes + more <= MaxBytes
    <3>1. /\ u.shown = n + 1 /\ u.bytes = PartOf(all, L - n) /\ ~u.full
          /\ u.partial = FALSE /\ Fitting(all, L - n)
      BY <1>2, <1>3, <1>5, <2>1, <2>3, <2>4, <2>5
    <3> QED
      BY <1>1, <1>3, <2>2, <3>1 DEF TailAt, u, x
  <2>6. CASE ~(n < MaxLines /\ t.bytes + more <= MaxBytes)
    <3>1. u.full
      BY <1>3, <1>5, <2>1, <2>6
    <3>2. CASE n = 0
      <4>1. u.shown = 1 /\ u.partial
        BY <1>3, <1>5, <2>1, <2>6, <3>2
      <4>2. t.bytes = 0 /\ more = x /\ x = all[L]
        <5>1. L + 1 - 0 = L + 1 /\ L - 0 = L
          BY <1>1
        <5> QED
          BY <1>1, <2>1, <3>2, <5>1, PartIs DEF more, x
      <4>3. ~(x <= MaxBytes)
        BY <1>1, <2>6, <3>2, <4>2
      <4>4. all[L] > MaxBytes
        BY <1>1, <4>2, <4>3
      <4> QED
        BY <1>3, <3>1, <3>2, <4>1, <4>4 DEF TailAt, u, x
    <3>3. CASE n # 0
      <4>1. u.shown = n /\ u.bytes = t.bytes /\ u.partial = FALSE
        BY <1>2, <1>3, <1>5, <2>1, <2>6, <3>3
      <4>2. ~Fitting(all, L - n)
        BY <2>4, <2>6
      <4>3. Fitting(all, L + 1 - n)
        BY <1>5, <2>1, <3>3 DEF TailAt
      <4> QED
        BY <1>1, <1>3, <2>1, <3>1, <3>3, <4>1, <4>2, <4>3, SMTT(30) DEF TailAt, u, x
    <3> QED
      BY <3>2, <3>3
  <2> QED
    BY <2>5, <2>6
<1> QED
  BY <1>4, <1>5

LEMMA EmptyIsWhole ==
  ASSUME NEW lines \in Seq(Nat), Counted(lines) = <<>>
  PROVE  Whole(lines)
<1>1. MaxBytes \in Nat /\ MaxLines \in Nat
  BY FileAssumption
<1>2. Len(lines) \in {0, 1} /\ (Len(lines) = 1 => lines[1] = 0)
  <2>1. CASE lines = <<>>
    BY <2>1
  <2>2. CASE lines # <<>>
    <3>1. Last(lines) = 0 /\ Front(lines) = <<>>
      BY <2>2 DEF Counted
    <3>2. Len(lines) \in Nat \ {0} /\ Len(Front(lines)) = Len(lines) - 1
      BY <2>2, SMTT(30) DEF Front
    <3>3. Len(Front(lines)) = 0
      BY <3>1
    <3>4. Len(lines) = 1
      BY <3>2, <3>3
    <3> QED
      BY <3>1, <3>4 DEF Last
  <2> QED
    BY <2>1, <2>2
<1>3. PICK f : Sums(f, lines)
  BY SumIs
<1>4. Bytes(lines) = 0
  <2>1. CASE Len(lines) = 0
    BY <1>3, <2>1 DEF Sums
  <2>2. CASE Len(lines) = 1
    <3>1. f[1] = f[0] + lines[1]
      <4>1. 1 \in 1 .. Len(lines) /\ 1 - 1 = 0
        BY <2>2
      <4> QED
        BY <1>3, <4>1 DEF Sums
    <3> QED
      BY <1>2, <1>3, <2>2, <3>1 DEF Sums
  <2> QED
    BY <1>2, <2>1, <2>2
<1>5. Len(Counted(lines)) = 0
  OBVIOUS
<1> QED
  BY <1>1, <1>4, <1>5 DEF Whole

\* What truncate_tail keeps of an output that is not whole.
LEMMA TailTaken ==
  ASSUME NEW lines \in Seq(Nat), ~Whole(lines)
  PROVE  TailAt(Counted(lines), Len(Counted(lines)), OutputTail(lines))
<1> DEFINE all == Counted(lines)
           n == Len(all)
           takes == [x \in (1 .. n) \X TailType |-> TakeLine(all[n + 1 - x[1]], x[2])]
           Is(g) == g = [k \in 0 .. n |-> IF k = 0 THEN Nothing
                                          ELSE TakeLine(all[n + 1 - k], g[k - 1])]
           taken == CHOOSE g : Is(g)
<1>1. all \in Seq(Nat)
  BY CountedIs
<1>2. OutputTail(lines) = taken[n]
  BY DEF OutputTail
<1> HIDE DEF all
<1>3. n \in Nat /\ \A k \in 1 .. n : n + 1 - k \in 1 .. n /\ all[n + 1 - k] \in Nat
  BY <1>1
<1>4. Nothing \in TailType
  BY DEF Nothing, TailType
<1>5. takes \in [(1 .. n) \X TailType -> TailType]
  <2>1. ASSUME NEW x \in (1 .. n) \X TailType PROVE TakeLine(all[n + 1 - x[1]], x[2]) \in TailType
    <3>1. x[1] \in 1 .. n /\ x[2] \in TailType
      OBVIOUS
    <3>2. all[n + 1 - x[1]] \in Nat
      BY <1>3, <3>1
    <3> QED
      BY <3>1, <3>2, TakeLineIs
  <2> QED
    BY <2>1
<1>6. PICK g : IteratesTo(g, n, TailType, Nothing, takes)
  <2> HIDE DEF n, takes
  <2> QED
    BY <1>3, <1>4, <1>5, FiniteRecursion
<1>7. /\ g \in [0 .. n -> TailType]
      /\ g = [k \in 0 .. n |-> IF k = 0 THEN Nothing ELSE takes[<<k, g[k - 1]>>]]
  <2> HIDE DEF n, takes
  <2> QED
    BY <1>6 DEF IteratesTo
<1>8. \A k \in 1 .. n : k \in 0 .. n /\ k # 0 /\ k - 1 \in 0 .. n
  BY <1>3
<1> HIDE DEF n
<1>9. ASSUME NEW k \in 1 .. n PROVE takes[<<k, g[k - 1]>>] = TakeLine(all[n + 1 - k], g[k - 1])
  <2>1. g[k - 1] \in TailType
    BY <1>7, <1>8
  <2>2. <<k, g[k - 1]>> \in (1 .. n) \X TailType
    BY <2>1
  <2> QED
    BY <2>2
<1> HIDE DEF takes
<1>10. Is(g)
  <2>1. ASSUME NEW k \in 0 .. n
        PROVE  (IF k = 0 THEN Nothing ELSE takes[<<k, g[k - 1]>>])
                 = (IF k = 0 THEN Nothing ELSE TakeLine(all[n + 1 - k], g[k - 1]))
    <3>1. k # 0 => k \in 1 .. n
      BY <1>3
    <3> QED
      BY <1>9, <3>1
  <2>2. [k \in 0 .. n |-> IF k = 0 THEN Nothing ELSE takes[<<k, g[k - 1]>>]]
          = [k \in 0 .. n |-> IF k = 0 THEN Nothing ELSE TakeLine(all[n + 1 - k], g[k - 1])]
    BY <2>1
  <2> QED
    BY <1>7, <2>2
<1>11. Is(taken)
  BY <1>10
<1> HIDE DEF taken
<1>12. taken[0] = Nothing /\ \A k \in 1 .. n : taken[k] = TakeLine(all[n + 1 - k], taken[k - 1])
  <2>1. 0 \in 0 .. n
    BY <1>3
  <2> QED
    BY <1>8, <1>11, <2>1
<1> DEFINE T == {k \in Nat : k <= n => TailAt(all, k, taken[k])}
<1>13. 0 \in T
  <2>1. PartOf(all, n + 1 - 0) = 0
    <3>1. n + 1 - 0 = n + 1
      BY <1>3
    <3> QED
      BY <1>1, <3>1, PartIs DEF n
  <2>2. /\ Nothing.shown = 0 /\ Nothing.bytes = 0 /\ Nothing.partial = FALSE /\ Nothing.full = FALSE
    BY DEF Nothing
  <2>3. TailAt(all, 0, Nothing)
    BY <1>4, <2>1, <2>2 DEF TailAt, n
  <2> QED
    BY <1>12, <2>3
<1>14. ASSUME NEW k \in Nat, k <= n => TailAt(all, k, taken[k]), k + 1 <= n
       PROVE  TailAt(all, k + 1, taken[k + 1])
  <2>1. /\ k < n /\ TailAt(all, k, taken[k]) /\ k + 1 \in 1 .. n /\ (k + 1) - 1 = k
        /\ n + 1 - (k + 1) = n - k
    BY <1>3, <1>14
  <2>2. taken[k + 1] = TakeLine(all[n - k], taken[k])
    BY <1>12, <2>1
  <2>3. TailAt(all, k + 1, TakeLine(all[n - k], taken[k]))
    BY <1>1, <2>1, TailAtStep DEF n
  <2> QED
    BY <2>2, <2>3
<1>15. \A k \in Nat : k \in T => k + 1 \in T
  BY <1>14
<1>16. n \in T
  <2> HIDE DEF T
  <2> QED
    BY <1>3, <1>13, <1>15, Induction
<1>17. TailAt(all, n, taken[n])
  BY <1>3, <1>16
<1> QED
  BY <1>2, <1>17 DEF all, n

LEMMA TailHolds == pages \in Seq(Nat) => TailIsShown
<1> SUFFICES ASSUME pages \in Seq(Nat), ~Whole(pages)
             PROVE  LET all == Counted(pages)
                        from == ShownFrom(pages)
                    IN  IF OutputTail(pages).partial THEN from = Len(all) /\ Last(all) > MaxBytes
                        ELSE /\ Fitting(all, from) /\ OutputTail(pages).bytes = PartOf(all, from)
                             /\ from > 1 => ~Fitting(all, from - 1)
  BY DEF TailIsShown, Fitting, PartOf
<1> DEFINE all == Counted(pages)
           t == OutputTail(pages)
           n == Len(all)
           from == ShownFrom(pages)
<1>1. all \in Seq(Nat) /\ n \in Nat
  BY CountedIs
<1>2. n # 0
  <2>1. n = 0 => all = <<>>
    BY <1>1
  <2> QED
    BY <2>1, EmptyIsWhole
<1>3. TailAt(all, n, t)
  BY TailTaken
<1>4. from = n - t.shown + 1 /\ t.shown \in Nat /\ t.shown <= n /\ n - t.shown + 1 = n + 1 - t.shown
  BY <1>1, <1>3 DEF TailAt, TailType, ShownFrom
<1>5. Last(all) = all[n]
  BY DEF Last
<1> HIDE DEF all, t, from, n
<1>6. CASE t.partial
  <2>1. t.shown = 1 /\ all[n] > MaxBytes
    BY <1>3, <1>6 DEF TailAt, n
  <2>2. from = n
    BY <1>1, <1>4, <2>1
  <2> QED
    BY <1>5, <1>6, <2>1, <2>2 DEF all, t, from, n
<1>7. CASE ~t.partial
  <2>1. t.bytes = PartOf(all, from)
    BY <1>3, <1>4, <1>7 DEF TailAt, n
  <2>2. t.shown # 0
    BY <1>2, <1>3, <1>7 DEF TailAt
  <2>3. Fitting(all, from)
    BY <1>3, <1>4, <1>7, <2>2 DEF TailAt, n
  <2>4. from > 1 => ~Fitting(all, from - 1)
    <3> SUFFICES ASSUME from > 1 PROVE ~Fitting(all, from - 1)
      OBVIOUS
    <3>1. from - 1 = n - t.shown /\ t.shown # n
      BY <1>1, <1>4
    <3> QED
      BY <1>3, <1>7, <3>1 DEF TailAt, n
  <2> QED
    BY <1>7, <2>1, <2>3, <2>4 DEF all, t, from
<1> QED
  BY <1>6, <1>7
------------------------------------------------------------------------------
(* What a read shows *)

ReadInv == ImageInv /\ PageInv

LEMMA ReadHolds == Spec => []ReadInv
<1>1. Init => ReadInv
  <2> SUFFICES ASSUME Init PROVE ReadInv
    OBVIOUS
  <2>1. NoImage \/ ImageInit
    BY DEF Init
  <2>2. \E files \in {{<<0>>}, Pages} : \E texts \in {{<<>>}, Texts} : FilesInit(texts, files)
    BY DEF Init, NoFiles
  <2>3. {<<0>>} \in SUBSET Seq(Nat) /\ Pages \in SUBSET Seq(Nat)
    <3>1. <<0>> \in Seq(Nat)
      OBVIOUS
    <3> QED
      BY <3>1, FileAssumption
  <2>4. ImageInv
    BY <2>1, ImageInitInv
  <2>5. PageInv
    BY <2>2, <2>3, PageInitInv
  <2> QED
    BY <2>4, <2>5 DEF ReadInv
<1>2. ReadInv /\ [Next]_vars => ReadInv'
  <2> SUFFICES ASSUME ReadInv, [Next]_vars PROVE ReadInv'
    OBVIOUS
  <2>1. [ImageNext]_imageVars
    BY DEF Next, vars
  <2>2. \/ UNCHANGED fileVars \/ EditNext \/ ReadNext
    BY DEF Next, vars
  <2>3. UNCHANGED <<pages, next, got, skipped>> => PageInv'
    BY DEF ReadInv, PageInv, PagesCover
  <2>4. CASE UNCHANGED fileVars
    BY <2>1, <2>3, <2>4, ImageStepInv DEF ReadInv, fileVars
  <2>5. CASE EditNext
    <3>1. UNCHANGED <<pages, next, got, skipped>>
      BY <2>5 DEF EditNext, Edit, Write
    <3> QED
      BY <2>1, <2>3, <3>1, ImageStepInv DEF ReadInv
  <2>6. CASE ReadNext
    <3>1. PICK limit \in 0 .. MaxLines : Read(limit)
      BY <2>6 DEF ReadNext
    <3>2. limit \in Nat /\ PageInv
      BY FileAssumption DEF ReadInv
    <3>3. PageInv'
      BY <3>1, <3>2, PageStepInv
    <3> QED
      BY <2>1, <3>3, ImageStepInv DEF ReadInv
  <2> QED
    BY <2>2, <2>4, <2>5, <2>6
<1> QED
  BY <1>1, <1>2, PTL DEF Spec

\* The offsets that truncate_head's hints name lead the read tool through every line of a text
\* once, whatever the sizes of its lines and the limits asked for; truncate_tail shows as much of
\* the end of an output as both limits allow and the tool names its first line; and what
\* process_image attaches is within the provider's limits, an animation whole or not at all.
THEOREM WhatIsReadIsWhole == Spec => []ReadIsWhole
<1>1. ReadInv => ReadIsWhole
  BY TailHolds DEF ReadInv, ImageInv, PageInv, ReadIsWhole
<1> QED
  BY <1>1, ReadHolds, PTL

------------------------------------------------------------------------------
(* Editing *)

\* What FlattenSeq returns from the k-th sequence on.
Tails(g, S, ss) ==
  /\ g \in [0 .. Len(ss) -> Seq(S)] /\ g[Len(ss)] = <<>>
  /\ \A k \in 1 .. Len(ss) : g[k - 1] = ss[k] \o g[k]
  /\ g[0] = FlattenSeq(ss)

LEMMA ConcatThree ==
  ASSUME NEW S, NEW a \in Seq(S), NEW b \in Seq(S), NEW c \in Seq(S)
  PROVE  (a \o b) \o c = a \o (b \o c)
BY ConcatAssociative, SMTT(30)

Meets(f, g, k) == f[k] \o g[k] = g[0]

LEMMA FlattenTails ==
  ASSUME NEW S, NEW ss \in Seq(Seq(S))
  PROVE  \E g : Tails(g, S, ss)
<1> DEFINE n == Len(ss)
           more == [x \in (1 .. n) \X Seq(S) |-> ss[n + 1 - x[1]] \o x[2]]
<1>1. n \in Nat /\ \A k \in 1 .. n : ss[k] \in Seq(S) /\ n + 1 - k \in 1 .. n
  OBVIOUS
<1>2. more \in [(1 .. n) \X Seq(S) -> Seq(S)]
  <2> HIDE DEF n
  <2>1. ASSUME NEW x \in (1 .. n) \X Seq(S) PROVE ss[n + 1 - x[1]] \o x[2] \in Seq(S)
    <3>1. x[1] \in 1 .. n /\ x[2] \in Seq(S)
      OBVIOUS
    <3>2. ss[n + 1 - x[1]] \in Seq(S)
      BY <1>1, <3>1
    <3> QED
      BY <3>1, <3>2, ConcatProperties
  <2> QED
    BY <2>1
<1>3. PICK h : IteratesTo(h, n, Seq(S), <<>>, more)
  <2> HIDE DEF n, more
  <2>1. <<>> \in Seq(S)
    OBVIOUS
  <2> QED
    BY <1>1, <1>2, <2>1, FiniteRecursion
<1>4. /\ h \in [0 .. n -> Seq(S)] /\ h[0] = <<>>
      /\ \A k \in 1 .. n : h[k] = more[<<k, h[k - 1]>>]
  <2> HIDE DEF n, more
  <2>1. /\ h \in [0 .. n -> Seq(S)]
        /\ h = [i \in 0 .. n |-> IF i = 0 THEN <<>> ELSE more[<<i, h[i - 1]>>]]
    BY <1>3 DEF IteratesTo
  <2>2. 0 \in 0 .. n /\ \A k \in 1 .. n : k \in 0 .. n /\ k # 0
    BY <1>1
  <2> QED
    BY <2>1, <2>2
<1>5. ASSUME NEW k \in 1 .. n PROVE h[k] = ss[n + 1 - k] \o h[k - 1]
  <2> HIDE DEF n
  <2>1. k - 1 \in 0 .. n
    BY <1>1
  <2>2. <<k, h[k - 1]>> \in (1 .. n) \X Seq(S)
    BY <1>4, <2>1
  <2>3. more[<<k, h[k - 1]>>] = ss[n + 1 - k] \o h[k - 1]
    BY <2>2
  <2> QED
    BY <1>4, <2>3
<1> DEFINE g == [k \in 0 .. n |-> h[n - k]]
<1>6. g \in [0 .. n -> Seq(S)] /\ g[n] = <<>>
  <2> HIDE DEF n
  <2>1. \A k \in 0 .. n : n - k \in 0 .. n
    BY <1>1
  <2>2. n \in 0 .. n /\ n - n = 0
    BY <1>1
  <2> QED
    BY <1>4, <2>1, <2>2
<1>7. ASSUME NEW k \in 1 .. n PROVE g[k - 1] = ss[k] \o g[k]
  <2> HIDE DEF n
  <2>1. /\ k - 1 \in 0 .. n /\ k \in 0 .. n /\ n - (k - 1) \in 1 .. n
        /\ n + 1 - (n - (k - 1)) = k /\ (n - (k - 1)) - 1 = n - k
    BY <1>1
  <2>2. h[n - (k - 1)] = ss[k] \o h[n - k]
    BY <1>5, <2>1
  <2> QED
    BY <2>1, <2>2
<1> HIDE DEF g, more
<1>8. g[0] = FlattenSeq(ss)
  <2>1. PICK f : Builds(f, S, ss)
    BY FlattenBuilds
  <2>2. /\ f \in [Nat -> Seq(S)] /\ f[0] = <<>> /\ FlattenSeq(ss) = f[n]
        /\ \A k \in 0 .. n - 1 : f[k + 1] = f[k] \o ss[k + 1]
    BY <2>1 DEF Builds
  <2> HIDE DEF n
  <2> DEFINE T == {k \in Nat : k <= n => Meets(f, g, k)}
  <2>3. 0 \in T
    <3>1. g[0] \in Seq(S)
      BY <1>1, <1>6
    <3> QED
      BY <2>2, <3>1, ConcatEmptySeq DEF Meets
  <2>4. ASSUME NEW k \in Nat, k <= n => Meets(f, g, k), k + 1 <= n
        PROVE  Meets(f, g, k + 1)
    <3>1. /\ k + 1 \in 1 .. n /\ (k + 1) - 1 = k /\ k \in 0 .. n - 1 /\ k \in 0 .. n
          /\ k + 1 \in 0 .. n
      BY <1>1, <2>4
    <3> DEFINE a == f[k]
               b == ss[k + 1]
               c == g[k + 1]
    <3>2. a \in Seq(S) /\ b \in Seq(S) /\ c \in Seq(S)
      BY <1>1, <1>6, <2>2, <3>1
    <3>3. g[k] = b \o c /\ f[k + 1] = a \o b /\ a \o g[k] = g[0]
      <4>1. g[(k + 1) - 1] = b \o c
        BY <1>7, <3>1
      <4>2. f[k + 1] = a \o b
        BY <2>2, <3>1
      <4>3. a \o g[k] = g[0]
        <5>1. k <= n
          BY <1>1, <3>1
        <5>2. Meets(f, g, k)
          BY <2>4, <5>1
        <5> QED
          BY <5>2 DEF Meets
      <4> QED
        BY <3>1, <4>1, <4>2, <4>3
    <3> HIDE DEF a, b
    <3>4. (a \o b) \o c = a \o (b \o c)
      <4> HIDE DEF c
      <4> QED
        BY <3>2, ConcatThree, SMTT(60)
    <3> QED
      BY <3>3, <3>4 DEF c, Meets
  <2>5. \A k \in Nat : k \in T => k + 1 \in T
    BY <2>4
  <2>6. n \in T
    <3>1. n \in Nat
      BY <1>1
    <3> HIDE DEF T
    <3> QED
      BY <2>3, <2>5, <3>1, Induction
  <2>7. f[n] \o g[n] = g[0] /\ f[n] \in Seq(S)
    <3>1. n \in Nat /\ n <= n
      BY <1>1
    <3>2. Meets(f, g, n)
      BY <2>6, <3>1
    <3>3. f[n] \in Seq(S)
      BY <2>2, <3>1
    <3> QED
      BY <3>2, <3>3 DEF Meets
  <2> QED
    BY <1>6, <2>2, <2>7, ConcatEmptySeq
<1> QED
  BY <1>6, <1>7, <1>8 DEF Tails

\* Spans within a text of n characters that do not overlap, each from one character to before
\* another.
Apartness(fr, to, n) ==
  /\ DOMAIN to = DOMAIN fr
  /\ \A i \in DOMAIN fr : fr[i] \in 1 .. n /\ to[i] \in 1 .. n + 1 /\ fr[i] < to[i]
  /\ \A i, j \in DOMAIN fr : i # j => ~(fr[i] < to[j] /\ fr[j] < to[i])
Uncovered(fr, to, p) == \A i \in DOMAIN fr : ~(fr[i] <= p /\ p < to[i])
NoStart(fr, a, b) == \A i \in DOMAIN fr : ~(a <= fr[i] /\ fr[i] < b)

\* What becomes of each character.
Pieces(ss, s, fr, to, new) ==
  /\ Len(ss) = Len(s)
  /\ \A p \in 1 .. Len(s) : Uncovered(fr, to, p) => ss[p] = <<s[p]>>
  /\ \A i \in DOMAIN fr : /\ ss[fr[i]] = new[i]
                          /\ \A p \in fr[i] + 1 .. to[i] - 1 : ss[p] = <<>>

\* Characters that nothing covers stay, and those of a span behind its first are gone.
Stays(s, g, b, c) == g[c - 1] = SubSeq(s, c, b - 1) \o g[b - 1]
Kept(ss, s, a, b) == \A p \in 1 .. Len(s) : a <= p /\ p < b => ss[p] = <<s[p]>>

LEMMA TailStays ==
  ASSUME NEW S, NEW s \in Seq(S), NEW ss, Len(ss) = Len(s), NEW g, Tails(g, S, ss),
         NEW a \in 1 .. Len(s) + 1, NEW b \in 1 .. Len(s) + 1, a <= b, Kept(ss, s, a, b)
  PROVE  Stays(s, g, b, a)
<1> DEFINE T == {d \in Nat : b - d >= a => Stays(s, g, b, b - d)}
<1>1. /\ Len(s) \in Nat /\ Len(ss) = Len(s) /\ a - 1 \in 0 .. Len(s) /\ b - 1 \in 0 .. Len(s)
      /\ \A p \in 1 .. Len(s) : s[p] \in S
  OBVIOUS
<1>2. /\ g \in [0 .. Len(s) -> Seq(S)]
      /\ \A k \in 1 .. Len(s) : g[k - 1] = ss[k] \o g[k]
  BY <1>1 DEF Tails
<1>3. Stays(s, g, b, b)
  <2>1. SubSeq(s, b, b - 1) = <<>> /\ g[b - 1] \in Seq(S)
    BY <1>1, <1>2
  <2> QED
    BY <2>1, ConcatEmptySeq DEF Stays
<1>4. ASSUME NEW c \in 1 .. Len(s), a <= c, c < b, Stays(s, g, b, c + 1)
      PROVE  Stays(s, g, b, c)
  <2> DEFINE x == <<s[c]>>
             y == SubSeq(s, c + 1, b - 1)
             z == g[b - 1]
  <2>1. g[c - 1] = ss[c] \o g[c] /\ ss[c] = x
    BY <1>2, <1>4 DEF Kept
  <2>2. g[c] = y \o z
    <3>1. (c + 1) - 1 = c
      OBVIOUS
    <3> QED
      BY <1>4, <3>1 DEF Stays
  <2>3. x \in Seq(S) /\ y \in Seq(S) /\ z \in Seq(S)
    BY <1>1, <1>2, <1>4
  <2>4. SubSeq(s, c, b - 1) = x \o y
    BY <1>1, <1>4
  <2> HIDE DEF x, y, z
  <2>5. (x \o y) \o z = x \o (y \o z)
    <3> HIDE <1>1, <1>2, <1>3, <1>4, <2>1, <2>2, <2>4
    <3> QED
      BY <2>3, ConcatThree, SMTT(60)
  <2> QED
    BY <2>1, <2>2, <2>4, <2>5 DEF z, Stays
<1>5. 0 \in T
  <2>1. b - 0 = b
    OBVIOUS
  <2> QED
    BY <1>3, <2>1
<1>6. ASSUME NEW d \in Nat, d \in T PROVE d + 1 \in T
  <2> SUFFICES ASSUME b - (d + 1) >= a PROVE Stays(s, g, b, b - (d + 1))
    OBVIOUS
  <2> DEFINE c == b - (d + 1)
  <2>1. c \in 1 .. Len(s) /\ a <= c /\ c < b /\ c + 1 = b - d /\ b - d >= a
    BY <1>1
  <2>2. Stays(s, g, b, c + 1)
    BY <1>6, <2>1
  <2> QED
    BY <1>4, <2>1, <2>2
<1>7. b - a \in Nat /\ b - (b - a) = a
  BY <1>1
<1>8. b - a \in T
  <2> HIDE DEF T
  <2> QED
    BY <1>5, <1>6, <1>7, Induction
<1>9. Stays(s, g, b, a)
  BY <1>1, <1>7, <1>8
<1> QED
  BY <1>9

LEMMA TailGoes ==
  ASSUME NEW S, NEW ss \in Seq(Seq(S)), NEW g, Tails(g, S, ss),
         NEW a \in 0 .. Len(ss), NEW b \in 0 .. Len(ss), a <= b,
         \A p \in 1 .. Len(ss) : a < p /\ p <= b => ss[p] = <<>>
  PROVE  g[a] = g[b]
<1> DEFINE T == {d \in Nat : b - d >= a => g[b - d] = g[b]}
<1>1. Len(ss) \in Nat
  OBVIOUS
<1>2. /\ g \in [0 .. Len(ss) -> Seq(S)]
      /\ \A k \in 1 .. Len(ss) : g[k - 1] = ss[k] \o g[k]
  BY DEF Tails
<1>3. 0 \in T
  <2>1. b - 0 = b
    OBVIOUS
  <2> QED
    BY <2>1
<1>4. ASSUME NEW d \in Nat, d \in T PROVE d + 1 \in T
  <2> SUFFICES ASSUME b - (d + 1) >= a PROVE g[b - (d + 1)] = g[b]
    OBVIOUS
  <2> DEFINE c == b - d
  <2>1. /\ c \in 1 .. Len(ss) /\ c \in 0 .. Len(ss) /\ a < c /\ c <= b /\ c - 1 = b - (d + 1)
        /\ b - d >= a
    BY <1>1
  <2>2. g[c] = g[b]
    BY <1>4, <2>1
  <2> HIDE DEF c
  <2>3. ss[c] = <<>> /\ g[c] \in Seq(S)
    BY <1>2, <2>1
  <2>4. g[c - 1] = <<>> \o g[c]
    BY <1>2, <2>1, <2>3
  <2> QED
    BY <2>1, <2>2, <2>3, <2>4, ConcatEmptySeq
<1>5. b - a \in Nat /\ b - (b - a) = a
  BY <1>1
<1>6. b - a \in T
  <2> HIDE DEF T
  <2> QED
    BY <1>3, <1>4, <1>5, Induction
<1> QED
  BY <1>1, <1>5, <1>6

LEMMA HeadOf ==
  ASSUME NEW S, NEW s \in Seq(S), NEW y \in Seq(S), NEW q \in 1 .. Len(s) + 1, NEW p \in 1 .. q
  PROVE  SubSeq(SubSeq(s, 1, q - 1) \o y, 1, p - 1) = SubSeq(s, 1, p - 1)
<1> DEFINE x == SubSeq(s, 1, q - 1)
           c == x \o y
           u == SubSeq(c, 1, p - 1)
           v == SubSeq(s, 1, p - 1)
<1>1. x \in Seq(S) /\ Len(x) = q - 1 /\ \A i \in 1 .. q - 1 : x[i] = s[i]
  OBVIOUS
<1> HIDE DEF x
<1>2. c \in Seq(S) /\ Len(c) = Len(x) + Len(y) /\ \A i \in 1 .. Len(x) : c[i] = x[i]
  BY <1>1, SMTT(60)
<1> HIDE DEF c
<1>3. u \in Seq(S) /\ Len(u) = p - 1 /\ \A i \in 1 .. p - 1 : u[i] = c[i]
  BY <1>1, <1>2
<1>4. v \in Seq(S) /\ Len(v) = p - 1 /\ \A i \in 1 .. p - 1 : v[i] = s[i]
  OBVIOUS
<1> HIDE DEF u, v
<1>5. \A i \in 1 .. p - 1 : i \in 1 .. q - 1 /\ i \in 1 .. Len(x)
  BY <1>1
<1>6. u = v
  BY <1>1, <1>2, <1>3, <1>4, <1>5
<1> QED
  BY <1>6 DEF u, v, c, x

LEMMA TailOf ==
  ASSUME NEW S, NEW s \in Seq(S), NEW y \in Seq(S), NEW q \in 1 .. Len(s) + 1, NEW t \in 1 .. q
  PROVE  SubSeq(SubSeq(s, 1, q - 1) \o y, t, Len(SubSeq(s, 1, q - 1) \o y))
           = SubSeq(s, t, q - 1) \o y
<1> DEFINE x == SubSeq(s, 1, q - 1)
           c == x \o y
           u == SubSeq(c, t, Len(c))
           w == SubSeq(s, t, q - 1)
           v == w \o y
<1>1. x \in Seq(S) /\ Len(x) = q - 1 /\ \A i \in 1 .. q - 1 : x[i] = s[i]
  OBVIOUS
<1>2. w \in Seq(S) /\ Len(w) = q - t /\ \A i \in 1 .. q - t : w[i] = s[i + t - 1]
  OBVIOUS
<1> HIDE DEF x, w
<1>3. /\ c \in Seq(S) /\ Len(c) = q - 1 + Len(y)
      /\ \A i \in 1 .. q - 1 : c[i] = x[i]
      /\ \A i \in 1 .. Len(c) : i > q - 1 => c[i] = y[i - (q - 1)]
  BY <1>1, SMTT(30)
<1>4. /\ v \in Seq(S) /\ Len(v) = q - t + Len(y)
      /\ \A i \in 1 .. q - t : v[i] = w[i]
      /\ \A i \in 1 .. Len(v) : i > q - t => v[i] = y[i - (q - t)]
  BY <1>2, SMTT(30)
<1> HIDE DEF c, v
<1>5. /\ u \in Seq(S) /\ Len(u) = Len(c) - t + 1
      /\ \A i \in 1 .. Len(u) : u[i] = c[i + t - 1]
  BY <1>3
<1> HIDE DEF u
<1>6. Len(u) = Len(v)
  BY <1>3, <1>4, <1>5
<1>7. ASSUME NEW i \in 1 .. Len(u) PROVE u[i] = v[i]
  <2>1. CASE i <= q - t
    <3>1. i \in 1 .. q - t /\ i + t - 1 \in 1 .. q - 1
      BY <2>1
    <3> QED
      BY <1>1, <1>2, <1>3, <1>4, <1>5, <3>1, ZenonT(60)
  <2>2. CASE ~(i <= q - t)
    <3>1. /\ i \in 1 .. Len(v) /\ i > q - t /\ i + t - 1 \in 1 .. Len(c) /\ i + t - 1 > q - 1
          /\ (i + t - 1) - (q - 1) = i - (q - t)
      BY <1>3, <1>4, <1>5, <1>6, <2>2
    <3>2. v[i] = y[i - (q - t)]
      BY <1>4, <3>1
    <3>3. c[i + t - 1] = y[(i + t - 1) - (q - 1)]
      BY <1>3, <3>1
    <3> QED
      BY <1>5, <3>1, <3>2, <3>3
  <2> QED
    BY <2>1, <2>2
<1>8. u = v
  BY <1>4, <1>5, <1>6, <1>7, SeqEqual
<1> QED
  BY <1>8 DEF u, v, c, x, w

\* The text once the spans from the p-th character on are replaced: what comes before the first
\* of them is as it was, what follows is what is meant.
Ready(text, s, fr, g, p) ==
  \E q \in p .. Len(s) + 1 :
    /\ NoStart(fr, p, q) /\ (q <= Len(s) => \E i \in DOMAIN fr : fr[i] = q)
    /\ text = SubSeq(s, 1, q - 1) \o g[q - 1]

LEMMA ReadyIsText ==
  ASSUME NEW S, NEW s \in Seq(S), NEW ss, Len(ss) = Len(s), NEW g, Tails(g, S, ss), NEW fr,
         NEW p \in 1 .. Len(s) + 1, NEW text, Ready(text, s, fr, g, p)
  PROVE  text \in Seq(S)
<1>1. PICK q \in p .. Len(s) + 1 : text = SubSeq(s, 1, q - 1) \o g[q - 1]
  BY DEF Ready
<1>2. q \in 1 .. Len(s) + 1 /\ q - 1 \in 0 .. Len(s)
  OBVIOUS
<1>3. g[q - 1] \in Seq(S)
  BY <1>2 DEF Tails
<1>4. SubSeq(s, 1, q - 1) \in Seq(S)
  BY <1>2
<1> QED
  BY <1>1, <1>3, <1>4, ConcatProperties

LEMMA ReadyFirst ==
  ASSUME NEW S, NEW s \in Seq(S), NEW ss, Len(ss) = Len(s), NEW g, Tails(g, S, ss),
         NEW fr, NEW to, Apartness(fr, to, Len(s))
  PROVE  Ready(s, s, fr, g, Len(s) + 1)
<1> DEFINE q == Len(s) + 1
<1>1. q \in q .. Len(s) + 1 /\ q - 1 = Len(s) /\ ~(q <= Len(s)) /\ NoStart(fr, q, q)
  <2>1. NoStart(fr, q, q)
    <3> SUFFICES ASSUME NEW i \in DOMAIN fr, q <= fr[i], fr[i] < q PROVE FALSE
      BY DEF NoStart
    <3>1. fr[i] \in 1 .. Len(s)
      BY DEF Apartness
    <3> QED
      BY <3>1
  <2> QED
    BY <2>1
<1>2. SubSeq(s, 1, Len(s)) \o g[Len(s)] = s
  <2>1. g[Len(s)] = <<>>
    BY DEF Tails
  <2>2. SubSeq(s, 1, Len(s)) = s
    OBVIOUS
  <2> QED
    BY <2>1, <2>2, ConcatEmptySeq
<1> QED
  BY <1>1, <1>2 DEF Ready

LEMMA ReadyLast ==
  ASSUME NEW S, NEW s \in Seq(S), NEW fr, NEW to, NEW new, NEW ss,
         Pieces(ss, s, fr, to, new), NEW g, Tails(g, S, ss), Apartness(fr, to, Len(s)),
         NEW text, Ready(text, s, fr, g, 1)
  PROVE  text = FlattenSeq(ss)
<1>1. PICK q \in 1 .. Len(s) + 1 : NoStart(fr, 1, q) /\ text = SubSeq(s, 1, q - 1) \o g[q - 1]
  BY DEF Ready
<1>2. ASSUME NEW p \in 1 .. Len(s), 1 <= p, p < q PROVE Uncovered(fr, to, p)
  <2> SUFFICES ASSUME NEW i \in DOMAIN fr, fr[i] <= p PROVE FALSE
    BY DEF Uncovered
  <2>1. 1 <= fr[i] /\ fr[i] < q
    BY <1>2 DEF Apartness
  <2> QED
    BY <1>1, <2>1 DEF NoStart
<1> DEFINE a == 1
<1>3. a \in 1 .. Len(s) + 1 /\ a <= q /\ a - 1 = 0 /\ q \in 1 .. Len(s) + 1
  OBVIOUS
<1>4. Kept(ss, s, a, q) /\ Len(ss) = Len(s)
  BY <1>2 DEF Kept, Pieces
<1>5. g[0] = FlattenSeq(ss) /\ text = SubSeq(s, a, q - 1) \o g[q - 1]
  BY <1>1 DEF Tails
<1> HIDE DEF a
<1>6. Stays(s, g, q, a)
  BY <1>3, <1>4, TailStays
<1> QED
  BY <1>3, <1>5, <1>6 DEF Stays

\* Where nothing starts nothing changes.
LEMMA ReadyPassed ==
  ASSUME NEW S, NEW s \in Seq(S), NEW g, NEW fr, NEW to, Apartness(fr, to, Len(s)),
         NEW p \in 1 .. Len(s), NEW text, Ready(text, s, fr, g, p + 1),
         \A i \in DOMAIN fr : fr[i] # p
  PROVE  Ready(text, s, fr, g, p)
<1>1. PICK q \in p + 1 .. Len(s) + 1 :
        /\ NoStart(fr, p + 1, q) /\ (q <= Len(s) => \E i \in DOMAIN fr : fr[i] = q)
        /\ text = SubSeq(s, 1, q - 1) \o g[q - 1]
  BY DEF Ready
<1>2. q \in p .. Len(s) + 1
  OBVIOUS
<1>3. NoStart(fr, p, q)
  <2> SUFFICES ASSUME NEW i \in DOMAIN fr, p <= fr[i], fr[i] < q PROVE FALSE
    BY DEF NoStart
  <2>1. fr[i] \in 1 .. Len(s) /\ fr[i] # p
    BY DEF Apartness
  <2>2. p + 1 <= fr[i]
    BY <2>1
  <2> QED
    BY <1>1, <2>2 DEF NoStart
<1> QED
  BY <1>1, <1>2, <1>3 DEF Ready

Splice(text, from, until, new) == SubSeq(text, 1, from - 1) \o new \o SubSeq(text, until, Len(text))

LEMMA ReadyReplaced ==
  ASSUME NEW S, NEW s \in Seq(S), NEW fr, NEW to, NEW new, NEW ss \in Seq(Seq(S)),
         Pieces(ss, s, fr, to, new), NEW g, Tails(g, S, ss), Apartness(fr, to, Len(s)),
         NEW p \in 1 .. Len(s), NEW text, Ready(text, s, fr, g, p + 1),
         NEW i \in DOMAIN fr, fr[i] = p
  PROVE  Ready(Splice(text, p, to[i], new[i]), s, fr, g, p)
<1>1. PICK q \in p + 1 .. Len(s) + 1 :
        /\ NoStart(fr, p + 1, q) /\ (q <= Len(s) => \E j \in DOMAIN fr : fr[j] = q)
        /\ text = SubSeq(s, 1, q - 1) \o g[q - 1]
  BY DEF Ready
<1> DEFINE t == to[i]
<1>2. /\ Len(s) \in Nat /\ Len(ss) = Len(s) /\ t \in 1 .. Len(s) + 1 /\ p < t
      /\ q \in 1 .. Len(s) + 1 /\ p < q
  BY DEF Pieces, Apartness
<1>3. t <= q
  <2> SUFFICES ASSUME ~(t <= q) PROVE FALSE
    OBVIOUS
  <2>1. q <= Len(s)
    BY <1>2
  <2>2. PICK j \in DOMAIN fr : fr[j] = q
    BY <1>1, <2>1
  <2>3. j # i /\ to[j] \in 1 .. Len(s) + 1 /\ q < to[j]
    BY <1>2, <2>2 DEF Apartness
  <2>4. ~(fr[i] < to[j] /\ fr[j] < to[i])
    BY <2>3 DEF Apartness
  <2> QED
    BY <1>2, <2>2, <2>3, <2>4
<1>4. Kept(ss, s, t, q)
  <2> SUFFICES ASSUME NEW x \in 1 .. Len(s), t <= x, x < q PROVE ss[x] = <<s[x]>>
    BY DEF Kept
  <2>1. ASSUME NEW j \in DOMAIN fr, fr[j] <= x, x < to[j] PROVE FALSE
    <3>1. fr[j] \in 1 .. Len(s) /\ to[j] \in 1 .. Len(s) + 1 /\ j # i
      BY <1>2, <2>1 DEF Apartness
    <3>2. ~(fr[i] < to[j] /\ fr[j] < to[i])
      BY <3>1 DEF Apartness
    <3>3. ~(p + 1 <= fr[j] /\ fr[j] < q)
      BY <1>1 DEF NoStart
    <3> QED
      BY <1>2, <2>1, <3>1, <3>2, <3>3, SMTT(30)
  <2> QED
    BY <2>1 DEF Uncovered, Pieces
<1>5. g[t - 1] = SubSeq(s, t, q - 1) \o g[q - 1]
  <2>1. Stays(s, g, q, t)
    <3> HIDE DEF t
    <3> QED
      BY <1>2, <1>3, <1>4, TailStays
  <2> QED
    BY <2>1 DEF Stays
<1>6. g[p] = g[t - 1]
  <2> DEFINE b == t - 1
  <2>1. p \in 0 .. Len(ss) /\ b \in 0 .. Len(ss) /\ p <= b
    BY <1>2, SMTT(30)
  <2>2. \A x \in 1 .. Len(ss) : p < x /\ x <= b => ss[x] = <<>>
    <3> SUFFICES ASSUME NEW x \in 1 .. Len(ss), p < x, x <= b PROVE ss[x] = <<>>
      OBVIOUS
    <3>1. x \in fr[i] + 1 .. to[i] - 1
      BY <1>2
    <3> QED
      BY <3>1 DEF Pieces
  <2> HIDE DEF b
  <2>3. g[p] = g[b]
    BY <2>1, <2>2, TailGoes
  <2> QED
    BY <2>3 DEF b
<1>7. g[p - 1] = new[i] \o g[p] /\ new[i] \in Seq(S)
  <2>1. ss[p] = new[i] /\ p \in 1 .. Len(ss)
    BY <1>2 DEF Pieces
  <2>2. ss[p] \in Seq(S)
    BY <2>1
  <2> QED
    BY <2>1, <2>2 DEF Tails
<1> DEFINE y == g[q - 1]
           a == SubSeq(s, 1, p - 1)
           z == g[t - 1]
<1>8. y \in Seq(S) /\ z \in Seq(S) /\ a \in Seq(S)
  <2>1. q - 1 \in 0 .. Len(ss) /\ t - 1 \in 0 .. Len(ss) /\ g \in [0 .. Len(ss) -> Seq(S)]
    BY <1>2 DEF Tails
  <2>2. y \in Seq(S) /\ z \in Seq(S)
    BY <2>1
  <2>3. a \in Seq(S)
    <3>1. p - 1 \in 0 .. Len(s) /\ \A x \in 1 .. p - 1 : x \in 1 .. Len(s)
      BY <1>2
    <3> QED
      BY <3>1
  <2> QED
    BY <2>2, <2>3
<1>9. SubSeq(text, 1, p - 1) = a
  <2>1. p \in 1 .. q /\ text = SubSeq(s, 1, q - 1) \o y
    BY <1>1, <1>2
  <2> HIDE DEF y
  <2> QED
    BY <1>2, <1>8, <2>1, HeadOf
<1>10. SubSeq(text, t, Len(text)) = z
  <2>1. t \in 1 .. q /\ text = SubSeq(s, 1, q - 1) \o y /\ z = SubSeq(s, t, q - 1) \o y
    BY <1>1, <1>2, <1>3, <1>5
  <2> HIDE DEF y, z, t
  <2> QED
    BY <1>2, <1>8, <2>1, TailOf
<1>11. Splice(text, p, t, new[i]) = (a \o new[i]) \o z
  <2> HIDE DEF t, a, z
  <2> QED
    BY <1>9, <1>10 DEF Splice
<1>12. (a \o new[i]) \o z = a \o (new[i] \o z)
  <2> DEFINE m == new[i]
  <2>1. a \in Seq(S) /\ m \in Seq(S) /\ z \in Seq(S)
    BY <1>7, <1>8
  <2> HIDE DEF a, m, z
  <2>2. (a \o m) \o z = a \o (m \o z)
    BY <2>1, ConcatThree, SMTT(60)
  <2> QED
    BY <2>2 DEF m
<1>13. Splice(text, p, t, new[i]) = SubSeq(s, 1, p - 1) \o g[p - 1]
  BY <1>6, <1>7, <1>11, <1>12
<1>14. p \in p .. Len(s) + 1 /\ NoStart(fr, p, p) /\ \E j \in DOMAIN fr : fr[j] = p
  <2>1. NoStart(fr, p, p)
    <3> SUFFICES ASSUME NEW j \in DOMAIN fr, p <= fr[j], fr[j] < p PROVE FALSE
      BY DEF NoStart
    <3>1. fr[j] \in 1 .. Len(s)
      BY DEF Apartness
    <3> QED
      BY <3>1
  <2> QED
    BY <2>1
<1> HIDE DEF a, z, y
<1> QED
  BY <1>13, <1>14 DEF Ready
------------------------------------------------------------------------------

LEMMA FindIs ==
  ASSUME NEW s \in Seq(Chars), NEW old, NEW m \in Nat \ {0}, Find(s, old, m) # 0
  PROVE  Find(s, old, m) \in m .. Len(s) /\ StartsAt(s, old, Find(s, old, m))
<1> DEFINE at == {i \in m .. Len(s) : StartsAt(s, old, i)}
<1>1. Find(s, old, m) = IF at = {} THEN 0 ELSE Min(at)
  BY DEF Find
<1>2. at # {} /\ at \in SUBSET Nat
  BY <1>1
<1>3. Find(s, old, m) = Min(at)
  BY <1>1, <1>2
<1>4. \A i \in at : i \in m .. Len(s) /\ StartsAt(s, old, i)
  OBVIOUS
<1> HIDE DEF at
<1>5. \E i \in at : \A j \in at : i <= j
  BY <1>2, LeastNumber
<1>6. Min(at) \in at
  BY <1>5 DEF Min
<1> QED
  BY <1>3, <1>4, <1>6

EditOf == [old : Seq(Chars), new : Seq(Chars)]
From(s, edits) == [i \in DOMAIN edits |-> Span(s, edits[i]).from]
Until(s, edits) == [i \in DOMAIN edits |-> Span(s, edits[i]).to]
Putting(edits) == [i \in DOMAIN edits |-> edits[i].new]
PiecesOf(s, edits) ==
  [p \in DOMAIN s |->
    LET over == {i \in DOMAIN edits : p \in Span(s, edits[i]).from .. Span(s, edits[i]).to - 1}
        at == {i \in over : p = Span(s, edits[i]).from}
    IN IF over = {} THEN <<s[p]>>
       ELSE IF at = {} THEN <<>> ELSE edits[CHOOSE i \in at : TRUE].new]

LEMMA EditsApart ==
  ASSUME NEW s \in Seq(Chars), NEW n \in Nat, NEW edits \in [1 .. n -> EditOf], Valid(s, edits)
  PROVE  Apartness(From(s, edits), Until(s, edits), Len(s))
<1> DEFINE fr == From(s, edits)
           to == Until(s, edits)
<1>1. DOMAIN fr = 1 .. n /\ DOMAIN to = 1 .. n
  BY DEF From, Until
<1>2. ASSUME NEW i \in 1 .. n
      PROVE  /\ fr[i] = Span(s, edits[i]).from /\ to[i] = Span(s, edits[i]).to
             /\ fr[i] \in 1 .. Len(s) /\ to[i] \in 1 .. Len(s) + 1 /\ fr[i] < to[i]
  <2> DEFINE e == edits[i]
             at == Find(s, e.old, 1)
  <2>1. e.old \in Seq(Chars) /\ e.old # <<>> /\ Len(e.old) \in Nat \ {0}
    <3>1. e.old \in Seq(Chars) /\ e.old # <<>>
      BY DEF Valid, EditOf
    <3> QED
      BY <3>1, EmptySeq
  <2>2. at # 0
    BY DEF Valid, Once
  <2>3. at \in 1 .. Len(s) /\ StartsAt(s, e.old, at)
    BY <2>2, FindIs
  <2>4. fr[i] = at /\ to[i] = at + Len(e.old)
    BY DEF From, Until, Span
  <2>5. fr[i] = Span(s, edits[i]).from /\ to[i] = Span(s, edits[i]).to
    BY DEF From, Until
  <2>6. at + Len(e.old) - 1 <= Len(s)
    BY <2>3 DEF StartsAt
  <2> HIDE DEF at, e
  <2>7. at \in 1 .. Len(s) /\ at + Len(e.old) \in 1 .. Len(s) + 1 /\ at < at + Len(e.old)
    BY <2>1, <2>3, <2>6
  <2> QED
    BY <2>4, <2>5, <2>7
<1>3. ASSUME NEW i \in 1 .. n, NEW j \in 1 .. n, i # j
      PROVE  ~(fr[i] < to[j] /\ fr[j] < to[i])
  <2>1. i < j \/ j < i
    BY <1>3
  <2>2. ~Overlap(Span(s, edits[i]), Span(s, edits[j])) \/ ~Overlap(Span(s, edits[j]), Span(s, edits[i]))
    BY <2>1 DEF Valid
  <2> QED
    BY <1>2, <2>2 DEF Overlap
<1> QED
  BY <1>1, <1>2, <1>3 DEF Apartness

LEMMA PiecesAre ==
  ASSUME NEW s \in Seq(Chars), NEW n \in Nat, NEW edits \in [1 .. n -> EditOf], Valid(s, edits)
  PROVE  /\ PiecesOf(s, edits) \in Seq(Seq(Chars))
         /\ Pieces(PiecesOf(s, edits), s, From(s, edits), Until(s, edits), Putting(edits))
<1> DEFINE fr == From(s, edits)
           to == Until(s, edits)
           ss == PiecesOf(s, edits)
<1>1. Apartness(fr, to, Len(s))
  BY EditsApart
<1>2. /\ DOMAIN fr = 1 .. n /\ DOMAIN to = 1 .. n /\ DOMAIN edits = 1 .. n
      /\ \A i \in 1 .. n : /\ fr[i] = Span(s, edits[i]).from /\ to[i] = Span(s, edits[i]).to
                           /\ edits[i].new \in Seq(Chars)
                           /\ Putting(edits)[i] = edits[i].new
  BY DEF From, Until, Putting, EditOf
<1>3. \A i \in 1 .. n : fr[i] \in 1 .. Len(s) /\ to[i] \in 1 .. Len(s) + 1 /\ fr[i] < to[i]
  BY <1>1, <1>2 DEF Apartness
<1>4. ASSUME NEW i \in 1 .. n, NEW j \in 1 .. n, i # j
      PROVE  ~(fr[i] < to[j] /\ fr[j] < to[i])
  BY <1>1, <1>2, <1>4 DEF Apartness
<1> DEFINE over(p) == {i \in 1 .. n : p \in fr[i] .. to[i] - 1}
           at(p) == {i \in over(p) : p = fr[i]}
<1>5. ASSUME NEW p \in 1 .. Len(s)
      PROVE  ss[p] = IF over(p) = {} THEN <<s[p]>>
                     ELSE IF at(p) = {} THEN <<>> ELSE edits[CHOOSE i \in at(p) : TRUE].new
  <2>1. p \in DOMAIN s
    OBVIOUS
  <2>2. over(p) = {i \in DOMAIN edits : p \in Span(s, edits[i]).from .. Span(s, edits[i]).to - 1}
    BY <1>2
  <2>3. at(p) = {i \in over(p) : p = Span(s, edits[i]).from}
    BY <1>2
  <2> HIDE DEF over, at
  <2> QED
    BY <2>1, <2>2, <2>3 DEF PiecesOf
<1>6. ASSUME NEW p \in 1 .. Len(s) PROVE ss[p] \in Seq(Chars)
  <2>1. at(p) # {} => (CHOOSE i \in at(p) : TRUE) \in 1 .. n
    OBVIOUS
  <2>2. <<s[p]>> \in Seq(Chars) /\ <<>> \in Seq(Chars)
    OBVIOUS
  <2> HIDE DEF over, at, ss
  <2> QED
    BY <1>2, <1>5, <2>1, <2>2
<1>7. DOMAIN ss = 1 .. Len(s) /\ ss = [p \in DOMAIN ss |-> ss[p]]
  BY DEF PiecesOf
<1>8. ss \in Seq(Seq(Chars)) /\ Len(ss) = Len(s)
  <2>1. ss \in [1 .. Len(s) -> Seq(Chars)]
    <3> HIDE DEF ss
    <3> QED
      BY <1>6, <1>7
  <2> HIDE DEF ss
  <2> QED
    BY <2>1
<1>9. ASSUME NEW p \in 1 .. Len(s), Uncovered(fr, to, p) PROVE ss[p] = <<s[p]>>
  <2>1. over(p) = {}
    <3> SUFFICES ASSUME NEW i \in 1 .. n, p \in fr[i] .. to[i] - 1 PROVE FALSE
      OBVIOUS
    <3>1. fr[i] <= p /\ p < to[i]
      BY <1>3
    <3> QED
      BY <1>2, <1>9, <3>1 DEF Uncovered
  <2> HIDE DEF over, at
  <2> QED
    BY <1>5, <2>1
<1>10. ASSUME NEW i \in 1 .. n
       PROVE  ss[fr[i]] = Putting(edits)[i] /\ \A p \in fr[i] + 1 .. to[i] - 1 : ss[p] = <<>>
  <2>1. ASSUME NEW p \in fr[i] .. to[i] - 1 PROVE p \in 1 .. Len(s) /\ over(p) = {i}
    <3>1. p \in 1 .. Len(s) /\ i \in over(p)
      BY <1>3
    <3>2. ASSUME NEW j \in over(p) PROVE j = i
      <4>1. j \in 1 .. n /\ fr[j] <= p /\ p < to[j] /\ fr[i] <= p /\ p < to[i]
        BY <1>3
      <4> QED
        BY <1>3, <1>4, <3>1, <4>1, SMTT(30)
    <3> QED
      BY <3>1, <3>2
  <2>2. ss[fr[i]] = Putting(edits)[i]
    <3> DEFINE p == fr[i]
    <3>1. p \in fr[i] .. to[i] - 1
      BY <1>3
    <3>2. p \in 1 .. Len(s) /\ over(p) = {i}
      BY <2>1, <3>1
    <3>3. at(p) = {i}
      BY <3>2
    <3>4. (CHOOSE j \in {i} : TRUE) = i
      OBVIOUS
    <3>5. over(p) # {} /\ at(p) # {}
      BY <3>2, <3>3
    <3> HIDE DEF over, at, p
    <3>6. ss[p] = edits[i].new
      BY <1>5, <3>2, <3>3, <3>4, <3>5
    <3> QED
      BY <1>2, <3>6 DEF p
  <2>3. ASSUME NEW p \in fr[i] + 1 .. to[i] - 1 PROVE ss[p] = <<>>
    <3>1. p \in fr[i] .. to[i] - 1 /\ p # fr[i]
      BY <1>3
    <3>2. p \in 1 .. Len(s) /\ over(p) = {i}
      BY <2>1, <3>1
    <3>3. at(p) = {} /\ over(p) # {}
      BY <3>1, <3>2
    <3> HIDE DEF over, at
    <3> QED
      BY <1>5, <3>2, <3>3
  <2> QED
    BY <2>2, <2>3
<1> QED
  BY <1>2, <1>8, <1>9, <1>10 DEF Pieces

\* The text after one place more, and what Replaced returns.
Place(s, edits, k, text) ==
  LET here == Starting(s, edits, LastToFirst(s, k))
  IN IF here = {} THEN text ELSE Put(text, Span(s, edits[CHOOSE i \in here : TRUE]))

LEMMA PlaceIs ==
  ASSUME NEW s \in Seq(Chars), NEW n \in Nat, NEW edits \in [1 .. n -> EditOf], Valid(s, edits),
         NEW g, Tails(g, Chars, PiecesOf(s, edits)),
         NEW k \in 1 .. Len(s), NEW text, Ready(text, s, From(s, edits), g, Len(s) + 1 - (k - 1))
  PROVE  Ready(Place(s, edits, k, text), s, From(s, edits), g, Len(s) + 1 - k)
<1> DEFINE fr == From(s, edits)
           to == Until(s, edits)
           ss == PiecesOf(s, edits)
           p == Len(s) + 1 - k
           here == {i \in 1 .. n : fr[i] = p}
           at == CHOOSE i \in here : TRUE
<1>1. Apartness(fr, to, Len(s)) /\ ss \in Seq(Seq(Chars)) /\ Pieces(ss, s, fr, to, Putting(edits))
  BY EditsApart, PiecesAre
<1>2. /\ DOMAIN fr = 1 .. n /\ DOMAIN edits = 1 .. n
      /\ \A i \in 1 .. n : /\ fr[i] = Span(s, edits[i]).from /\ to[i] = Span(s, edits[i]).to
                           /\ Putting(edits)[i] = edits[i].new /\ Span(s, edits[i]).new = edits[i].new
  BY DEF From, Until, Putting, Span
<1>3. p \in 1 .. Len(s) /\ Len(s) + 1 - (k - 1) = p + 1
  OBVIOUS
<1>4. Starting(s, edits, LastToFirst(s, k)) = here
  BY <1>2 DEF Starting, LastToFirst
<1>5. Place(s, edits, k, text) = IF here = {} THEN text ELSE Put(text, Span(s, edits[at]))
  <2> HIDE DEF here
  <2> QED
    BY <1>4 DEF Place
<1>6. Ready(text, s, fr, g, p + 1)
  BY <1>3
<1>7. here # {} => at \in 1 .. n /\ fr[at] = p
  OBVIOUS
<1>8. here = {} => \A i \in DOMAIN fr : fr[i] # p
  BY <1>2
<1> HIDE DEF fr, to, ss, p, here, at
<1>9. CASE here = {}
  <2>1. Ready(text, s, fr, g, p)
    BY <1>1, <1>3, <1>6, <1>8, <1>9, ReadyPassed
  <2> QED
    BY <1>5, <1>9, <2>1 DEF p, fr
<1>10. CASE here # {}
  <2>1. Tails(g, Chars, ss)
    BY DEF ss
  <2>2. at \in DOMAIN fr /\ fr[at] = p
    BY <1>2, <1>7, <1>10
  <2> DEFINE new == Putting(edits)
  <2>3. Ready(Splice(text, p, to[at], new[at]), s, fr, g, p)
    <3>1. Pieces(ss, s, fr, to, new)
      BY <1>1, SMTT(30)
    <3> HIDE DEF new
    <3> QED
      BY <1>1, <1>3, <1>6, <2>1, <2>2, <3>1, ReadyReplaced
  <2>4. Put(text, Span(s, edits[at])) = Splice(text, p, to[at], new[at])
    BY <1>2, <1>7, <1>10 DEF Put, Splice
  <2> QED
    BY <1>5, <1>10, <2>3, <2>4 DEF p, fr
<1> QED
  BY <1>9, <1>10

LEMMA ReplacedIs ==
  ASSUME NEW s \in Seq(Chars), NEW n \in Nat, NEW edits \in [1 .. n -> EditOf], Valid(s, edits)
  PROVE  Replaced(s, edits) = Meant(s, edits) /\ Replaced(s, edits) \in Seq(Chars)
<1> DEFINE fr == From(s, edits)
           to == Until(s, edits)
           ss == PiecesOf(s, edits)
           m == Len(s)
           Is(f) == f = [k \in 0 .. m |-> IF k = 0 THEN s ELSE Place(s, edits, k, f[k - 1])]
           after == CHOOSE f : Is(f)
<1>1. Replaced(s, edits) = after[m]
  BY DEF Replaced, Place
<1>2. Meant(s, edits) = FlattenSeq(ss)
  BY DEF Meant, PiecesOf
<1>3. Apartness(fr, to, m) /\ ss \in Seq(Seq(Chars)) /\ Pieces(ss, s, fr, to, Putting(edits))
  BY EditsApart, PiecesAre
<1>4. m \in Nat /\ Len(ss) = m
  BY <1>3 DEF Pieces
<1>5. PICK g : Tails(g, Chars, ss)
  <2> HIDE DEF ss
  <2> QED
    BY <1>3, FlattenTails
<1> DEFINE ready(k, text) == Ready(text, s, fr, g, m + 1 - k)
<1>6. ready(0, s)
  <2>1. m + 1 - 0 = m + 1
    BY <1>4
  <2>2. Ready(s, s, fr, g, m + 1)
    <3> HIDE DEF fr, to, ss
    <3> QED
      BY <1>3, <1>4, <1>5, ReadyFirst
  <2> QED
    BY <2>1, <2>2
<1>7. ASSUME NEW k \in 1 .. m, NEW text, ready(k - 1, text)
      PROVE  ready(k, Place(s, edits, k, text))
  BY <1>5, <1>7, PlaceIs
<1>8. ASSUME NEW k \in 0 .. m, NEW text, ready(k, text) PROVE text \in Seq(Chars)
  <2> DEFINE p == m + 1 - k
  <2>1. p \in 1 .. Len(s) + 1 /\ Ready(text, s, fr, g, p)
    BY <1>4, <1>8
  <2> HIDE DEF p, fr, to, ss
  <2> QED
    BY <1>4, <1>5, <2>1, ReadyIsText
<1>9. ASSUME NEW text, ready(m, text) PROVE text = FlattenSeq(ss)
  <2>1. m + 1 - m = 1
    BY <1>4
  <2>2. Ready(text, s, fr, g, 1)
    BY <1>9, <2>1
  <2> DEFINE new == Putting(edits)
  <2>3. Pieces(ss, s, fr, to, new)
    BY <1>3
  <2> HIDE DEF fr, to, ss, new
  <2> QED
    BY <1>3, <1>4, <1>5, <2>2, <2>3, ReadyLast
<1> HIDE DEF m, fr, to, ss, ready
<1> DEFINE takes == [x \in (1 .. m) \X Seq(Chars) |->
                       IF ready(x[1] - 1, x[2]) THEN Place(s, edits, x[1], x[2]) ELSE x[2]]
<1>10. takes \in [(1 .. m) \X Seq(Chars) -> Seq(Chars)]
  <2>1. ASSUME NEW x \in (1 .. m) \X Seq(Chars)
        PROVE  (IF ready(x[1] - 1, x[2]) THEN Place(s, edits, x[1], x[2]) ELSE x[2]) \in Seq(Chars)
    <3>1. x[1] \in 1 .. m /\ x[2] \in Seq(Chars) /\ x[1] \in 0 .. m
      BY <1>4
    <3>2. ready(x[1] - 1, x[2]) => ready(x[1], Place(s, edits, x[1], x[2]))
      BY <1>7, <3>1
    <3> QED
      BY <1>8, <3>1, <3>2
  <2> QED
    BY <2>1
<1>11. PICK f : IteratesTo(f, m, Seq(Chars), s, takes)
  <2> HIDE DEF takes
  <2> QED
    BY <1>4, <1>10, FiniteRecursion
<1>12. /\ f \in [0 .. m -> Seq(Chars)]
       /\ f = [k \in 0 .. m |-> IF k = 0 THEN s ELSE takes[<<k, f[k - 1]>>]]
  <2> HIDE DEF takes
  <2> QED
    BY <1>11 DEF IteratesTo
<1>13. \A k \in 1 .. m : k \in 0 .. m /\ k # 0 /\ k - 1 \in 0 .. m
  BY <1>4
<1>14. ASSUME NEW k \in 1 .. m, ready(k - 1, f[k - 1])
       PROVE  takes[<<k, f[k - 1]>>] = Place(s, edits, k, f[k - 1])
  <2>1. f[k - 1] \in Seq(Chars)
    BY <1>12, <1>13
  <2>2. <<k, f[k - 1]>> \in (1 .. m) \X Seq(Chars)
    BY <2>1
  <2> QED
    BY <1>14, <2>2
<1> HIDE DEF takes
<1> DEFINE T == {k \in Nat : k <= m => ready(k, f[k])}
<1>15. 0 \in T
  <2>1. 0 \in 0 .. m
    BY <1>4
  <2> QED
    BY <1>6, <1>12, <2>1
<1>16. ASSUME NEW k \in Nat, k \in T PROVE k + 1 \in T
  <2> SUFFICES ASSUME k + 1 <= m PROVE ready(k + 1, f[k + 1])
    OBVIOUS
  <2> DEFINE j == k + 1
  <2>1. j \in 1 .. m /\ j - 1 = k /\ ready(j - 1, f[j - 1])
    BY <1>4, <1>16
  <2> HIDE DEF j
  <2>2. f[j] = Place(s, edits, j, f[j - 1])
    BY <1>12, <1>13, <1>14, <2>1
  <2>3. ready(j, f[j])
    BY <1>7, <2>1, <2>2
  <2> QED
    BY <2>3 DEF j
<1>17. \A k \in Nat : k \in T
  <2> HIDE DEF T
  <2> QED
    BY <1>15, <1>16, Induction
<1>18. Is(f)
  <2>1. ASSUME NEW k \in 0 .. m
        PROVE  (IF k = 0 THEN s ELSE takes[<<k, f[k - 1]>>])
                 = (IF k = 0 THEN s ELSE Place(s, edits, k, f[k - 1]))
    <3>1. CASE k # 0
      <4>1. k \in 1 .. m /\ k - 1 \in Nat /\ k - 1 <= m
        BY <1>4, <3>1
      <4>2. ready(k - 1, f[k - 1])
        BY <1>17, <4>1
      <4> QED
        BY <1>14, <4>1, <4>2
    <3> QED
      BY <3>1
  <2>2. [k \in 0 .. m |-> IF k = 0 THEN s ELSE takes[<<k, f[k - 1]>>]]
          = [k \in 0 .. m |-> IF k = 0 THEN s ELSE Place(s, edits, k, f[k - 1])]
    BY <2>1
  <2> QED
    BY <1>12, <2>2
<1>19. Is(after)
  BY <1>18
<1> HIDE DEF after
<1>20. after[0] = s /\ \A k \in 1 .. m : after[k] = Place(s, edits, k, after[k - 1])
  <2>1. 0 \in 0 .. m
    BY <1>4
  <2> QED
    BY <1>13, <1>19, <2>1
<1> DEFINE U == {k \in Nat : k <= m => ready(k, after[k])}
<1>21. 0 \in U
  BY <1>6, <1>20
<1>22. ASSUME NEW k \in Nat, k \in U PROVE k + 1 \in U
  <2> SUFFICES ASSUME k + 1 <= m PROVE ready(k + 1, after[k + 1])
    OBVIOUS
  <2> DEFINE j == k + 1
  <2>1. j \in 1 .. m /\ j - 1 = k /\ ready(j - 1, after[j - 1])
    BY <1>4, <1>22
  <2> HIDE DEF j
  <2>2. ready(j, after[j])
    BY <1>7, <1>20, <2>1
  <2> QED
    BY <2>2 DEF j
<1>23. m \in U
  <2> HIDE DEF U
  <2> QED
    BY <1>4, <1>21, <1>22, Induction
<1>24. ready(m, after[m]) /\ m \in 0 .. m
  BY <1>4, <1>23
<1> QED
  BY <1>1, <1>2, <1>8, <1>9, <1>24 DEF m
------------------------------------------------------------------------------

\* Each character becomes some characters.
LEMMA RewrittenIs ==
  ASSUME NEW s \in Seq(Chars), NEW f, DOMAIN f = DOMAIN s, f = [i \in DOMAIN f |-> f[i]],
         \A i \in 1 .. Len(s) : f[i] \in Seq(Chars)
  PROVE  FlattenSeq(f) \in Seq(Chars)
<1>1. f \in [1 .. Len(s) -> Seq(Chars)]
  OBVIOUS
<1>2. f \in Seq(Seq(Chars))
  BY <1>1
<1> QED
  BY <1>2, FlattenPlaces

LEMMA ReadTextIs ==
  ASSUME NEW s \in Seq(Chars)
  PROVE  ReadText(s) \in Seq(Chars)
<1> DEFINE f == [i \in DOMAIN s |->
                  IF s[i] = "cr" THEN <<"lf">>
                  ELSE IF s[i] = "lf" /\ i > 1 /\ s[i - 1] = "cr" THEN <<>> ELSE <<s[i]>>]
<1>1. DOMAIN f = DOMAIN s /\ f = [i \in DOMAIN f |-> f[i]]
  OBVIOUS
<1>2. ASSUME NEW i \in 1 .. Len(s) PROVE f[i] \in Seq(Chars)
  <2>1. <<"lf">> \in Seq(Chars) /\ <<>> \in Seq(Chars) /\ <<s[i]>> \in Seq(Chars)
    BY FileAssumption
  <2>2. f[i] \in {<<"lf">>, <<>>, <<s[i]>>}
    OBVIOUS
  <2> HIDE DEF f
  <2> QED
    BY <2>1, <2>2
<1>3. ReadText(s) = FlattenSeq(f)
  BY DEF ReadText
<1> HIDE DEF f
<1> QED
  BY <1>1, <1>2, <1>3, RewrittenIs

LEMMA RestoredIs ==
  ASSUME NEW s \in Seq(Chars), NEW ending \in Seq(Chars)
  PROVE  Restored(s, ending) \in Seq(Chars)
<1> DEFINE f == [i \in DOMAIN s |-> IF s[i] = "lf" THEN ending ELSE <<s[i]>>]
<1>1. DOMAIN f = DOMAIN s /\ f = [i \in DOMAIN f |-> f[i]]
  OBVIOUS
<1>2. ASSUME NEW i \in 1 .. Len(s) PROVE f[i] \in Seq(Chars)
  <2>1. <<s[i]>> \in Seq(Chars) /\ f[i] \in {ending, <<s[i]>>}
    OBVIOUS
  <2> HIDE DEF f
  <2> QED
    BY <2>1
<1>3. Restored(s, ending) = FlattenSeq(f)
  BY DEF Restored
<1> HIDE DEF f
<1> QED
  BY <1>1, <1>2, <1>3, RewrittenIs

LEMMA ReplacementsAre ==
  ASSUME NEW edits \in Replacements
  PROVE  \E n \in Nat : edits \in [1 .. n -> EditOf]
<1>1. PICK n \in 1 .. MaxEdits : edits \in [1 .. n -> [old : Olds, new : News]]
  BY DEF Replacements
<1>2. [old : Olds, new : News] \subseteq EditOf
  BY FileAssumption DEF EditOf
<1>3. n \in Nat /\ edits \in [1 .. n -> EditOf]
  BY <1>1, <1>2
<1> QED
  BY <1>3

FileType == file \in Seq(Chars)

LEMMA EditType ==
  ASSUME FileType, NEW edits \in Replacements, Edit(edits)
  PROVE  FileType'
<1> DEFINE raw == ReadText(file)
           content == SubSeq(raw, Len(BOMOf(raw)) + 1, Len(raw))
           text == Normalized(content)
           replacements == [i \in DOMAIN edits |->
                             [old |-> Normalized(edits[i].old), new |-> Normalized(edits[i].new)]]
           result == Replaced(text, replacements)
           ending == Ending(content)
<1>1. Valid(text, replacements) /\ file' = BOMOf(raw) \o Restored(result, ending)
  BY DEF Edit, WriteText
<1>2. raw \in Seq(Chars)
  BY ReadTextIs DEF FileType
<1> HIDE DEF raw
<1>3. BOMOf(raw) \in Seq(Chars) /\ Len(BOMOf(raw)) + 1 \in 1 .. Len(raw) + 1
  <2>1. CASE raw # <<>> /\ Head(raw) = "bom"
    <3>1. BOMOf(raw) = <<"bom">> /\ <<"bom">> \in Seq(Chars) /\ Len(<<"bom">>) = 1
      BY <2>1, FileAssumption DEF BOMOf
    <3>2. Len(raw) \in Nat \ {0}
      BY <1>2, <2>1, EmptySeq
    <3> QED
      BY <3>1, <3>2
  <2>2. CASE ~(raw # <<>> /\ Head(raw) = "bom")
    <3>1. BOMOf(raw) = <<>> /\ <<>> \in Seq(Chars) /\ Len(<<>>) = 0
      BY <2>2 DEF BOMOf
    <3>2. Len(raw) \in Nat
      BY <1>2
    <3> QED
      BY <3>1, <3>2
  <2> QED
    BY <2>1, <2>2
<1>4. content \in Seq(Chars)
  BY <1>2, <1>3
<1>5. text \in Seq(Chars)
  <2> HIDE DEF content
  <2> QED
    BY <1>4, ReadTextIs DEF Normalized
<1>6. ending \in Seq(Chars)
  <2>1. <<"cr", "lf">> \in Seq(Chars) /\ <<"lf">> \in Seq(Chars)
    BY FileAssumption
  <2> HIDE DEF content
  <2> QED
    BY <2>1 DEF Ending
<1>7. PICK n \in Nat : edits \in [1 .. n -> EditOf]
  BY ReplacementsAre
<1>8. replacements \in [1 .. n -> EditOf]
  <2>1. ASSUME NEW i \in 1 .. n
        PROVE  [old |-> Normalized(edits[i].old), new |-> Normalized(edits[i].new)] \in EditOf
    <3>1. edits[i].old \in Seq(Chars) /\ edits[i].new \in Seq(Chars)
      BY <1>7 DEF EditOf
    <3>2. Normalized(edits[i].old) \in Seq(Chars) /\ Normalized(edits[i].new) \in Seq(Chars)
      BY <3>1, ReadTextIs DEF Normalized
    <3> QED
      BY <3>2 DEF EditOf
  <2>2. DOMAIN edits = 1 .. n
    BY <1>7
  <2> QED
    BY <2>1, <2>2
<1> HIDE DEF content, text, replacements, ending
<1>9. result \in Seq(Chars)
  BY <1>1, <1>5, <1>7, <1>8, ReplacedIs
<1> HIDE DEF result
<1>10. Restored(result, ending) \in Seq(Chars)
  BY <1>6, <1>9, RestoredIs
<1> QED
  BY <1>1, <1>3, <1>10, ConcatProperties DEF FileType

LEMMA FileHolds == Spec => []FileType
<1>1. Init => FileType
  <2>1. <<>> \in Seq(Chars) /\ Texts \subseteq Seq(Chars)
    BY FileAssumption
  <2> QED
    BY <2>1 DEF Init, NoFiles, FilesInit, FileType
<1>2. FileType /\ [Next]_vars => FileType'
  <2> SUFFICES ASSUME FileType, [Next]_vars PROVE FileType'
    OBVIOUS
  <2>1. UNCHANGED file \/ EditNext
    BY DEF Next, vars, fileVars, ReadNext, Read
  <2>2. CASE UNCHANGED file
    BY <2>2 DEF FileType
  <2>3. ASSUME NEW edits \in Replacements, Edit(edits) PROVE FileType'
    BY <2>3, EditType
  <2>4. ASSUME NEW content \in News, Write(content) PROVE FileType'
    BY <2>4, FileAssumption DEF Write, WriteText, FileType
  <2> QED
    BY <2>1, <2>2, <2>3, <2>4 DEF EditNext
<1> QED
  BY <1>1, <1>2, PTL DEF Spec

\* apply_edits_to_normalized_content replaces from the last match on, and so writes what the
\* replacements mean together: every match is where it was in the text that was read, whatever
\* the lengths of the replacements, their number and the order they are given in.
THEOREM EditsAreSimultaneous == Spec => []EditIsSimultaneous
<1>1. FileType => EditIsSimultaneous
  <2> SUFFICES ASSUME FileType, NEW edits \in Replacements, Valid(ReadText(file), edits)
               PROVE  Replaced(ReadText(file), edits) = Meant(ReadText(file), edits)
    BY DEF EditIsSimultaneous
  <2> DEFINE text == ReadText(file)
  <2>1. text \in Seq(Chars)
    BY ReadTextIs DEF FileType
  <2>2. PICK n \in Nat : edits \in [1 .. n -> EditOf]
    BY ReplacementsAre
  <2>3. Valid(text, edits)
    OBVIOUS
  <2> HIDE DEF text
  <2>4. Replaced(text, edits) = Meant(text, edits)
    BY <2>1, <2>2, <2>3, ReplacedIs
  <2> QED
    BY <2>4 DEF text
<1> QED
  BY <1>1, FileHolds, PTL
================================================================================
