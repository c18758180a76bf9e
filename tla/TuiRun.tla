------------------------------- MODULE TuiRun -------------------------------
(***************************************************************************)
(* What the terminal application lets run at the same time (tui/app.py):   *)
(* the worker of a prompt, prompts queued from the editor or by an         *)
(* extension, manual and automatic compactions, and sessions opened in     *)
(* the place of the present one.  All of them act on one CodingSession     *)
(* object, whose harness, message list and journal they look up anew at    *)
(* every step, while a run keeps the harness and the list it started with. *)
(***************************************************************************)
EXTENDS Integers, FiniteSets, SequencesExt

CONSTANTS
  Sessions,    \* sessions of the index
  MaxPrompts,  \* bound: prompts
  MaxLists,    \* bound: message lists, so replacements of one by another
  MaxOpens     \* bound: sessions opened

ASSUME RunAssumption ==
  {MaxPrompts, MaxOpens} \subseteq Nat /\ MaxLists \in Nat \ {0} /\ Sessions # {}

Prompts == 1 .. MaxPrompts

VARIABLES
  stage,       \* where each prompt is; see Stages
  inline,      \* prompts that the queueing handler runs, not a worker
  run,         \* per prompt's run: its harness and list, its persisted_count, the messages it confirmed
  lists,       \* the message lists of the harnesses, by number
  now,         \* the session object: its journal, its harness, the harness's list
  busyHarness, \* harnesses whose _running is set
  queue,       \* prompts in the queue of each harness
  journal,     \* what is persisted of each session
  shown,       \* state.running
  current,     \* the prompt whose _prompt_run_id is the present one, 0 for none
  worker,      \* the prompt of _prompt_worker, 0 for None
  compacting,  \* the manual compaction: "no" or "summary"
  opening,     \* the sessions that workers are loading, at most one
  opens,       \* sessions opened so far
  home,        \* the session each run started in
  openedUnder, \* a session was opened while a prompt was under way
  lateQueue    \* a prompt was queued from the editor when no run was left

runVars == <<stage, inline, run, lists, now, busyHarness, queue, journal, shown, current, worker,
          compacting, opening, opens, home, openedUnder, lateQueue>>
Stages == {"none", "hooks", "limits", "asked", "replied", "closing", "after", "compact",
           "queued", "done", "refused", "interrupted", "displaced"}

First == CHOOSE s \in Sessions : TRUE

RunInit ==
  /\ stage = [p \in Prompts |-> "none"] /\ inline = {}
  /\ run = [p \in Prompts |-> [harness |-> 0, list |-> 0, count |-> 0, said |-> 0]]
  /\ lists = << <<>> >> /\ now = [session |-> First, harness |-> 1, list |-> 1]
  /\ busyHarness = {} /\ queue = [l \in 1 .. MaxLists |-> {}]
  /\ journal = [s \in Sessions |-> <<>>]
  /\ shown = FALSE /\ current = 0 /\ worker = 0 /\ compacting = "no" /\ opening = {} /\ opens = 0
  /\ home = [p \in Prompts |-> First] /\ openedUnder = FALSE /\ lateQueue = FALSE

\* A prompt under way, and one whose run has the harness.
UnderWay(p) == stage[p] \in {"hooks", "limits", "asked", "replied", "closing", "after", "compact"}
InRun(p) == stage[p] \in {"asked", "replied"}

\* The handler that queues a prompt is awaited by the application's own loop:
\* no other input is handled meanwhile.
Handling == \E p \in inline : UnderWay(p)

\* A worker that is cancelled stops where it waits; a run closes its harness
\* first.  Who cancels decides what became of the prompt.
Cancelled(p, as) == IF InRun(p) THEN "closing" ELSE IF stage[p] \in {"hooks", "limits"} THEN as ELSE "done"

\* _submit_prompt: run_worker(exclusive=True) cancels every worker of the
\* default group, those that compact or open a session as well.
StartWorker(p) ==
  /\ stage' = [q \in Prompts |-> IF q = p THEN "hooks"
                 ELSE IF UnderWay(q) /\ q \notin inline /\ stage[q] # "closing"
                   THEN Cancelled(q, "displaced") ELSE stage[q]]
  /\ opening' = {} /\ compacting' = "no" /\ worker' = p /\ current' = p

Next1(p) == stage[p] = "none" /\ \A q \in 1 .. p - 1 : stage[q] # "none"

\* _submit_prompt_from_editor: held back by a manual compaction, queued while
\* the application shows a run.
Submit(p) ==
  /\ Next1(p) /\ ~Handling /\ compacting = "no"
  /\ IF shown
       THEN /\ stage' = [stage EXCEPT ![p] = "hooks"] /\ inline' = inline \cup {p}
            /\ UNCHANGED <<opening, compacting, worker, current>>
       ELSE StartWorker(p) /\ UNCHANGED inline
  /\ UNCHANGED <<run, lists, now, busyHarness, queue, journal, shown, opens, home, openedUnder, lateQueue>>

\* _deliver_extension_message: queued with a run that is active or about to be,
\* else a prompt of its own, whatever else is going on.
ExtensionTurn(p) ==
  /\ Next1(p) /\ ~Handling
  /\ IF now.harness \in busyHarness \/ worker # 0
       THEN /\ stage' = [stage EXCEPT ![p] = "queued"]
            /\ queue' = [queue EXCEPT ![now.harness] = @ \cup {p}]
            /\ UNCHANGED <<opening, compacting, worker, current>>
       ELSE StartWorker(p) /\ UNCHANGED queue
  /\ UNCHANGED <<inline, run, lists, now, busyHarness, journal, shown, opens, home, openedUnder, lateQueue>>

\* The prompt worker is over: its entry is cleared if it is the present one.
WorkerOver(p) == worker' = IF current = p THEN 0 ELSE worker

\* CodingSession.prompt after the input hooks: an active harness takes a queued
\* prompt and refuses any other.
AfterHooks(p) ==
  /\ stage[p] = "hooks"
  /\ IF now.harness \notin busyHarness
       THEN /\ stage' = [stage EXCEPT ![p] = "limits"]
            /\ lateQueue' = (lateQueue \/ p \in inline)
            /\ UNCHANGED <<queue, worker, shown>>
     ELSE IF p \in inline
       THEN /\ stage' = [stage EXCEPT ![p] = "queued"]
            /\ queue' = [queue EXCEPT ![now.harness] = @ \cup {p}]
            /\ UNCHANGED <<worker, shown, lateQueue>>
     ELSE /\ stage' = [stage EXCEPT ![p] = "refused"] /\ WorkerOver(p)
          /\ shown' = (shown /\ current # p) /\ UNCHANGED <<queue, lateQueue>>
  /\ UNCHANGED <<inline, run, lists, now, busyHarness, journal, current, compacting, opening, opens,
                 home, openedUnder>>

\* replace_messages: the harness of the session gets a new list.
NewList(messages) ==
  /\ Len(lists) < MaxLists /\ lists' = Append(lists, messages)
  /\ now' = [now EXCEPT !.list = Len(lists) + 1]

\* _try_auto_compact before the prompt, which takes time of its own.
CompactBefore(p) ==
  /\ stage[p] = "limits" /\ NewList(<<>>)
  /\ UNCHANGED <<stage, inline, run, busyHarness, queue, journal, shown, current, worker, compacting,
                 opening, opens, home, openedUnder, lateQueue>>

\* Seeded fault: what was in the list before the run is persisted again.
PersistAll(count) ==
  LET list == lists'[now.list]
  IN journal' = [journal EXCEPT ![now.session] = @ \o list]

\* _persist_messages_since: from the present list to the present journal.
PersistSince(count) ==
  LET list == lists'[now.list]
  IN journal' = [journal EXCEPT ![now.session] = @ \o SubSeq(list, count + 1, Len(list))]
Counted(count) == Max({count, Len(lists'[now.list])})

\* prompt_message: the run takes the harness and its list, and the user message
\* is confirmed and persisted.
Start(p) ==
  /\ stage[p] = "limits"
  /\ IF now.harness \in busyHarness
       THEN /\ stage' = [stage EXCEPT ![p] = "refused"] /\ WorkerOver(p)
            /\ shown' = (shown /\ current # p)
            /\ UNCHANGED <<run, lists, busyHarness, journal, home>>
       ELSE LET count == Len(lists[now.list])
            IN /\ lists' = [lists EXCEPT ![now.list] = Append(@, <<p, 0>>)]
               /\ PersistSince(count)
               /\ run' = [run EXCEPT ![p] = [harness |-> now.harness, list |-> now.list,
                                                      count |-> count + 1, said |-> 0]]
               /\ busyHarness' = busyHarness \cup {now.harness}
               /\ stage' = [stage EXCEPT ![p] = "asked"] /\ home' = [home EXCEPT ![p] = now.session]
               /\ shown' = (shown \/ p \in inline \/ current = p)
               /\ UNCHANGED worker
  /\ UNCHANGED <<inline, now, queue, current, compacting, opening, opens, openedUnder, lateQueue>>

\* The loop appends to its own list; the session persists from its present one.
Confirm(p, messages) ==
  /\ lists' = [lists EXCEPT ![run[p].list] = @ \o messages]
  /\ PersistSince(run[p].count)
  /\ run' = [run EXCEPT ![p].count = Counted(@), ![p].said = @ + 1]

Reply(p) ==
  /\ stage[p] = "asked" /\ stage' = [stage EXCEPT ![p] = "replied"]
  /\ Confirm(p, << <<p, run[p].said + 1>> >>)
  /\ UNCHANGED <<inline, now, busyHarness, queue, shown, current, worker, compacting, opening, opens,
                 home, openedUnder, lateQueue>>

\* The loop takes in a queued prompt before it ends.
TakeQueued(p, q) ==
  /\ stage[p] = "replied" /\ q \in queue[run[p].harness]
  /\ queue' = [queue EXCEPT ![run[p].harness] = @ \ {q}]
  /\ stage' = [stage EXCEPT ![p] = "asked", ![q] = "done"]
  /\ Confirm(p, << <<q, 0>> >>)
  /\ home' = [home EXCEPT ![q] = home[p]]
  /\ UNCHANGED <<inline, now, busyHarness, shown, current, worker, compacting, opening, opens,
                 openedUnder, lateQueue>>

\* The run is over and the harness free; the session may still compact.
RunEnds(p) ==
  /\ stage[p] = "replied" /\ queue[run[p].harness] = {}
  /\ stage' = [stage EXCEPT ![p] = "after"]
  /\ busyHarness' = busyHarness \ {run[p].harness}
  /\ UNCHANGED <<inline, run, lists, now, queue, journal, shown, current, worker, compacting, opening,
                 opens, home, openedUnder, lateQueue>>

\* _try_auto_compact after the prompt: the plan, and much later the new list.
CompactAfterBegins(p) ==
  /\ stage[p] = "after" /\ stage' = [stage EXCEPT ![p] = "compact"]
  /\ UNCHANGED <<inline, run, lists, now, busyHarness, queue, journal, shown, current, worker,
                 compacting, opening, opens, home, openedUnder, lateQueue>>

\* AgentSettled: seen by a worker whose run is the present one, and by a
\* handler in any case.
Settle(p) ==
  /\ stage' = [stage EXCEPT ![p] = "done"]
  /\ shown' = (shown /\ p \notin inline /\ current # p)
  /\ WorkerOver(p)
CompactAfterEnds(p) ==
  /\ stage[p] = "compact" /\ NewList(<<>>) /\ Settle(p)
  /\ UNCHANGED <<inline, run, busyHarness, queue, journal, current, compacting, opening, opens, home,
                 openedUnder, lateQueue>>
Settled(p) ==
  /\ stage[p] \in {"after", "compact"} /\ Settle(p)
  /\ UNCHANGED <<inline, run, lists, now, busyHarness, queue, journal, current, compacting, opening,
                 opens, home, openedUnder, lateQueue>>

\* The generators of a cancelled run are closed, and the harness with them.
Closed(p) ==
  /\ stage[p] = "closing" /\ stage' = [stage EXCEPT ![p] = "interrupted"]
  /\ busyHarness' = busyHarness \ {run[p].harness}
  /\ UNCHANGED <<inline, run, lists, now, queue, journal, shown, current, worker, compacting, opening,
                 opens, home, openedUnder, lateQueue>>

\* Seeded fault: the application shows the run until it has closed.
InterruptShown(p) ==
  /\ stage' = [stage EXCEPT ![p] = Cancelled(p, "interrupted")]
  /\ current' = 0 /\ worker' = 0 /\ UNCHANGED shown

\* _cancel_active_prompt.
Interrupt(p) ==
  /\ stage' = [stage EXCEPT ![p] = Cancelled(p, "interrupted")]
  /\ current' = 0 /\ worker' = 0 /\ shown' = FALSE
NothingToInterrupt ==
  /\ shown' = FALSE /\ current' = 0 /\ UNCHANGED <<stage, worker>>
CancelPrompt ==
  \/ worker # 0 /\ Interrupt(worker)
  \/ worker = 0 /\ NothingToInterrupt

\* action_cancel: a manual compaction first.
Escape ==
  /\ ~Handling
  /\ IF compacting # "no" THEN compacting' = "no" /\ UNCHANGED <<stage, worker, current, shown>>
     ELSE /\ shown \/ now.harness \in busyHarness \/ worker # 0
          /\ CancelPrompt /\ UNCHANGED compacting
  /\ UNCHANGED <<inline, run, lists, now, busyHarness, queue, journal, opening, opens, home,
                 openedUnder, lateQueue>>

\* _is_agent_or_queue_active.
AgentActive == shown \/ now.harness \in busyHarness \/ worker # 0 \/ queue[now.harness] # {}

\* /compact, and its end in whatever session there is by then.
Compact ==
  /\ ~Handling /\ compacting = "no" /\ ~AgentActive /\ compacting' = "summary"
  /\ UNCHANGED <<stage, inline, run, lists, now, busyHarness, queue, journal, shown, current, worker,
                 opening, opens, home, openedUnder, lateQueue>>
CompactEnds ==
  /\ compacting = "summary" /\ compacting' = "no" /\ NewList(<<>>)
  /\ UNCHANGED <<stage, inline, run, busyHarness, queue, journal, shown, current, worker, opening,
                 opens, home, openedUnder, lateQueue>>

\* A session is opened: by the picker, which is only kept back while a run is
\* shown, or by /resume, which waits for a compaction but for no run.
Open(s) ==
  /\ ~Handling /\ opening = {} /\ opens < MaxOpens
  /\ ~shown \/ compacting = "no"
  /\ opening' = {s} /\ opens' = opens + 1
  /\ UNCHANGED <<stage, inline, run, lists, now, busyHarness, queue, journal, shown, current, worker,
                 compacting, home, openedUnder, lateQueue>>

\* _adopt_replacement: the journal is read, and the session object is another one.
Adopt(s) ==
  /\ s \in opening /\ opening' = {}
  /\ Len(lists) < MaxLists /\ lists' = Append(lists, journal[s])
  /\ now' = [session |-> s, harness |-> Len(lists) + 1, list |-> Len(lists) + 1]
  /\ openedUnder' = (openedUnder \/ \E p \in Prompts : UnderWay(p))
  /\ UNCHANGED <<stage, inline, run, busyHarness, queue, journal, shown, current, worker, compacting,
                 opens, home, lateQueue>>

Work(p) ==
  \/ AfterHooks(p) \/ Start(p) \/ Reply(p) \/ RunEnds(p) \/ Settled(p) \/ Closed(p)
  \/ \E q \in Prompts : TakeQueued(p, q)
RunNext ==
  \/ \E p \in Prompts : Submit(p) \/ ExtensionTurn(p) \/ CompactBefore(p) \/ CompactAfterBegins(p)
                        \/ CompactAfterEnds(p) \/ Work(p)
  \/ Escape \/ Compact \/ CompactEnds
  \/ \E s \in Sessions : Open(s) \/ Adopt(s)

\* Workers are tasks of the event loop: what they await comes, or fails.
RunFairness == \A p \in Prompts : WF_runVars(Work(p))

\* The messages the loops have confirmed.
Confirmed == UNION {ToSet(lists[i]) : i \in DOMAIN lists}

\* "Every final message is persisted as soon as it is confirmed": it is in the
\* journal of the session its run began in, once, and in no other
\* (CodingSession._persist_messages_since).
Persisted ==
  \A m \in Confirmed : \A s \in Sessions :
    Cardinality({i \in DOMAIN journal[s] : journal[s][i] = m}) = (IF s = home[m[1]] THEN 1 ELSE 0)

\* The two ways out of it there are: a session opened under a prompt, and a
\* prompt queued when the run is over but not settled.  No order of submitting,
\* queueing, interrupting and compacting alone loses a message.
KeptUnlessSwapped == ~openedUnder /\ ~lateQueue => Persisted

\* A run that is shown is over some day: no event that is ignored, no worker
\* that is cancelled leaves the application working for ever.
StopsWorking == shown ~> ~shown
=============================================================================
