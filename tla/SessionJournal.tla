---------------------------- MODULE SessionJournal ----------------------------
(***************************************************************************)
(* How a coding session keeps its transcript on disk: CodingSession in     *)
(* src/src/le_agent_coding/session.py over the append-only entry tree of   *)
(* src/src/le_agent/session/.                                              *)
(*                                                                         *)
(* There are two copies of the conversation.  The harness holds a list of  *)
(* messages that a run appends to; the journal holds entries with parent   *)
(* pointers, and the path to the newest leaf, with compactions applied, is *)
(* what a restart reads back.  A run copies the list to the journal every  *)
(* time a message ends.  This module asks when the two agree.              *)
(*                                                                         *)
(* The run is the loop of module AgentLoop, reduced to what it appends and *)
(* to the message-end events at which the session writes.                  *)
(***************************************************************************)
EXTENDS Integers, Sequences, FiniteSets, SequencesExt

CONSTANTS
  Scenes,           \* what may happen in a behaviour, and how much of it
  MaxCompactions,   \* bound: compactions started
  MaxBranches       \* bound: branch_to_entry calls

ASSUME JournalBounds == MaxCompactions \in Nat /\ MaxBranches \in Nat
ASSUME JournalScenes ==
  Scenes \subseteq [
    made : Nat,           \* bound: user and assistant messages
    calls : Nat,          \* bound: tool calls of one assistant message
    crashes : Nat,        \* bound: process deaths
    cancels : BOOLEAN,    \* the user may cancel a run
    raises : BOOLEAN,     \* an exception may leave a run (disk full, provider bug)
    overlap : BOOLEAN,    \* prompts are accepted while a session is settling
    terminal : BOOLEAN]   \* terminal output is added to the context, between runs

VARIABLES
  scene,        \* the member of Scenes of this behaviour
  journal,      \* entries of the session file; an entry's id is its position
  head,         \* _last_parent_id, 0 for none
  memory,       \* the list the harness calls _messages
  detached,     \* the running loop appends to another list than memory
  old,          \* that other list
  pc,           \* where the run is suspended, or "idle", or "down"
  reply,        \* assistant message of the current turn
  done,         \* its results that are in the transcript
  persisted,    \* persisted_count of the run
  added,        \* messages the run added, in order
  overflow,     \* "watched": the run is a prompt's, and a context overflow would be
                \* retried; "seen": it had one; "unwatched" otherwise
  settling,     \* compactions whose summary is awaited
  made,         \* user and assistant messages made so far
  compactions, branches, crashes

run == <<pc, reply, done, persisted, added, overflow>>
bounds == <<compactions, branches, crashes>>
journalVars == <<journal, head, memory, detached, old, run, settling, made, bounds, scene>>

------------------------------------------------------------------------------
(* Messages.  For an assistant n is its number of calls, for a result the  *)
(* number of the call it answers, for a summary the entry that holds it.   *)

Msg(role, id, n) == [role |-> role, id |-> id, n |-> n]
UserMessage == Msg("user", made + 1, 0)
Summary(entry) == Msg("summary", 0, entry)
NoReply == Msg("assistant", 0, 0)

\* UserMessage of messages.py: prompts, and summaries as they are replayed.
IsUser(m) == m.role \in {"user", "summary"}

ResultsFor(m) == [j \in 1 .. m.n |-> Msg("result", m.id, j)]

\* The results missing for the message at p, unless an earlier copy got them.
Owed(t, p) ==
  IF t[p].role = "assistant" /\ \A q \in 1 .. p - 1 : t[q] # t[p]
  THEN LET rs == ResultsFor(t[p])
       IN  FlattenSeq([j \in DOMAIN rs |-> IF rs[j] \in ToSet(t) THEN <<>> ELSE <<rs[j]>>])
  ELSE <<>>

\* AgentHarness._append_interrupted_tool_results: missing results at the end.
Repaired(t) == t \o FlattenSeq([p \in DOMAIN t |-> Owed(t, p)])

\* _interrupted_tool_repair_plan: missing results behind their assistant message.
RepairedInPlace(t) == FlattenSeq([p \in DOMAIN t |-> <<t[p]>> \o Owed(t, p)])

------------------------------------------------------------------------------
(* The journal *)

MessageEntry(parent, m) == [kind |-> "message", parent |-> parent, msg |-> m]
LeafEntry(target) == [kind |-> "leaf", parent |-> target, target |-> target]
CompactionEntry(parent, ids) == [kind |-> "compaction", parent |-> parent, replaces |-> ids]

\* _apply_compaction: the summary takes the place of the first replaced row, or
\* the end when none of the replaced ones is on the path.
Compacted(rows, id, replaces) ==
  LET gone == {p \in DOMAIN rows : rows[p].id \in replaces}
      row == [id |-> id, msg |-> Summary(id)]
      at(p) == IF p \notin gone THEN <<rows[p]>>
               ELSE IF \A q \in gone : p <= q THEN <<row>> ELSE <<>>
  IN  IF gone = {} THEN Append(rows, row)
      ELSE FlattenSeq([p \in DOMAIN rows |-> at(p)])

\* SessionState.from_entries on the path from the root to leaf: the rows of the
\* context, each with the entry it comes from.
Rows(j, leaf) ==
  LET upTo[e \in 0 .. Len(j)] ==
        IF e = 0 THEN <<>>
        ELSE LET before == upTo[j[e].parent]
             IN  IF j[e].kind = "message" THEN Append(before, [id |-> e, msg |-> j[e].msg])
                 ELSE IF j[e].kind = "compaction" THEN Compacted(before, e, j[e].replaces)
                 ELSE before
  IN  upTo[leaf]

Messages(rows) == [p \in DOMAIN rows |-> rows[p].msg]
Context(j, leaf) == Messages(Rows(j, leaf))

\* Seeded fault: the oldest leaf instead of the latest.
LatestLeafOldest(j) ==
  LET leaves == {e \in DOMAIN j : j[e].kind = "leaf"}
  IN  IF leaves = {} THEN Len(j)
      ELSE j[CHOOSE e \in leaves : \A f \in leaves : e <= f].target

\* _latest_leaf_entry; a journal without one is replayed to its last entry.
LatestLeaf(j) ==
  LET leaves == {e \in DOMAIN j : j[e].kind = "leaf"}
  IN  IF leaves = {} THEN Len(j)
      ELSE j[CHOOSE e \in leaves : \A f \in leaves : f <= e].target

\* The entries written for the messages ms behind parent, each with its leaf.
Chain(base, parent, ms) ==
  FlattenSeq([k \in DOMAIN ms |->
    <<MessageEntry(IF k = 1 THEN parent ELSE base + 2 * k - 3, ms[k]),
      LeafEntry(base + 2 * k - 1)>>])

Unsaved(t, count) == SubSeq(t, count + 1, Len(t))

\* _persist_messages_since, for a transcript t: one uninterrupted step.
Persist(t, count) ==
  LET new == Unsaved(t, count)
  IN  /\ journal' = journal \o Chain(Len(journal), head, new)
      /\ head' = IF new = <<>> THEN head ELSE Len(journal) + 2 * Len(new) - 1

JournalInit ==
  /\ scene \in Scenes
  /\ journal = <<>>
  /\ head = 0
  /\ memory = <<>>
  /\ detached = FALSE
  /\ old = <<>>
  /\ pc = "idle"
  /\ reply = NoReply
  /\ done = 0
  /\ persisted = 0
  /\ added = <<>>
  /\ overflow = "unwatched"
  /\ settling = <<>>
  /\ made = 0
  /\ compactions = 0
  /\ branches = 0
  /\ crashes = 0

------------------------------------------------------------------------------
(* What a compaction replaces *)

\* _next_user_message_index, or nothing.
UserFrom(rows, start) == {p \in start .. Len(rows) : IsUser(rows[p].msg)}
Least(S) == CHOOSE p \in S : \A q \in S : p <= q

\* Seeded fault: the kept part begins wherever the token budget is reached.
FirstKeptAnywhere(rows, candidate) == candidate

\* _first_recent_context_index: the first row that is kept when the rows from
\* candidate on hold the tokens to keep; 1 when nothing can be compacted.
FirstKept(rows, candidate) ==
  IF IsUser(rows[candidate].msg) /\ candidate > 1 THEN candidate
  ELSE IF UserFrom(rows, candidate + 1) # {} THEN Least(UserFrom(rows, candidate + 1))
  ELSE IF IsUser(rows[candidate].msg) THEN 1
  ELSE Least({p \in candidate .. Len(rows) : rows[p].msg.role # "result"} \cup {Len(rows) + 1})

\* _recent_preserving_compaction_plan and _manual_compaction_plan: the entries a
\* compaction replaces, a prefix of the context or all of it.
Prefix(rows, n) == {rows[p].id : p \in 1 .. n}
RecentPreserving(rows) ==
  IF Len(rows) < 2 THEN {}
  ELSE {Prefix(rows, FirstKept(rows, c) - 1) : c \in DOMAIN rows} \ {{}}
Whole(rows) == {Prefix(rows, Len(rows))} \ {{}}

------------------------------------------------------------------------------
(* A run *)

\* Nothing is under way.  A front end takes prompts then; TuiApp also hands one to
\* session.prompt while the session is still settling, for it to be queued.
Settled == pc = "idle" /\ settling = <<>> /\ overflow # "seen"
Accepting == Settled \/ (pc = "idle" /\ overflow # "seen" /\ scene.overlap)

\* AgentHarness.prompt_message and continue_: persisted_count is read first, then
\* the transcript is repaired and the new messages are added.
Launch(t, new) ==
  /\ persisted' = Len(t)
  /\ memory' = Repaired(t) \o new
  /\ added' = SubSeq(memory', Len(t) + 1, Len(memory'))
  /\ pc' = "open"
  /\ reply' = NoReply
  /\ done' = 0
  /\ overflow' = IF new = <<>> THEN "unwatched" ELSE "watched"

\* Without a run there is one list.
Attach == detached' = FALSE /\ old' = <<>>

\* prompt, when no compaction is due first.
Prompt ==
  /\ Accepting
  /\ made < scene.made
  /\ made' = made + 1
  /\ Launch(memory, <<UserMessage>>)
  /\ UNCHANGED <<journal, head, detached, old, settling, bounds>>

\* continue_
Continue ==
  /\ Settled
  /\ memory # <<>>
  /\ Launch(memory, <<>>)
  /\ UNCHANGED <<journal, head, detached, old, settling, made, bounds>>

\* What the loop's list holds, and the loop adding messages to it.
LoopList == IF detached THEN old ELSE memory

Add(ms) ==
  /\ added' = added \o ms
  /\ IF detached
     THEN old' = old \o ms /\ UNCHANGED memory
     ELSE memory' = memory \o ms /\ UNCHANGED old
  /\ UNCHANGED detached

\* A MessageEndEvent reaches the session, which writes what the transcript has
\* beyond persisted_count.  The ending message itself may not be there yet.
Ended(t) ==
  /\ Persist(t, persisted)
  /\ persisted' = persisted + Len(Unsaved(t, persisted))

\* The opening events: the prompt is confirmed and written.  A continued run has
\* no prompt, and writes nothing here.
Open ==
  /\ pc = "open"
  /\ pc' = "provider"
  /\ IF added # <<>> /\ Last(added).role = "user"
     THEN Ended(memory)
     ELSE UNCHANGED <<journal, head, persisted>>
  /\ UNCHANGED <<memory, detached, old, reply, done, added, overflow, settling, made, bounds>>

\* A steering message enters the transcript and is confirmed, or a follow-up in
\* place of the end.
Inject ==
  /\ pc = "provider" \/ (pc = "ending" /\ reply.n = 0 /\ overflow # "seen")
  /\ pc' = "provider"
  /\ made < scene.made
  /\ made' = made + 1
  /\ Add(<<UserMessage>>)
  /\ Ended(memory')
  /\ UNCHANGED <<reply, done, overflow, settling, bounds>>

\* The assistant message ends: it is shown and enters the transcript when the
\* loop is resumed.  One with a context overflow has no calls and ends the run.
CanCompact == compactions < MaxCompactions

Answer ==
  /\ pc = "provider"
  /\ made < scene.made
  /\ made' = made + 1
  /\ \E n \in 0 .. scene.calls : reply' = Msg("assistant", made + 1, n)
  /\ overflow' \in {overflow} \cup (IF overflow = "watched" /\ reply'.n = 0 /\ CanCompact
                                   THEN {"seen"} ELSE {})
  /\ pc' = "answered"
  /\ done' = 0
  /\ Ended(memory)
  /\ UNCHANGED <<memory, detached, old, added, settling, bounds>>

\* The calls of a reply that failed are not executed.
TakeAnswer ==
  /\ pc = "answered"
  /\ Add(<<reply>>)
  /\ pc' \in {"ending"} \cup (IF reply.n = 0 THEN {} ELSE {"tools"})
  /\ UNCHANGED <<journal, head, reply, done, persisted, overflow, settling, made, bounds>>

\* The next result ends; it, too, enters the transcript on resumption.
ShowResult ==
  /\ pc = "tools"
  /\ pc' = "shown"
  /\ Ended(memory)
  /\ UNCHANGED <<memory, detached, old, reply, done, added, overflow, settling, made, bounds>>

StoreResult ==
  /\ pc = "shown"
  /\ Add(<<Msg("result", reply.id, done + 1)>>)
  /\ done' = done + 1
  /\ pc' = IF done' = reply.n THEN "provider" ELSE "tools"
  /\ UNCHANGED <<journal, head, reply, persisted, overflow, settling, made, bounds>>

\* Seeded fault: nothing is written after the last event.
EndRunUnsaved ==
  /\ pc = "ending"
  /\ pc' = "idle"
  /\ Attach
  /\ overflow' = "unwatched"
  /\ UNCHANGED <<journal, head, persisted, memory, reply, done, added, settling, made, bounds>>

\* The loop is exhausted: a last write, then the session settles or compacts.
EndRun ==
  /\ pc = "ending"
  /\ pc' = "idle"
  /\ Ended(memory)
  /\ Attach
  /\ overflow' = IF overflow = "seen" /\ RecentPreserving(Rows(journal', head')) # {}
                 THEN "seen" ELSE "unwatched"
  /\ UNCHANGED <<memory, reply, done, added, settling, made, bounds>>

\* Escape: the signal is set and the worker cancelled.  The harness repairs the
\* transcript on its way out; nothing is written.
Cancel ==
  /\ scene.cancels
  /\ pc \notin {"idle", "down"}
  /\ pc' = "idle"
  /\ memory' = Repaired(memory)
  /\ overflow' = "unwatched"
  /\ Attach
  /\ UNCHANGED <<journal, head, reply, done, persisted, added, settling, made,
                 bounds>>

\* An exception, of a provider or of a write that failed, ends the run: nothing
\* is repaired and nothing more is written.
Raise ==
  /\ scene.raises
  /\ pc \notin {"idle", "down"}
  /\ pc' = "idle"
  /\ overflow' = "unwatched"
  /\ Attach
  /\ UNCHANGED <<journal, head, memory, reply, done, persisted, added, settling, made, bounds>>

\* run_terminal_command with add_to_context: the output joins the harness's list
\* and is written at once.  (During a run it is possible, too, and is not modelled.)
TerminalOutput ==
  /\ scene.terminal /\ pc = "idle"
  /\ made < scene.made
  /\ made' = made + 1
  /\ memory' = Append(memory, UserMessage)
  /\ Persist(memory', Len(memory))
  /\ UNCHANGED <<detached, old, run, settling, bounds>>

------------------------------------------------------------------------------
(* Compaction and branching *)

\* A summary is requested, and awaited; what comes after it depends on the caller.
\* prompt compacts before its run and goes on to it, or after an overflow and
\* retries; the compaction after a run and the one the user asks for just settle.
StartCompaction ==
  /\ CanCompact
  /\ compactions' = compactions + 1
  /\ \E ids \in RecentPreserving(Rows(journal, head)) \cup Whole(Rows(journal, head)),
        next \in {"settle", "prompt", "retry"} :
       /\ next = "settle" => Settled
       /\ next = "prompt" => Accepting
       /\ next = "retry" => pc = "idle" /\ overflow = "seen"
       /\ next # "settle" => ids \in RecentPreserving(Rows(journal, head))
       /\ settling' = Append(settling, [replaces |-> ids, next |-> next])
  /\ overflow' = "unwatched"
  /\ UNCHANGED <<journal, head, memory, detached, old, pc, reply, done, persisted, added,
                 made, branches, crashes>>

\* The prompt or the retry that follows, on the transcript t.  The harness refuses
\* a second run: the prompt, or the retry, is lost.
Proceed(next, t) ==
  \/ /\ next = "prompt"
     /\ pc = "idle"
     /\ made < scene.made
     /\ made' = made + 1
     /\ Launch(t, <<UserMessage>>)
  \/ /\ next = "retry"
     /\ pc = "idle"
     /\ Launch(t, <<>>)
     /\ UNCHANGED made
  \/ /\ next = "settle" \/ pc # "idle"
     /\ memory' = t
     /\ UNCHANGED <<run, made>>

Forget(k) == settling' = RemoveAt(settling, k)

\* _append_compaction: the entry and its leaf, and the harness gets a new list.  A
\* loop that is running keeps the one it has.
FinishCompaction ==
  \E k \in DOMAIN settling :
    LET id == Len(journal) + 1
        new == journal \o <<CompactionEntry(head, settling[k].replaces), LeafEntry(id)>>
    IN  /\ journal' = new
        /\ head' = id
        /\ Proceed(settling[k].next, Context(new, id))
        /\ detached' = (pc # "idle")
        /\ old' = IF pc = "idle" THEN <<>> ELSE LoopList
        /\ Forget(k)
        /\ UNCHANGED bounds

\* The summary fails: nothing is compacted.  A prompt is sent all the same, an
\* overflow is not retried.  A cancelled worker sends nothing.
AbandonCompaction ==
  \E k \in DOMAIN settling :
    /\ \/ settling[k].next = "prompt" /\ Proceed("prompt", memory)
       \/ /\ settling[k].next # "prompt" \/ scene.cancels
          /\ UNCHANGED <<memory, run, made>>
    /\ UNCHANGED <<detached, old>>
    /\ Forget(k)
    /\ UNCHANGED <<journal, head, bounds>>

\* branch_to_entry without a summary: a new leaf on an old entry; a user message
\* is left again, to be edited.
Branch ==
  /\ Settled
  /\ branches < MaxBranches
  /\ branches' = branches + 1
  /\ \E e \in DOMAIN journal :
       LET user == journal[e].kind = "message" /\ journal[e].msg.role = "user"
           target == IF user THEN journal[e].parent ELSE e
       IN  /\ journal[e].kind # "leaf"
           /\ journal[e].kind = "message" => journal[e].msg.role # "result"
           /\ journal' = Append(journal, LeafEntry(target))
           /\ head' = target
           /\ memory' = Context(journal', target)
  /\ UNCHANGED <<detached, old, run, settling, made, compactions, crashes>>

------------------------------------------------------------------------------
(* Crash and restart *)

\* What a write in progress has added when the process dies in the middle of it.
Writing ==
  LET all == Chain(Len(journal), head, Unsaved(memory, persisted))
  IN  {<<>>}
        \cup {SubSeq(all, 1, k) : k \in (IF pc = "idle" THEN {} ELSE DOMAIN all)}
        \cup {<<CompactionEntry(head, settling[k].replaces)>> : k \in DOMAIN settling}

\* The process dies, between two entries of a write if it comes to that.  head is
\* kept to remember what had been written before.
Crash ==
  /\ pc # "down"
  /\ crashes < scene.crashes
  /\ crashes' = crashes + 1
  /\ \E tail \in Writing : journal' = journal \o tail
  /\ pc' = "down"
  /\ memory' = <<>>
  /\ settling' = <<>>
  /\ overflow' = "unwatched"
  /\ Attach
  /\ UNCHANGED <<head, reply, done, persisted, added, made, compactions, branches>>

\* _persist_loaded_interrupted_tool_repairs: the repaired transcript leaves the
\* stored path behind their common prefix, as a new branch with one leaf.
Repair(rows) ==
  LET t == Messages(rows)
      fixed == RepairedInPlace(t)
      same == Least({p \in 0 .. Len(t) : p = Len(t) \/ t[p + 1] # fixed[p + 1]})
      id(k) == Len(journal) + k
      entries == [k \in 1 .. Len(fixed) - same |->
                    MessageEntry(IF k = 1 THEN rows[same].id ELSE id(k - 1), fixed[same + k])]
  IN  IF fixed = t THEN <<>> ELSE Append(entries, LeafEntry(id(Len(entries))))

\* CodingSession.load: the latest leaf, its context, and the repair of it.
Load ==
  LET leaf == LatestLeaf(journal)
      repair == Repair(Rows(journal, leaf))
  IN  /\ pc = "down"
      /\ pc' = "idle"
      /\ journal' = journal \o repair
      /\ head' = LatestLeaf(journal')
      /\ memory' = Context(journal', head')
      /\ UNCHANGED <<detached, old, reply, done, persisted, added, overflow, settling, made,
                     bounds>>

\* The process dies while it writes the repair.
CrashInLoad ==
  LET repair == Repair(Rows(journal, LatestLeaf(journal)))
  IN  /\ pc = "down"
      /\ crashes < scene.crashes
      /\ crashes' = crashes + 1
      /\ \E k \in DOMAIN repair : journal' = journal \o SubSeq(repair, 1, k)
      /\ UNCHANGED <<head, memory, detached, old, run, settling, made, compactions, branches>>

------------------------------------------------------------------------------

Run ==
  \/ Open \/ Inject \/ Answer \/ TakeAnswer \/ ShowResult \/ StoreResult \/ EndRun

JournalNext ==
  /\ \/ Prompt \/ Continue \/ Run \/ Cancel \/ Raise \/ TerminalOutput
     \/ StartCompaction \/ FinishCompaction \/ AbandonCompaction \/ Branch
     \/ Crash \/ Load \/ CrashInLoad
  /\ UNCHANGED scene

------------------------------------------------------------------------------
(* Properties *)

Is(t, role) == {p \in DOMAIN t : t[p].role = role}

\* Every assistant message is followed at once by the results of its calls, in any
\* order, and there are no other results.
Closed(t) ==
  /\ \A p \in Is(t, "assistant") :
       ToSet(SubSeq(t, p + 1, p + t[p].n)) = ToSet(ResultsFor(t[p]))
  /\ Cardinality(Is(t, "result")) =
       Cardinality({c \in Is(t, "assistant") \X (1 .. scene.calls) : c[2] <= t[c[1]].n})

\* Nobody cancels, nothing raises, the front end waits until the session has settled, and no
\* terminal output is added.  Output can come between a reply whose calls were not executed,
\* or were left behind by a branch, and the results that a later run repairs it with.
Calm == ~(scene.cancels \/ scene.raises \/ scene.overlap \/ scene.terminal)

\* A restart brings back every message that had been written to the branch that
\* was active when the process died, or a summary that was written in its place;
\* and in a calm session what it loads has the results of every call directly behind
\* it, wherever the old process died.
Said(t) == {m \in ToSet(t) : m.role # "summary"}
SummedUp(t) ==
  LET replaced == UNION {journal[t[p].n].replaces : p \in Is(t, "summary")}
  IN  {journal[e].msg : e \in {e \in replaced : journal[e].kind = "message"}}

RestartIsSound ==
  [][Load => /\ Said(Context(journal, head)) \subseteq Said(memory') \cup SummedUp(memory')
             /\ Calm => Closed(memory')]_journalVars

\* When a run ends by itself, the branch on disk ends with the messages the run
\* added, each of them once and in their order, unless a compaction took its
\* transcript away.
RunIsStored == [][EndRun /\ ~detached => IsSuffix(added, Context(journal', head'))]_journalVars

\* Every call of a provider is made with results directly behind their calls,
\* through compaction, branching and restart, in a calm session.
ClosedBeforeProvider == pc = "provider" /\ Calm => Closed(LoopList)

\* A compaction is for good: a restart adds results to the context it finds, and
\* never brings back a message that had been replaced by a summary.
CompactionIsForGood ==
  [][Load => \A m \in Said(memory') :
               m.role = "result" \/ m \in Said(Context(journal, LatestLeaf(journal)))]_journalVars
==============================================================================
