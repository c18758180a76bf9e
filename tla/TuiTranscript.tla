---------------------------- MODULE TuiTranscript ----------------------------
(***************************************************************************)
(* The rows of the conversation in the terminal application: the events of *)
(* a prompt are projected one by one onto a list of rows (tui/adapter.py,  *)
(* tui/state.py) and onto the mounted widgets (TranscriptView) by the      *)
(* worker of the prompt (tui/app.py), while the user types commands,       *)
(* scrolls, interrupts and reopens the session.  Reopening projects the    *)
(* messages of the session at once: the two projections must agree.        *)
(***************************************************************************)
EXTENDS TranscriptView, Selection

CONSTANTS
  MaxRows,      \* bound: rows ever made
  MaxDeltas,    \* bound: fragments streamed in one message
  MaxCalls,     \* bound: tool calls of one message
  MaxReplies,   \* bound: assistant messages of the whole behaviour
  MaxActs       \* bound: acts of the user besides prompts

ASSUME TranscriptAssumption == {MaxRows, MaxDeltas, MaxCalls, MaxReplies, MaxActs} \subseteq Nat

VARIABLES
  items,      \* state.items
  made,       \* rows made so far, which gives each its identity
  buffer,     \* fragments in state.assistant_buffer
  start,      \* _assistant_start_item_index, -1 for None
  overflow,   \* blocks of _pending_overflow_error, <<>> in a singleton, {} for None
  running,    \* state.running
  thinking,   \* state.show_thinking
  pending,    \* the optimistic message that waits for its confirmation, 0 for none
  messages,   \* the messages of the session
  phase,      \* what session.prompt yields next
  streamed,   \* kinds of the fragments of the message that is streamed
  todo,       \* calls of the last message that have not started
  open,       \* calls that have started and not ended
  shell,      \* item_index of the terminal command that runs, 0 for none
  view,       \* the TranscriptView
  acts,       \* acts of the user so far
  meddled,    \* rows were changed under a message or a command in progress
  torn        \* the view was rebuilt while a message streamed

transcriptVars == <<items, made, buffer, start, overflow, running, thinking, pending, messages, phase,
          streamed, todo, open, shell, view, acts, meddled, torn>>

Row(id, role, c) == [id |-> id, role |-> role, c |-> c]
ReplyStarts(blocks, calls, stop) == [kind |-> "assistant", n |-> 0, blocks |-> blocks, calls |-> calls, stop |-> stop]
User(n) == [kind |-> "user", n |-> n, blocks |-> <<>>, calls |-> 0, stop |-> "stop"]
Result(call) == [kind |-> "result", n |-> call, blocks |-> <<>>, calls |-> 0, stop |-> "stop"]

\* Several rows [role, c] after the present ones.
AddTo(rows, first, new) ==
  rows \o [i \in DOMAIN new |-> Row(first + i, new[i].role, new[i].c)]
Pair(role, a, b) == [role |-> role, c |-> <<a, b>>]

\* add_assistant_message: the visible blocks; tool calls only when it is asked for.
BlockRows(blocks) == [i \in DOMAIN blocks |-> Pair(blocks[i][1], blocks[i][2], 0)]
CallRows(first, calls) == [i \in 1 .. calls |-> Pair("tool", first + i, 0)]
ErrorRows(blocks) == Append(BlockRows(blocks), Pair("error", 0, 0))

\* Calls are numbered over the session in the order they are asked for.
CallsOf(history) ==
  LET calls[n \in 0 .. Len(history)] == IF n = 0 THEN 0 ELSE calls[n - 1] + history[n].calls
  IN calls[Len(history)]

\* record_tool_result: the row of the call, or a row of its own.
Answered(rows, call) ==
  LET at == SelectLastInSeq(rows, LAMBDA r : r.role = "tool" /\ r.c[1] = call)
  IN IF at = 0 THEN Append(rows, Pair("tool", call, 1)) ELSE [rows EXCEPT ![at].c = <<call, 1>>]

\* load_messages: the whole session at once.
Replayed(history) ==
  LET Add(a, m) ==
        IF m.kind = "user" THEN [a EXCEPT !.rows = Append(@, Pair("user", m.n, 0))]
        ELSE IF m.kind = "result" THEN [a EXCEPT !.rows = Answered(@, m.n)]
        ELSE IF m.stop # "stop"
          THEN [a EXCEPT !.rows = @ \o ErrorRows(m.blocks), !.calls = @ + m.calls]
          ELSE [rows |-> a.rows \o BlockRows(m.blocks) \o CallRows(a.calls, m.calls),
                       calls |-> a.calls + m.calls]
      after[n \in 0 .. Len(history)] ==
        IF n = 0 THEN [rows |-> <<>>, calls |-> 0] ELSE Add(after[n - 1], history[n])
  IN after[Len(history)].rows

TranscriptInit ==
  /\ items = <<>> /\ made = 0 /\ buffer = 0 /\ start = -1 /\ overflow = {} /\ running = FALSE
  /\ thinking \in BOOLEAN
  /\ pending = 0 /\ messages = <<>> /\ phase = "idle" /\ streamed = <<>> /\ todo = <<>>
  /\ open = {} /\ shell = 0 /\ view = EmptyView /\ acts = 0 /\ meddled = FALSE /\ torn = FALSE

Streaming == start # -1
sessionVars == <<messages, phase, streamed, todo, open>>

\* New rows, and the view as it is after them.
NewRows(new) == made + Len(new) <= MaxRows /\ made' = made + Len(new) /\ items' = AddTo(items, made, new)
LastRow == items'[Len(items')]
Redisplay(text) == view' = Refreshed(view, items', text, thinking)

\* A rebuild between MessageStart and MessageEnd mounts provisional rows as
\* rows like any other; the next rebuild outside a message heals it.
Torn == torn' = Streaming

\* _append_optimistic_user_message: the row and its widget, followed.
UserRow(n) ==
  /\ NewRows(<<Pair("user", n, 0)>>)
  /\ view' = RowAppended([view EXCEPT !.follow = TRUE], items', LastRow, buffer, thinking, TRUE)

PromptsMade == {1, 2}     \* texts: an ordinary one, and one that starts with a slash
Sent == Len(SelectSeq(messages, LAMBDA m : m.kind = "user"))

\* _submit_prompt; a slash text that is no command is shown once it is confirmed.
SubmitPrompt(text) ==
  /\ phase = "idle" /\ ~running
  /\ Cardinality({i \in DOMAIN messages : messages[i].kind = "assistant"}) < MaxReplies
  /\ phase' = "sent"
  /\ IF text = 1 THEN pending' = text /\ UserRow(text) ELSE pending' = 0 /\ UNCHANGED <<items, made, view>>
  /\ UNCHANGED <<buffer, start, overflow, running, thinking, messages, streamed, todo, open, shell, acts,
                 meddled, torn>>

\* Seeded fault: a transformed prompt is shown beside the original.
ReplaceOptimisticByAppending(n) == UserRow(n)

\* _replace_transformed_optimistic_user_message: rewritten where it stands.
ReplaceOptimistic(n) ==
  LET at == SelectLastInSeq(items, LAMBDA r : r.role = "user" /\ r.c[1] = pending)
  IN /\ items' = IF at = 0 THEN items ELSE [items EXCEPT ![at].c = <<n, 0>>]
     /\ Redisplay(buffer) /\ UNCHANGED made

\* The run starts and the first user message is confirmed: as it was sent, or
\* as an input hook or the expansion of a template made it.
ConfirmPrompt ==
  /\ phase = "sent" /\ running' = TRUE /\ phase' = "asked"
  /\ \E n \in {1, 2} :
       /\ messages' = Append(messages, User(n))
       /\ \/ n = pending /\ UNCHANGED <<items, made, view>>
          \/ n = 2 /\ pending = 1 /\ ReplaceOptimistic(n)
          \/ n = 2 /\ pending = 0 /\ UserRow(n)
  /\ pending' = 0
  /\ UNCHANGED <<buffer, start, overflow, thinking, streamed, todo, open, shell, acts, meddled, torn>>

\* A steering or follow-up message the loop takes in between two replies.
Steer ==
  /\ phase = "asked" /\ messages[Len(messages)].kind # "user"
  /\ messages' = Append(messages, User(1)) /\ UserRow(1)
  /\ UNCHANGED <<buffer, start, overflow, running, thinking, pending, phase, streamed, todo, open,
                 shell, acts, meddled, torn>>

MessageStart ==
  /\ phase = "asked" /\ phase' = "stream" /\ streamed' = <<>>
  /\ Cardinality({i \in DOMAIN messages : messages[i].kind = "assistant"}) < MaxReplies
  /\ buffer' = 0 /\ start' = Len(items)
  /\ UNCHANGED <<items, made, overflow, running, thinking, pending, messages, todo, open, shell, acts,
                 view, meddled, torn>>

\* A text fragment only fills the buffer; the widget shows it at once.
TextDelta ==
  /\ phase = "stream" /\ Len(streamed) < MaxDeltas
  /\ streamed' = Append(streamed, "assistant") /\ buffer' = buffer + 1
  /\ view' = TextStreamed(view, items)
  /\ UNCHANGED <<items, made, start, overflow, running, thinking, pending, messages, phase, todo,
                 open, shell, acts, meddled, torn>>

\* add_thinking_delta: extends the last row if it is thinking, whoever made it.
ThinkingDelta ==
  /\ phase = "stream" /\ Len(streamed) < MaxDeltas
  /\ streamed' = Append(streamed, "thinking")
  /\ IF items # <<>> /\ items[Len(items)].role = "thinking"
       THEN items' = [items EXCEPT ![Len(items)].c[1] = @ + 1] /\ UNCHANGED made
       ELSE NewRows(<<Pair("thinking", 1, 0)>>)
  /\ view' = ThinkingStreamed(view, items', thinking)
  /\ UNCHANGED <<buffer, start, overflow, running, thinking, pending, messages, phase, todo, open,
                 shell, acts, meddled, torn>>

\* The blocks of the finished message: fragments of one kind that follow each
\* other make a block; some providers put the thinking first.
Blocks(kinds) ==
  LET Grown(bs, k) == IF bs # <<>> /\ bs[Len(bs)][1] = k
                        THEN [bs EXCEPT ![Len(bs)][2] = @ + 1] ELSE Append(bs, <<k, 1>>)
      blocks[n \in 0 .. Len(kinds)] == IF n = 0 THEN <<>> ELSE Grown(blocks[n - 1], kinds[n])
  IN blocks[Len(kinds)]
Sorted(kinds) == Among(kinds, {"thinking"}) \o Among(kinds, {"assistant"})
Finals == {Blocks(streamed), Blocks(Sorted(streamed))}

\* del items[start:], then the canonical blocks in their place.
Canonical(new) ==
  /\ made + Len(new) <= MaxRows /\ made' = made + Len(new)
  /\ items' = AddTo(IF Streaming THEN SubSeq(items, 1, Least(start, Len(items))) ELSE items, made, new)

MessageOver ==
  /\ phase = "stream" /\ streamed' = <<>> /\ buffer' = 0 /\ start' = -1

\* The widgets of a finished message: several blocks, or any thinking, replace
\* the tail; a single text goes into the widget it was streamed to.
FinishedView(blocks) ==
  LET n == Len(blocks)
      rows == SubSeq(items', Len(items') - n + 1, Len(items'))
  IN view' = IF n > 1 \/ \E i \in 1 .. n : blocks[i][1] = "thinking"
               THEN BlocksFinished(view, items', rows, 0, thinking)
               ELSE TextFinished(view, items', {rows[i] : i \in 1 .. n}, 0, thinking)

MessageEnd ==
  /\ MessageOver
  /\ \E blocks \in Finals, calls \in 0 .. MaxCalls :
       /\ Canonical(BlockRows(blocks)) /\ FinishedView(blocks)
       /\ todo' = [i \in 1 .. calls |-> CallsOf(messages) + i]
       /\ messages' = Append(messages, ReplyStarts(blocks, calls, "stop"))
       /\ phase' = IF calls > 0 THEN "tools" ELSE "ended"
  /\ overflow' = {} /\ torn' = (torn \/ view.hi < start)
  /\ UNCHANGED <<running, thinking, pending, open, shell, acts, meddled>>

\* A failed message: its blocks and an error row.
MessageFailed ==
  /\ MessageOver /\ phase' = "ended" /\ running' = FALSE
  /\ \E blocks \in Finals :
       /\ Canonical(ErrorRows(blocks))
       /\ messages' = Append(messages, ReplyStarts(blocks, 0, "error"))
  /\ Redisplay(0) /\ torn' = FALSE /\ overflow' = {}
  /\ UNCHANGED <<thinking, pending, todo, open, shell, acts, meddled>>

\* A context overflow: the error waits for the outcome of the compaction.
MessageOverflowed ==
  /\ MessageOver /\ phase' = "overflow"
  /\ \E blocks \in Finals :
       /\ Canonical(<<>>) /\ overflow' = {blocks}
       /\ messages' = Append(messages, ReplyStarts(blocks, 0, "error"))
  /\ Redisplay(0) /\ torn' = FALSE
  /\ UNCHANGED <<running, thinking, pending, todo, open, shell, acts, meddled>>

\* CompactionStart, the compaction that fails, and its error on display.  (A
\* compaction that works replaces the messages and leaves the rows: the two
\* are then not meant to agree, see the README.)
OverflowStands ==
  /\ phase = "overflow" /\ phase' = "ended" /\ overflow' = {}
  /\ \E blocks \in overflow : NewRows(<<Pair("status", 0, 0)>> \o ErrorRows(blocks))
  /\ Redisplay(buffer) /\ torn' = FALSE
  /\ UNCHANGED <<buffer, start, running, thinking, pending, messages, streamed, todo, open, shell, acts,
                 meddled>>

\* _flush of what was streamed, then the row of the call.
ToolStart ==
  /\ phase = "tools" /\ todo # <<>>
  /\ todo' = Tail(todo) /\ open' = open \cup {Head(todo)}
  /\ NewRows(<<Pair("tool", Head(todo), 0)>>)
  /\ view' = RowAppended(TextFinished(view, items', {}, 0, thinking), items', LastRow, buffer, thinking, FALSE)
  /\ UNCHANGED <<buffer, start, overflow, running, thinking, pending, messages, phase, streamed,
                 shell, acts, meddled, torn>>

\* record_tool_result and the refresh of its widget.
ToolEnd(call) ==
  LET at == SelectLastInSeq(items, LAMBDA r : r.role = "tool" /\ r.c[1] = call)
  IN /\ phase = "tools" /\ call \in open /\ open' = open \ {call}
     /\ IF at > 0
          THEN items' = [items EXCEPT ![at].c = <<call, 1>>] /\ view' = RowUpdated(view, items'[at])
               /\ UNCHANGED <<made, torn>>
          ELSE NewRows(<<Pair("tool", call, 1)>>) /\ torn' = TRUE /\ UNCHANGED view
     /\ UNCHANGED <<buffer, start, overflow, running, thinking, pending, messages, phase, streamed,
                    todo, shell, acts, meddled>>

\* The results are recorded in the order of the calls, and the loop goes on.
ToolsDone ==
  LET calls == messages[Len(messages)].calls
      last == CallsOf(messages)
  IN /\ phase = "tools" /\ todo = <<>> /\ open = {}
     /\ messages' = messages \o [i \in 1 .. calls |-> Result(last - calls + i)]
     /\ phase' = "asked"
     /\ UNCHANGED <<items, made, buffer, start, overflow, running, thinking, pending, streamed, todo,
                    open, shell, acts, view, meddled, torn>>

\* SessionAgentEnd and agent_settled; the loop may also stop before a reply.
SettleRun ==
  /\ phase \in {"ended", "asked"} /\ phase' = "idle" /\ running' = FALSE /\ pending' = 0
  /\ view' = TextFinished(view, items, {}, 0, thinking)
  /\ UNCHANGED <<items, made, buffer, start, overflow, thinking, messages, streamed, todo, open, shell, acts,
                 meddled, torn>>

Act == acts < MaxActs /\ acts' = acts + 1

\* _append_command_message: a row of a command, at any time.
CommandRow ==
  /\ Act /\ NewRows(<<Pair("status", 0, 0)>>)
  /\ Redisplay(buffer) /\ Torn
  /\ meddled' = (meddled \/ Streaming)
  /\ UNCHANGED <<buffer, start, overflow, running, thinking, pending, shell, sessionVars>>

\* _run_terminal_command: its row, then, when it ends, the row that is at the
\* same index, whatever it is by then.
TerminalStart ==
  /\ Act
  /\ shell = 0 /\ shell' = Len(items) + 1
  /\ NewRows(<<Pair("shell", 0, 0)>>)
  /\ view' = RowAppended([view EXCEPT !.follow = TRUE], items', LastRow, buffer, thinking, TRUE)
  /\ meddled' = (meddled \/ Streaming) /\ torn' = (torn \/ Streaming)
  /\ UNCHANGED <<buffer, start, overflow, running, thinking, pending, sessionVars>>
TerminalEnd ==
  /\ shell # 0 /\ shell' = 0
  /\ IF shell <= Len(items)
       THEN items' = [items EXCEPT ![shell].c = <<0, 1>>] /\ view' = RowUpdated(view, items'[shell])
       ELSE UNCHANGED <<items, view>>
  /\ UNCHANGED <<made, buffer, start, overflow, running, thinking, pending, acts, meddled, torn, sessionVars>>

\* /clear: the rows go, the session stays.
Clear ==
  /\ Act
  /\ items # <<>> /\ items' = <<>> /\ buffer' = 0
  /\ Redisplay(0) /\ Torn /\ meddled' = TRUE
  /\ UNCHANGED <<made, start, overflow, running, thinking, pending, shell, sessionVars>>

\* _cancel_active_prompt: the worker ends here, and what it shows stays.
EscapeRun ==
  /\ Act
  /\ phase # "idle" /\ phase' = "idle" /\ running' = FALSE /\ buffer' = 0 /\ pending' = 0
  /\ view' = Refreshed(view, items, 0, thinking) /\ Torn /\ meddled' = TRUE
  /\ streamed' = <<>> /\ todo' = <<>> /\ open' = {}
  /\ UNCHANGED <<items, made, start, overflow, thinking, messages, shell>>

\* The session is opened again: a resume, a branch or the end of a compaction.
Reopen ==
  LET rows == Replayed(messages)
  IN /\ Act /\ phase = "idle" /\ made + Len(rows) <= MaxRows /\ made' = made + Len(rows)
     /\ items' = AddTo(<<>>, made, rows) /\ buffer' = 0
     /\ Redisplay(0) /\ torn' = FALSE /\ meddled' = (shell # 0)
     /\ UNCHANGED <<start, overflow, running, thinking, pending, shell, sessionVars>>

\* action_toggle_thinking.
ToggleThinking ==
  /\ Act
  /\ thinking' = ~thinking /\ view' = ThinkingToggled(view, items, thinking')
  /\ torn' = (torn \/ Streaming)
  /\ UNCHANGED <<items, made, buffer, start, overflow, running, pending, shell, meddled, sessionVars>>

\* The user scrolls, and the window that was asked to move does.
Scroll ==
  /\ Act
  /\ \/ \E toEnd \in BOOLEAN : view' = ScrolledUp(view, items, toEnd)
     \/ view' = ScrolledDown(view, items)
  /\ UNCHANGED <<items, made, buffer, start, overflow, running, thinking, pending, shell, meddled,
                 torn, sessionVars>>
ShiftWindow ==
  /\ view.shift # "none" /\ view' = Shifted(view, items, buffer, thinking)
  /\ torn' = (IF view'.dom = view.dom THEN torn ELSE Streaming)
  /\ UNCHANGED <<items, made, buffer, start, overflow, running, thinking, pending, shell, acts, meddled,
                 sessionVars>>

TranscriptNext ==
  \/ \E text \in PromptsMade : SubmitPrompt(text)
  \/ ConfirmPrompt \/ Steer \/ MessageStart \/ TextDelta \/ ThinkingDelta
  \/ MessageEnd \/ MessageFailed \/ MessageOverflowed \/ OverflowStands
  \/ ToolStart \/ \E call \in open : ToolEnd(call)
  \/ ToolsDone \/ SettleRun \/ CommandRow \/ TerminalStart \/ TerminalEnd \/ Clear \/ EscapeRun \/ Reopen
  \/ ToggleThinking \/ Scroll \/ ShiftWindow


\* What the rows say of the conversation: identities, and the rows of commands
\* and of the application itself, left out.
Conversation(rows) ==
  FlattenSeq([i \in DOMAIN rows |->
    IF rows[i].role \in {"status", "shell"} THEN <<>>
    ELSE <<Pair(rows[i].role, rows[i].c[1], rows[i].c[2])>>])

\* At rest the rows that were made event by event are those that reopening the
\* session makes (TuiEventAdapter.apply against TuiState.load_messages): no
\* message twice, none missing, every result at its call.
LiveIsReplay ==
  phase = "idle" /\ ~meddled => Conversation(items) = Conversation(Replayed(messages))

\* What is mounted, adjacent placeholders taken together.
VisibleRows(dom) ==
  FoldLeft(LAMBDA a, w : IF w.hint /\ a # <<>> /\ a[Len(a)] = Hint THEN a
                         ELSE Append(a, [w EXCEPT !.tail = FALSE]), <<>>, dom)

\* Between two messages the widgets show the rows of the window in order, each
\* once and with its present content, and never many more than a window; a view
\* that follows shows them to the end
\* (TranscriptView: incremental mounting against _redraw).
ShowsWindow ==
  ~Streaming /\ ~torn =>
    /\ view.follow /\ ~view.bottom => VisibleRows(view.dom) = VisibleRows(Rendered(SubSeq(items, view.lo + 1, Len(items)), thinking))
    /\ Len(view.dom) <= Window + Overscan + 1
    /\ \E hi \in view.lo .. Len(items) :
         VisibleRows(view.dom) = VisibleRows(Rendered(SubSeq(items, view.lo + 1, hi), thinking))
=============================================================================
