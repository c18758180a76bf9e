----------------------------- MODULE TreePicker -----------------------------
(***************************************************************************)
(* The session tree picker: what entries of a session can be branched from *)
(* and in which order they are listed (session.py, tree_choices), and the  *)
(* screen that lists them (tui/app.py, TreePickerScreen).  The screen is   *)
(* told of a selection by a message, and redraws its list in a task of its *)
(* own when tool calls are hidden or shown, so keys and redrawing overlap. *)
(***************************************************************************)
EXTENDS Integers, FiniteSets, SequencesExt, Selection

CONSTANTS
  Trees,       \* sessions: sequences of [parent, kind], an entry being known by its place
  MaxToggles   \* bound: times the tool calls are hidden or shown

\* Entries are appended after their parents; an entry may lack its parent, which is 0 for a root
\* and negative when it is not in the file.
ASSUME TreeAssumption ==
  /\ MaxToggles \in Nat
  /\ Trees \subseteq Seq([parent : Int, kind : STRING])
  /\ \A t \in Trees : \A i \in 1 .. Len(t) : t[i].parent < i

VARIABLES
  entries,    \* the entries of the session but its leaf markers
  activeLeaf, \* the active leaf
  showTools,  \* show_tool_calls
  rows,       \* the rows of the list: [entry, dying]
  cursor,     \* its index from 1, 0 for None
  toggles,    \* the tasks that redraw the list: [stage, keep]
  toggled,    \* how many there were
  picked,     \* a Selected message under way: its index, and the entry that was highlighted
  asking,     \* the same of the choice for which instructions are asked for
  lit,        \* the same entry, of the choice that closed the picker
  stirred,    \* a choice was made while the list was redrawn, or the other way round
  branch      \* the entry branched from, 0 for none yet, -1 for cancelled, -2 for an error

pickerVars == <<entries, activeLeaf, showTools, rows, cursor, toggles, toggled, picked, asking, lit,
                stirred, branch>>

\* --- session.py ---
Children(t, p) == Among([i \in 1 .. Len(t) |-> i], {i \in 1 .. Len(t) : t[i].parent = p})

\* append_descendants, one turn of its loop: an entry is expanded once; its children are listed
\* together, and pushed so that the first of them comes next.
Visit(t, s) ==
  IF s.stack = <<>> THEN s
  ELSE IF Last(s.stack) \in s.expanded THEN [s EXCEPT !.stack = Front(s.stack)]
  ELSE LET kids == Children(t, Last(s.stack)) IN
       [stack |-> Front(s.stack) \o Reverse(kids), expanded |-> s.expanded \cup {Last(s.stack)},
        out |-> s.out \o Among(kids, (1 .. Len(t)) \ ToSet(s.out))]

\* An entry is pushed by its one parent, so the loop ends after so many turns.
Descend(t, p, s) ==
  LET after[k \in 0 .. Len(t) + 1] ==
        IF k = 0 THEN [s EXCEPT !.stack = <<p>>] ELSE LET r == after[k - 1] IN Visit(t, r)
  IN after[Len(t) + 1]

\* _ordered_tree_entries: from the roots, then from every entry not yet listed.
OrderedEntries(t) ==
  LET nothing == [stack |-> <<>>, expanded |-> {}, out |-> <<>>]
      listing[i \in 0 .. Len(t)] ==
        IF i = 0 THEN Descend(t, 0, nothing)
        ELSE LET s == listing[i - 1] IN
             IF Contains(s.out, i) THEN s ELSE Descend(t, i, [s EXCEPT !.out = Append(s.out, i)])
  IN listing[Len(t)].out

\* _tree_branch_indents: one more for each sibling that is not the first.
Indents(t) ==
  LET indent[i \in 1 .. Len(t)] ==
        (IF t[i].parent > 0 THEN indent[t[i].parent] ELSE 0)
        + (IF Children(t, t[i].parent)[1] = i THEN 0 ELSE 1)
  IN indent

Branchable(t, i) == t[i].kind \in {"user", "assistant", "calls", "summary"}
IsToolCall(t, i) == t[i].kind = "calls"
TreeChoices == Among(OrderedEntries(entries), {i \in DOMAIN entries : Branchable(entries, i)})

\* --- TreePickerScreen ---
ListedEntries(show) ==
  IF show THEN TreeChoices ELSE Among(TreeChoices, {i \in DOMAIN entries : ~IsToolCall(entries, i)})
RowsOf(show) == [i \in 1 .. Len(ListedEntries(show)) |-> [entry |-> ListedEntries(show)[i], dying |-> FALSE]]

\* _tree_choice_index: the entry to keep, else the active one, else the first.
IndexOf(list, keep) ==
  IF list = <<>> THEN 0
  ELSE IF keep # 0 /\ Contains(list, keep) THEN SelectInSeq(list, LAMBDA i : i = keep)
  ELSE IF Contains(list, activeLeaf) THEN SelectInSeq(list, LAMBDA i : i = activeLeaf)
  ELSE 1

Nothing == [at |-> 0, entry |-> 0]

PickerInit ==
  /\ entries \in Trees /\ activeLeaf \in 1 .. Len(entries) /\ TreeChoices # <<>>
  /\ showTools = TRUE /\ rows = RowsOf(TRUE) /\ cursor = IndexOf(ListedEntries(TRUE), 0)
  /\ toggles = <<>> /\ toggled = 0 /\ picked = Nothing /\ asking = Nothing
  /\ lit = 0 /\ stirred = FALSE /\ branch = 0

IsOpen == branch = 0
Choosing == stirred' = (stirred \/ toggles # <<>>)
Listens == IsOpen /\ asking = Nothing
Highlighted == IF cursor \in 1 .. Len(rows) THEN rows[cursor].entry ELSE 0

MoveCursor ==
  /\ Listens /\ cursor # 0 /\ cursor' \in {cursor - 1, cursor + 1} \cap 1 .. Len(rows)
  /\ UNCHANGED <<entries, activeLeaf, showTools, rows, toggles, toggled, picked, asking, lit, branch, stirred>>

\* Enter: the list posts a message, on_list_view_selected looks its index up when it comes.
SelectCursor ==
  /\ Listens /\ picked = Nothing /\ Highlighted # 0
  /\ Choosing /\ picked' = [at |-> cursor, entry |-> Highlighted]
  /\ UNCHANGED <<entries, activeLeaf, showTools, rows, cursor, toggles, toggled, asking, lit, branch>>
EntryAt(i) == IF i \in 1 .. Len(ListedEntries(showTools)) THEN ListedEntries(showTools)[i] ELSE -2
Selected ==
  /\ IsOpen /\ picked # Nothing /\ branch' = EntryAt(picked.at) /\ lit' = picked.entry
  /\ picked' = Nothing
  /\ UNCHANGED <<entries, activeLeaf, showTools, rows, cursor, toggles, toggled, asking, stirred>>

\* S, and C, which asks for instructions in a screen of its own.
SelectWithSummary ==
  /\ Listens /\ cursor # 0 /\ Choosing /\ branch' = EntryAt(cursor) /\ lit' = Highlighted
  /\ UNCHANGED <<entries, activeLeaf, showTools, rows, cursor, toggles, toggled, picked, asking>>
SelectWithCustomSummary ==
  /\ Listens /\ cursor # 0 /\ Choosing /\ asking' = [at |-> cursor, entry |-> Highlighted]
  /\ UNCHANGED <<entries, activeLeaf, showTools, rows, cursor, toggles, toggled, picked, lit, branch>>
DismissWithCustomSummary(given) ==
  /\ IsOpen /\ asking # Nothing /\ asking' = Nothing /\ lit' = asking.entry
  /\ branch' = IF given /\ asking.at <= Len(ListedEntries(showTools)) THEN EntryAt(asking.at) ELSE 0
  /\ UNCHANGED <<entries, activeLeaf, showTools, rows, cursor, toggles, toggled, picked, stirred>>

\* Ctrl+T starts a task, and so does the next Ctrl+T before the first has ended.
ToggleToolCalls ==
  /\ Listens /\ toggled < MaxToggles /\ toggled' = toggled + 1
  /\ stirred' = (stirred \/ picked # Nothing)
  /\ toggles' = Append(toggles, [stage |-> "flip", keep |-> 0])
  /\ UNCHANGED <<entries, activeLeaf, showTools, rows, cursor, picked, asking, lit, branch>>

\* _toggle_tool_calls, between its awaits: the rows are asked to go, new ones are mounted, and the
\* cursor is set.
Shown(i) == IF i \in 1 .. Len(ListedEntries(showTools)) THEN ListedEntries(showTools)[i] ELSE 0
Flip(k) ==
  /\ toggles[k].stage = "flip" /\ showTools' = ~showTools
  /\ toggles' = [toggles EXCEPT ![k] = [stage |-> "cleared", keep |-> Shown(cursor)]]
  /\ rows' = [i \in 1 .. Len(rows) |-> [rows[i] EXCEPT !.dying = TRUE]] /\ cursor' = 0
Extend(k) ==
  /\ toggles[k].stage = "cleared" /\ UNCHANGED <<showTools, cursor>>
  /\ rows' = Among(rows, {r \in ToSet(rows) : ~r.dying}) \o RowsOf(showTools)
  /\ toggles' = [toggles EXCEPT ![k].stage = "mounted"]
Restore(k) ==
  /\ toggles[k].stage = "mounted" /\ UNCHANGED <<showTools, rows>>
  /\ cursor' = IndexOf(ListedEntries(showTools), toggles[k].keep) /\ toggles' = RemoveAt(toggles, k)
Proceed(k) ==
  /\ IsOpen /\ (Flip(k) \/ Extend(k) \/ Restore(k))
  /\ UNCHANGED <<entries, activeLeaf, toggled, picked, asking, lit, branch, stirred>>

Cancel ==
  /\ Listens /\ branch' = -1
  /\ UNCHANGED <<entries, activeLeaf, showTools, rows, cursor, toggles, toggled, picked, asking, lit, stirred>>

PickerNext ==
  \/ MoveCursor \/ SelectCursor \/ Selected \/ SelectWithSummary \/ SelectWithCustomSummary
  \/ ToggleToolCalls \/ Cancel
  \/ \E given \in BOOLEAN : DismissWithCustomSummary(given)
  \/ \E k \in 1 .. Len(toggles) : Proceed(k)
-----------------------------------------------------------------------------
\* Ancestors of an entry, itself among them, as far as the file has them.
Path(t, i) ==
  LET up[j \in 1 .. Len(t)] == {j} \cup (IF t[j].parent > 0 THEN up[t[j].parent] ELSE {}) IN up[i]

\* The picker offers every entry that can be branched from once, whatever parents are missing, an
\* entry after the one it follows, indented once for each fork at which it is not the first branch.
\* And the session is branched from the entry that the user saw highlighted (the docstring of
\* action_select_cursor), unless tool calls were hidden or shown while the choice was under way,
\* which is not so: the index of the message is looked up in the new list.
TreeIsListed ==
  LET place(i) == SelectInSeq(OrderedEntries(entries), LAMBDA j : j = i) IN
  /\ Len(OrderedEntries(entries)) = Len(entries)
  /\ \A i \in 1 .. Len(entries) :
       /\ place(i) # 0
       /\ entries[i].parent > 0 => place(entries[i].parent) < place(i)
       /\ Indents(entries)[i] =
            Cardinality({j \in Path(entries, i) :
              \E s \in 1 .. j - 1 : entries[s].parent = entries[j].parent})
ChosenIsHighlighted == branch > 0 /\ ~stirred => branch = lit

TreeIsOffered == TreeIsListed /\ ChosenIsHighlighted
=============================================================================
