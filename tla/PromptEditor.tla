---------------------------- MODULE PromptEditor ----------------------------
(***************************************************************************)
(* The prompt of the terminal application (tui/app.py, PromptInput, and    *)
(* tui/autocomplete.py): text that is typed or pasted, large pastes held   *)
(* back behind a placeholder, completions of what was typed, messages      *)
(* queued and called back, and what Enter hands over.  Textual reports a   *)
(* change of the text in a message of its own, so keys typed at once are   *)
(* handled before the application has seen the change.  A text is a        *)
(* sequence of words; a word is a kind and a number.                       *)
(***************************************************************************)
EXTENDS Integers, SequencesExt, Selection

CONSTANTS
  Typed,      \* kinds of words that are typed
  MaxText,    \* bound: words in the editor
  MaxPastes,  \* bound: large pastes
  MaxKeys,    \* bound: keys and pastes
  MaxQueued   \* bound: messages in a queue

ASSUME EditorAssumption ==
  /\ {MaxText, MaxPastes, MaxKeys, MaxQueued} \subseteq Nat
  /\ Typed \subseteq {"word", "slash", "command", "value", "skill", "at", "bang", "path"}

\* Words: a plain one, references and names that are typed in part or in full, and of paste n the
\* placeholder and the two words it stands for.
Word(kind) == <<kind, 0>>
Placeholder(n) == <<"paste", n>>
Content(n) == <<<<"content", n>>, <<"content", n>>>>

VARIABLES
  text,       \* PromptInput.text
  unseen,     \* a Changed message the application has not handled yet
  pastes,     \* _pending_pastes: numbers and contents, in the order of the pastes
  pasted,     \* _paste_placeholder_counter
  offer,      \* the items of _completion_state: what replaces the words start + 1 .. end
  selected,   \* its selected_index, counted from 1
  working,    \* state.running
  compaction, \* _is_compaction_active()
  queued,     \* the session's queues: [steer, followUp]
  history,    \* the last of _prompt_history
  handed,     \* what Enter handed over last, and the text that was on the screen: [sent, screen]
  before,     \* the text the last edit replaced, which undo brings back
  kept,       \* pastes whose placeholder has never left the screen since
  keys        \* keys and pastes so far

editorVars == <<text, unseen, pastes, pasted, offer, selected, working, compaction, queued, history,
                handed, before, kept, keys>>

Has(t, w) == Contains(t, w)
Kind(t, i) == t[i][1]

\* --- autocomplete.py: what is offered for a text ---
Option(w, from, to) == [word |-> w, start |-> from, end |-> to]
Offered(kind, from, to) == <<Option(<<kind, 1>>, from, to), Option(<<kind, 2>>, from, to)>>

FileReferences(t) ==
  IF t # <<>> /\ Kind(t, Len(t)) = "at" THEN Offered("file", Len(t) - 1, Len(t)) ELSE <<>>
ShellPaths(t) ==
  IF Len(t) > 1 /\ Kind(t, Len(t)) = "path" THEN Offered("file", Len(t) - 1, Len(t)) ELSE <<>>
CommandNames(t) ==
  IF Kind(t, 1) = "slash" THEN <<Option(Word("command"), 0, 1), Option(Word("skill"), 0, 1)>>
  ELSE <<Option(Word("command"), 0, 1)>>
SkillNames == <<Option(Word("skill"), 0, 1)>>
Arguments(t) == IF Kind(t, 2) = "value" THEN Offered("choice", 1, 2) ELSE <<>>

\* build_completion_state: the first word decides.
Completions(t) ==
  IF t = <<>> THEN <<>>
  ELSE CASE Kind(t, 1) = "bang"    -> ShellPaths(t)
         [] Kind(t, 1) = "slash"   -> CommandNames(t)
         [] Kind(t, 1) = "skill"   -> IF Len(t) = 1 THEN SkillNames ELSE FileReferences(t)
         [] Kind(t, 1) = "command" -> IF Len(t) = 1 THEN CommandNames(t) ELSE Arguments(t)
         [] OTHER                  -> FileReferences(t)

\* CompletionItem.apply; a slice of a text that is shorter ends where the text ends.
Apply(item, t) ==
  SubSeq(t, 1, IF item.start > Len(t) THEN Len(t) ELSE item.start)
  \o <<item.word>> \o SubSeq(t, item.end + 1, Len(t))

\* --- the held back pastes ---
SyncedPastes(t) == Among(pastes, {p \in ToSet(pastes) : Has(t, Placeholder(p.number))})

\* text_for_submission: each placeholder is replaced once, in the order of the pastes.
Replaced(t, p) ==
  LET places == {i \in 1 .. Len(t) : t[i] = Placeholder(p.number)}
      first == CHOOSE i \in places : \A j \in places : i <= j
  IN IF places = {} THEN t
     ELSE SubSeq(t, 1, first - 1) \o p.content \o SubSeq(t, first + 1, Len(t))
Expanded(t) ==
  LET found == SyncedPastes(t)
      after[i \in 0 .. Len(found)] == IF i = 0 THEN t ELSE Replaced(after[i - 1], found[i])
  IN after[Len(found)]

EditorInit ==
  /\ text = <<>> /\ unseen = FALSE /\ pastes = <<>> /\ pasted = 0 /\ offer = <<>> /\ selected = 1
  /\ working \in BOOLEAN /\ compaction = FALSE
  /\ queued = [steer |-> <<>>, followUp |-> <<>>] /\ history = <<>>
  /\ handed = [sent |-> <<>>, screen |-> <<>>, kept |-> {}]
  /\ before = <<>> /\ kept = {} /\ keys = 0

Shows(t) == text' = t /\ unseen' = TRUE /\ kept' = {n \in kept : Has(t, Placeholder(n))}
OffersFor(t) == offer' = Completions(t) /\ selected' = 1

\* An edit in the widget: the one before it is what undo brings back.
Edit(t) ==
  /\ Len(t) <= MaxText
  /\ text' = t /\ unseen' = TRUE /\ before' = text
  /\ UNCHANGED <<offer, selected, working, compaction, queued, history, handed>>
StaysKept(t) == kept' = {n \in kept : Has(t, Placeholder(n))}

\* Typing or a small paste at a place of the text, a paste that is only paths of files that exist,
\* deleting a word.
Insert(w, at) ==
  Edit(InsertAt(text, at, w)) /\ StaysKept(InsertAt(text, at, w)) /\ UNCHANGED <<pastes, pasted>>
Drop(at) == Insert(<<"file", 1>>, at)
Delete(at) == Edit(RemoveAt(text, at)) /\ StaysKept(RemoveAt(text, at)) /\ UNCHANGED <<pastes, pasted>>
Undo == before # text /\ Edit(before) /\ StaysKept(before) /\ UNCHANGED <<pastes, pasted>>

\* _show_large_paste_placeholder.
PasteLarge(at) ==
  LET n == pasted + 1 IN
  /\ pasted < MaxPastes /\ pasted' = n
  /\ pastes' = Append(pastes, [number |-> n, content |-> Content(n)])
  /\ Edit(InsertAt(text, at, Placeholder(n))) /\ kept' = kept \cup {n}

\* on_text_area_changed: the pastes without a placeholder are dropped, new completions are offered.
Changed ==
  /\ unseen /\ unseen' = FALSE /\ pastes' = SyncedPastes(text) /\ OffersFor(text)
  /\ UNCHANGED <<text, pasted, working, compaction, queued, history, handed, before, kept>>

\* The program puts a text into the editor, which forgets what undo would bring back.
Load(t) == Shows(t) /\ before' = t

\* The command palette, a prompt template or skill picked; the prompt cleared with either of its
\* keys, one of which leaves the pastes to the Changed message.
PutIn(t) ==
  /\ Load(t) /\ OffersFor(t)
  /\ UNCHANGED <<pastes, pasted, working, compaction, queued, history, handed>>
ClearPrompt ==
  /\ text # <<>> /\ Load(<<>>)
  /\ pastes' \in {pastes, <<>>}
  /\ UNCHANGED <<pasted, offer, selected, working, compaction, queued, history, handed>>

\* action_completion_next and _previous with completions on the screen.
Select ==
  /\ offer # <<>> /\ selected' = (selected % Len(offer)) + 1
  /\ UNCHANGED <<text, unseen, pastes, pasted, offer, working, compaction, queued, history, handed,
                 before, kept>>

\* Seeded fault: accepting a completion forgets the pastes, as submitting does.
AcceptForgetting ==
  /\ offer # <<>> /\ Len(text) > 0
  /\ LET t == Apply(offer[selected], text) IN Load(t) /\ OffersFor(t) /\ pastes' = <<>>
  /\ UNCHANGED <<pasted, working, compaction, queued, history, handed>>

\* action_accept_completion.
Accept ==
  /\ offer # <<>>
  /\ LET t == Apply(offer[selected], text) IN Load(t) /\ OffersFor(t)
  /\ UNCHANGED <<pastes, pasted, working, compaction, queued, history, handed>>

\* --- Enter: _submit_prompt_from_editor ---
\* The selected completion is applied, to the text in which the pastes are expanded.
EnterCompletes ==
  /\ offer # <<>> /\ Apply(offer[selected], Expanded(text)) # Expanded(text)
  /\ LET t == Apply(offer[selected], Expanded(text)) IN Load(t) /\ OffersFor(t)
  /\ pastes' = <<>>
  /\ UNCHANGED <<pasted, working, compaction, queued, history, handed>>

Enters == ~(offer # <<>> /\ Apply(offer[selected], Expanded(text)) # Expanded(text))

\* A compaction is running: the text stays, expanded, in the editor.
EnterWaits ==
  /\ Enters /\ text # <<>> /\ compaction /\ Load(Expanded(text)) /\ pastes' = SyncedPastes(text)
  /\ UNCHANGED <<pasted, offer, selected, working, compaction, queued, history, handed>>

\* The text is handed to the session, or to a queue of the run that is under way.
SubmitText(queue) ==
  /\ Enters /\ text # <<>> /\ ~compaction
  /\ Load(<<>>) /\ pastes' = <<>> /\ offer' = <<>> /\ selected' = 1
  /\ handed' = [sent |-> Expanded(text), screen |-> text, kept |-> kept]
  /\ IF Kind(text, 1) \in {"bang", "command"} THEN UNCHANGED <<history, queued>>
     ELSE /\ history' = Expanded(text)
          /\ working => Len(queued[queue]) < MaxQueued
          /\ queued' = IF working THEN [queued EXCEPT ![queue] = Append(@, Expanded(text))] ELSE queued
  /\ UNCHANGED <<pasted, working, compaction>>

\* action_edit_queued_message: the latest follow-up, else the latest steering message, into an
\* empty prompt; action_recall_previous_prompt when there is none.
LatestQueue == IF queued.followUp # <<>> THEN "followUp" ELSE "steer"
CallBack ==
  /\ offer = <<>> /\ text = <<>> /\ working /\ queued[LatestQueue] # <<>>
  /\ Load(Last(queued[LatestQueue])) /\ OffersFor(Last(queued[LatestQueue]))
  /\ queued' = [queued EXCEPT ![LatestQueue] = Front(@)]
  /\ UNCHANGED <<pastes, pasted, working, compaction, history, handed>>
Recall ==
  /\ offer = <<>> /\ text = <<>> /\ ~(working /\ queued[LatestQueue] # <<>>) /\ history # <<>>
  /\ Load(history) /\ OffersFor(history)
  /\ UNCHANGED <<pastes, pasted, working, compaction, queued, history, handed>>

\* The run takes the messages of its queues; runs and compactions begin and end.
Around ==
  /\ \/ queued' = [steer |-> <<>>, followUp |-> <<>>] /\ UNCHANGED <<working, compaction>>
     \/ working' = ~working /\ UNCHANGED <<queued, compaction>>
     \/ compaction' = ~compaction /\ UNCHANGED <<queued, working>>
  /\ UNCHANGED <<text, unseen, pastes, pasted, offer, selected, history, handed, before, kept>>

Press ==
  \/ \E at \in 1 .. Len(text) + 1 : (\E k \in Typed : Insert(Word(k), at)) \/ PasteLarge(at) \/ Drop(at)
  \/ \E at \in 1 .. Len(text) : Delete(at)
  \/ \E k \in {"slash", "command"} : PutIn(<<Word(k)>>)
  \/ \E queue \in {"steer", "followUp"} : SubmitText(queue)
  \/ Undo \/ ClearPrompt \/ Select \/ Accept \/ EnterCompletes \/ EnterWaits \/ CallBack \/ Recall

EditorNext ==
  \/ keys < MaxKeys /\ keys' = keys + 1 /\ Press
  \/ (Changed \/ Around) /\ UNCHANGED keys
-----------------------------------------------------------------------------
\* What a text stands for when the placeholders of the pastes in K are their contents.
Meaning(t, K) ==
  FlattenSeq([i \in 1 .. Len(t) |->
    IF t[i][1] = "paste" /\ t[i][2] \in K THEN Content(t[i][2]) ELSE <<t[i]>>])

\* Enter hands over what was on the screen, with every paste in the place of its placeholder that
\* never left the screen, once, whatever was typed, completed, deleted, undone or tried in between,
\* and however late the application heard of it.
SentIsWhole ==
  \E K \in SUBSET (1 .. pasted) :
    handed.kept \subseteq K /\ handed.sent = Meaning(handed.screen, K)
=============================================================================
