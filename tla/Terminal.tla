------------------------------ MODULE Terminal ------------------------------
(***************************************************************************)
(* The terminal application (tui/app.py): prompts and their runs, the      *)
(* transcript and its widgets, the prompt editor, the completion box, the  *)
(* session tree picker and the login dialogs.  They share one event loop   *)
(* and little state: a behaviour is one of a single part.                  *)
(***************************************************************************)
EXTENDS TuiRun, TuiTranscript, PromptEditor, CompletionWindow, TreePicker, LoginFlow

VARIABLE part

vars == <<runVars, transcriptVars, editorVars, windowVars, pickerVars, loginVars, part>>

Parts == {"run", "transcript", "editor", "window", "picker", "login"}

\* The parts a behaviour is not about keep one of their initial states.
Init ==
  /\ part \in Parts
  /\ RunInit /\ TranscriptInit /\ EditorInit /\ WindowInit /\ PickerInit /\ LoginInit
  /\ part # "transcript" => thinking
  /\ part # "editor" => ~working
  /\ part # "picker" => activeLeaf = 1 /\ entries = CHOOSE t \in Trees : Len(t) > 0 /\ Branchable(t, 1)

Next ==
  \/ /\ part = "run" /\ RunNext
     /\ UNCHANGED <<transcriptVars, editorVars, windowVars, pickerVars, loginVars, part>>
  \/ /\ part = "transcript" /\ TranscriptNext
     /\ UNCHANGED <<runVars, editorVars, windowVars, pickerVars, loginVars, part>>
  \/ /\ part = "editor" /\ EditorNext
     /\ UNCHANGED <<runVars, transcriptVars, windowVars, pickerVars, loginVars, part>>
  \/ /\ part = "window" /\ WindowNext
     /\ UNCHANGED <<runVars, transcriptVars, editorVars, pickerVars, loginVars, part>>
  \/ /\ part = "picker" /\ PickerNext
     /\ UNCHANGED <<runVars, transcriptVars, editorVars, windowVars, loginVars, part>>
  \/ /\ part = "login" /\ LoginNext
     /\ UNCHANGED <<runVars, transcriptVars, editorVars, windowVars, pickerVars, part>>

\* The event loop runs every worker that can go on.
Spec == Init /\ [][Next]_vars /\ RunFairness
-----------------------------------------------------------------------------
\* The user accepts what can be seen: the selected completion is in the lines of its box, and the
\* tree lists every entry once, an entry after the one it follows, and branches from the entry
\* that was highlighted.
ListsAreShown == SelectedIsShown /\ TreeIsOffered
=============================================================================
