-------------------------- MODULE CompletionWindow --------------------------
(***************************************************************************)
(* The part of the completion list that the box above the prompt shows     *)
(* (tui/app.py, _refresh_completions and _visible_completion_state).  The  *)
(* box is as high as what it was given last, once Textual has laid it out; *)
(* the height is remembered so that moving the selection does not feed     *)
(* back into smaller and smaller boxes.  Items carry a category, whose     *)
(* heading is a line of its own, and may wrap into several lines.          *)
(***************************************************************************)
EXTENDS Integers, Functions, SequencesExt

CONSTANTS
  Lists,      \* the lists of completions: sequences of [category, extra]
  MaxVisible  \* COMPLETION_MAX_VISIBLE_LINES

ASSUME WindowAssumption ==
  /\ MaxVisible \in Nat \ {0}
  /\ Lists \subseteq Seq([category : STRING, extra : Nat]) /\ <<>> \in Lists

VARIABLES
  options,   \* the items of _completion_state
  chosen,    \* its selected_index, counted from 1
  given,     \* the items the box was given: [from, to, max]
  budget,    \* _completion_visible_line_budget, 0 for None
  height     \* the laid-out height of the box, 0 before the first layout

windowVars == <<options, chosen, given, budget, height>>

\* Rows before item i of a list cut at item from: a blank one between categories, a heading.
NewCategory(list, from, i) ==
  list[i].category # (IF i = from THEN "none" ELSE list[i - 1].category)
Above(list, from, i) ==
  IF ~NewCategory(list, from, i) THEN 0
  ELSE (IF i = from THEN 0 ELSE 1) + (IF list[i].category = "none" THEN 0 ELSE 1)

\* What items from .. to come to as the box draws them, and as the code counts them.
RenderLines(list, from, to) ==
  SumFunction([i \in from .. to |-> Above(list, from, i) + 1 + list[i].extra])

\* The line the code takes the selected item to be drawn in, counted from 0: the row that separates
\* two categories is left out.
SelectedLine(list, from, sel) ==
  SumFunction([i \in from .. sel |->
    (IF i = from THEN 0 ELSE 1 + list[i - 1].extra)
    + (IF NewCategory(list, from, i) /\ list[i].category # "none" THEN 1 ELSE 0)])

Lowest(S) == CHOOSE x \in S : \A y \in S : x <= y
Highest(S) == CHOOSE x \in S : \A y \in S : x >= y
\* Seeded fault: the last loop is missing.
SliceUntrimmed(list, sel, max) ==
  LET Visible(f) == f = sel \/ SelectedLine(list, f, sel) < Highest({max - 1, 1})
      first == Lowest({f \in 1 .. sel : Visible(f)})
      to    == Highest({t \in sel .. Len(list) : t = sel \/ RenderLines(list, first, t) <= max})
  IN [from |-> first, to |-> to, max |-> max]

\* The first and the last item shown: skip items until the selection is above the bottom edge,
\* cut the end until all of it fits, and skip more when it still does not.
Slice(list, sel, max) ==
  LET Visible(f) == f = sel \/ SelectedLine(list, f, sel) < Highest({max - 1, 1})
      Fits(f, t) == RenderLines(list, f, t) <= max
      first == Lowest({f \in 1 .. sel : Visible(f)})
      to    == Highest({t \in sel .. Len(list) : t = sel \/ Fits(first, t)})
      from  == Lowest({f \in first .. sel : f = sel \/ Fits(f, to)})
  IN [from |-> from, to |-> to, max |-> max]

\* _completion_window_line_budget: a first estimate from the terminal's size, then the largest
\* height the box has had.
Estimates == 1 .. MaxVisible
NextBudget(b) ==
  IF height = 0
    THEN b \in (IF budget = 0 THEN Estimates ELSE {budget})
    ELSE b = Highest({budget, Lowest({MaxVisible, height})})

\* _refresh_completions, with the list and the selection it finds.
Refresh(list, sel) ==
  /\ options' = list /\ chosen' = sel
  /\ \/ list = <<>> /\ budget' = 0 /\ given' = [from |-> 1, to |-> 0, max |-> 0] /\ height' = 0
     \/ list # <<>> /\ \E b \in Estimates :
          NextBudget(b) /\ budget' = b /\ given' = Slice(list, sel, b) /\ UNCHANGED height

WindowInit ==
  options = <<>> /\ chosen = 1 /\ given = [from |-> 1, to |-> 0, max |-> 0]
  /\ budget = 0 /\ height = 0

\* The text changes, the selection moves (round the ends), the terminal is resized, and Textual
\* gives the box the height of its content.
Offer(list) == Refresh(list, 1)
SelectNext == options # <<>> /\ Refresh(options, (chosen % Len(options)) + 1)
SelectPrevious ==
  options # <<>> /\ Refresh(options, IF chosen = 1 THEN Len(options) ELSE chosen - 1)
Resize == budget' = 0 /\ UNCHANGED <<options, chosen, given, height>>
LaidOut ==
  /\ options # <<>>
  /\ height' = RenderLines(options, given.from, given.to)
  /\ UNCHANGED <<options, chosen, given, budget>>

WindowNext == (\E list \in Lists : Offer(list)) \/ SelectNext \/ SelectPrevious \/ Resize \/ LaidOut
-----------------------------------------------------------------------------
\* The selected completion is among the items the box is given, and they fit the lines it may
\* take, unless that one item is too high by itself: the user never accepts what cannot be seen.
SelectedIsShown ==
  options # <<>> =>
    /\ chosen \in given.from .. given.to
    /\ RenderLines(options, given.from, given.to) <= given.max \/ given.from = given.to
=============================================================================
