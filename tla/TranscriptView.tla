--------------------------- MODULE TranscriptView ---------------------------
(***************************************************************************)
(* The scrolling transcript of the terminal application (tui/widgets.py,   *)
(* TranscriptView).  Only a window of the rows of the conversation is      *)
(* mounted in the document; a boundary line stands for the rest on either  *)
(* side.  Rows are mounted one by one as they arrive, and streamed text    *)
(* goes to provisional widgets, the tail, that the finished message        *)
(* replaces.  The operators map a view and the rows to the next view.      *)
(*                                                                         *)
(* A row is [id, role, c]: its identity, its role and its content.  A      *)
(* widget is [of, role, c, hint, tail]: the row it shows (0 for none), a   *)
(* placeholder for hidden thinking or not, provisional or not.             *)
(***************************************************************************)
EXTENDS Integers, FiniteSets, SequencesExt

CONSTANTS
  Window,    \* TRANSCRIPT_WINDOW_ITEMS
  Page,      \* TRANSCRIPT_WINDOW_PAGE_ITEMS
  Overscan   \* TRANSCRIPT_WINDOW_OVERSCAN_ITEMS

ASSUME ViewAssumption == Window \in Nat \ {0} /\ Page \in 1 .. Window /\ Overscan \in Nat

Least(a, b) == IF a < b THEN a ELSE b
Most(a, b) == IF a < b THEN b ELSE a

Widget(row) == [of |-> row.id, role |-> row.role, c |-> row.c, hint |-> FALSE, tail |-> FALSE]
Hint == [of |-> 0, role |-> "thinking", c |-> <<0, 0>>, hint |-> TRUE, tail |-> FALSE]
Provisional(role) == [of |-> 0, role |-> role, c |-> <<0, 0>>, hint |-> FALSE, tail |-> TRUE]

\* The widgets of a run of rows: adjacent hidden thinking shares one placeholder.
Rendered(rows, show) ==
  LET Mount(dom, row) ==
        IF row.role = "thinking" /\ ~show
          THEN IF dom # <<>> /\ dom[Len(dom)].hint THEN dom ELSE Append(dom, Hint)
          ELSE Append(dom, Widget(row))
  IN FoldLeft(Mount, <<>>, rows)

EndsHidden(rows, show) == rows # <<>> /\ rows[Len(rows)].role = "thinking" /\ ~show

Ids(rows) == {rows[i].id : i \in DOMAIN rows}

EmptyView ==
  [lo |-> 0, hi |-> 0, dom |-> <<>>, top |-> FALSE, bottom |-> FALSE, known |-> {},
   act |-> FALSE, think |-> FALSE, hinted |-> FALSE, follow |-> TRUE, shift |-> "none"]

Latest(v, rows) == v.hi >= Len(rows)

\* _redraw between two bounds that are already decided.
Remount(v, rows, buffer, show, lo, hi) ==
  LET shown == SubSeq(rows, lo + 1, hi)
      live == hi = Len(rows) /\ buffer > 0
  IN [v EXCEPT !.lo = lo, !.hi = hi, !.top = lo > 0, !.bottom = hi < Len(rows),
               !.dom = Rendered(shown, show) \o (IF live THEN <<Provisional("assistant")>> ELSE <<>>),
               !.known = Ids(shown), !.act = live, !.think = FALSE,
               !.hinted = EndsHidden(shown, show) /\ hi = Len(rows)]

\* _redraw: the latest window, or the present one trimmed to the rows there are.
Redraw(v, rows, buffer, show, keep) ==
  LET total == Len(rows)
      low == Least(v.lo, total)
      high == Least(Most(v.hi, low), total)
  IN IF keep /\ v.hi > v.lo
       THEN Remount(v, rows, buffer, show, IF high - low > Window THEN high - Window ELSE low, high)
       ELSE Remount(v, rows, buffer, show, Most(0, total - Window), total)

\* update_from_state: rows that are all new put the view back to the end.
Refreshed(v, rows, buffer, show) ==
  LET retained == \E id \in Ids(rows) : id \in v.known
      followed == [v EXCEPT !.follow = v.follow \/ ~retained]
  IN Redraw(followed, rows, buffer, show, retained /\ ~followed.follow)

\* The tail is no longer the provisional part of a message.
Kept(dom) == [i \in DOMAIN dom |-> [dom[i] EXCEPT !.tail = FALSE]]

\* append_item: beyond the window it is mounted only if the view follows.
RowAppended(v, rows, row, buffer, show, force) ==
  LET at == SelectInSeq(rows, LAMBDA r : r.id = row.id)
      follow == v.follow \/ force
      done == [v EXCEPT !.act = FALSE, !.think = FALSE]
      grown == [done EXCEPT !.hi = Most(v.hi, at), !.dom = Append(Kept(v.dom), Widget(row)),
                            !.known = @ \cup {row.id}, !.hinted = FALSE]
  IN IF v.hi < at - 1 /\ follow THEN Redraw(done, rows, buffer, show, FALSE)
     ELSE IF at <= v.lo \/ v.hi < at - 1 THEN done
     ELSE IF grown.hi - v.lo > Window + Overscan
       THEN Redraw([grown EXCEPT !.hi = Len(rows), !.lo = Most(0, Len(rows) - Window)],
                   rows, buffer, show, TRUE)
     ELSE grown

\* update_item: only the widget mounted for this row is refreshed.
RowUpdated(v, row) ==
  [v EXCEPT !.dom = [i \in DOMAIN v.dom |->
     IF v.dom[i].of = row.id /\ row.id \in v.known /\ ~v.dom[i].hint THEN Widget(row) ELSE v.dom[i]]]

\* append_assistant_delta with start_assistant_message.
TextStreamed(v, rows) ==
  IF v.act \/ ~Latest(v, rows) THEN v
  ELSE [v EXCEPT !.act = TRUE, !.think = FALSE, !.dom = Append(@, Provisional("assistant"))]

\* Streamed thinking is mounted before the text that is being streamed.
BeforeText(v, widget) ==
  LET at == SelectInSeq(v.dom, LAMBDA w : w.tail /\ w.role = "assistant")
  IN IF v.act /\ at > 0 THEN InsertAt(v.dom, at, widget) ELSE Append(v.dom, widget)

\* append_thinking_delta, after the adapter has added or extended its row.
ThinkingStreamed(v, rows, show) ==
  IF v.hi < Len(rows) - 1 THEN v
  ELSE LET w == [v EXCEPT !.hi = Len(rows)]
       IN IF show
            THEN [w EXCEPT !.hinted = FALSE, !.think = TRUE,
                           !.dom = IF v.think THEN @ ELSE BeforeText(v, Provisional("thinking"))]
            ELSE IF v.hinted THEN w
            ELSE [w EXCEPT !.hinted = TRUE, !.think = FALSE,
                           !.dom = BeforeText(v, [Hint EXCEPT !.tail = TRUE])]

\* finish_assistant_message: the streaming widget becomes the row's, or, when
\* there is none, the row is appended.  Without a row it only stops streaming.
TextFinished(v, rows, row, buffer, show) ==
  IF ~v.act THEN (IF row = {} THEN v ELSE RowAppended(v, rows, CHOOSE r \in row : TRUE, buffer, show, FALSE))
  ELSE [v EXCEPT !.act = FALSE, !.hinted = FALSE, !.known = @ \cup {r.id : r \in row},
                 !.dom = [i \in DOMAIN @ |->
                   IF ~(@[i].tail /\ @[i].role = "assistant") THEN @[i]
                   ELSE IF row = {} THEN [@[i] EXCEPT !.tail = FALSE]
                   ELSE Widget(CHOOSE r \in row : TRUE)]]

\* Seeded fault: the tail stays beside the blocks.
BlocksAdded(v, rows, blocks, buffer, show) ==
  [v EXCEPT !.hi = Len(rows), !.act = FALSE, !.think = FALSE, !.hinted = EndsHidden(blocks, show),
            !.dom = @ \o Rendered(blocks, show), !.known = @ \cup Ids(blocks)]

\* finish_structured_assistant_message: the tail makes place for the blocks.
BlocksFinished(v, rows, blocks, buffer, show) ==
  LET grown == [v EXCEPT !.hi = Len(rows), !.act = FALSE, !.think = FALSE,
                         !.dom = SelectSeq(@, LAMBDA w : ~w.tail) \o Rendered(blocks, show),
                         !.known = @ \cup Ids(blocks), !.hinted = EndsHidden(blocks, show)]
  IN IF grown.hi - v.lo > Window + Overscan
       THEN Redraw([grown EXCEPT !.lo = Most(0, grown.hi - Window)], rows, buffer, show, TRUE)
       ELSE grown

\* update_thinking_visibility: the widgets of thinking are taken out and the
\* rows of the window walked through, each run of thinking being put before the
\* widget of the next other row; a row without a widget uses up the rest.
ThinkingToggled(v, rows, show) ==
  LET shown == SubSeq(rows, v.lo + 1, Least(v.hi, Len(rows)))
      Place(a, row) ==
        LET at == SelectInSeq(a.left, LAMBDA w : w.of = row.id)
        IN IF row.role = "thinking"
             THEN IF show THEN [a EXCEPT !.pending = Append(@, Widget(row))]
                  ELSE [a EXCEPT !.pending = IF a.run THEN @ ELSE Append(@, Hint), !.run = TRUE]
             ELSE IF at = 0 THEN [a EXCEPT !.run = FALSE, !.left = <<>>, !.out = @ \o a.left]
             ELSE [run |-> FALSE, pending |-> <<>>, left |-> SubSeq(a.left, at + 1, Len(a.left)),
                   out |-> a.out \o SubSeq(a.left, 1, at - 1) \o a.pending \o <<a.left[at]>>]
      end == FoldLeft(Place, [out |-> <<>>, left |-> SelectSeq(v.dom, LAMBDA w : w.role # "thinking"),
                              pending |-> <<>>, run |-> FALSE], shown)
      dom == end.out \o end.left \o end.pending
  IN [v EXCEPT !.dom = dom, !.think = FALSE, !.known = @ \cup Ids(shown),
               !.hinted = dom # <<>> /\ dom[Len(dom)].hint]

\* watch_scroll_y: scrolling up stops following; at either end of the mounted
\* rows the window is asked to move.
ScrolledUp(v, rows, toEnd) ==
  [v EXCEPT !.follow = FALSE,
            !.shift = IF toEnd /\ v.lo > 0 /\ @ = "none" THEN "earlier" ELSE @]
ScrolledDown(v, rows) ==
  [v EXCEPT !.follow = @ \/ Latest(v, rows),
            !.shift = IF ~Latest(v, rows) /\ @ = "none" THEN "later" ELSE @]

\* _shift_window, run later: the rows may have changed since it was asked for.
Shifted(v, rows, buffer, show) ==
  LET at == [v EXCEPT !.shift = "none"]
      low == Most(0, v.lo - Page)
      high == Least(Len(rows), v.hi + Page)
  IN IF rows = <<>> \/ (v.shift = "earlier" /\ v.lo = 0) \/ (v.shift = "later" /\ Latest(v, rows)) THEN at
     ELSE IF v.shift = "earlier"
       THEN Redraw([at EXCEPT !.lo = low, !.hi = Least(Len(rows), low + Window)], rows, buffer, show, TRUE)
     ELSE Redraw([at EXCEPT !.lo = Most(0, high - Window), !.hi = high], rows, buffer, show, TRUE)
=============================================================================
