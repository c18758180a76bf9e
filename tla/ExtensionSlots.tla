--------------------------- MODULE ExtensionSlots ---------------------------
(***************************************************************************)
(* The places where the terminal application mounts widgets of extensions  *)
(* (tui/app.py): slots beside the prompt, by key, and one main view with a *)
(* handle an extension may wait on.  What a place should show is set at    *)
(* once; a swap task scheduled with it brings what is mounted in line,     *)
(* one task of a place at a time.  Removing a widget takes time, and two   *)
(* widgets of one place must not be in the document together: they have    *)
(* the same id.                                                            *)
(***************************************************************************)
EXTENDS Naturals, FiniteSets

CONSTANTS
  Keys,        \* keys of slots
  MaxWidgets,  \* bound: widgets made
  MaxTasks     \* bound: swap tasks waiting at one place

ASSUME SlotsAssumption == MaxWidgets \in Nat /\ MaxTasks \in Nat /\ "main" \notin Keys

VARIABLES
  wanted,      \* for each place, the widget it should show, 0 for none
  mounted,     \* the widget the application takes for mounted there
  document,    \* the widgets that are in the document there
  swaps,       \* swap tasks that wait for the place's lock
  removing,    \* the widget whose removal the running swap task awaits
  widgets,     \* widgets made
  views,       \* main views opened
  resolved,    \* main views whose wait() has its answer
  crashed      \* a widget crashed and was quarantined

slotVars == <<wanted, mounted, document, swaps, removing, widgets, views, resolved, crashed>>

Places == Keys \cup {"main"}

SlotsInit ==
  /\ wanted = [p \in Places |-> 0] /\ mounted = [p \in Places |-> 0]
  /\ document = [p \in Places |-> {}]
  /\ swaps = [p \in Places |-> 0] /\ removing = [p \in Places |-> 0]
  /\ widgets = 0 /\ views = {} /\ resolved = {} /\ crashed = FALSE

\* _schedule_extension_swap, for each place of a set.
Schedule(places) ==
  /\ \A p \in places : swaps[p] < MaxTasks
  /\ swaps' = [p \in Places |-> swaps[p] + (IF p \in places THEN 1 ELSE 0)]

\* _release_main_view_handle: the answer is given once; no view, no answer.
Release(view) == resolved' = resolved \cup ({view} \ {0})

\* _set_extension_slot_widget: a factory that raises changes nothing.
SetSlotWidget(key) ==
  /\ \/ widgets < MaxWidgets /\ widgets' = widgets + 1
        /\ wanted' = [wanted EXCEPT ![key] = widgets + 1]
     \/ UNCHANGED widgets /\ wanted' = [wanted EXCEPT ![key] = 0]
  /\ wanted' # wanted
  /\ Schedule({key})
  /\ UNCHANGED <<mounted, document, removing, views, resolved, crashed>>

\* Seeded fault: the view that is superseded is forgotten.
Superseded == UNCHANGED resolved

\* _open_extension_main_view: the last writer wins.
ReleasePrevious == Release(wanted["main"])

OpenMainView ==
  /\ widgets < MaxWidgets
  /\ widgets' = widgets + 1
  /\ views' = views \cup {widgets + 1}
  /\ ReleasePrevious
  /\ wanted' = [wanted EXCEPT !["main"] = widgets + 1]
  /\ Schedule({"main"})
  /\ UNCHANGED <<mounted, document, removing, crashed>>

\* _MainViewHandle.close: only the view that is shown is taken down.
CloseMainView ==
  /\ wanted["main"] # 0
  /\ Release(wanted["main"])
  /\ wanted' = [wanted EXCEPT !["main"] = 0]
  /\ Schedule({"main"})
  /\ UNCHANGED <<mounted, document, removing, widgets, views, crashed>>

\* _clear_extension_components: on a reload, a change of session, at the end.
ClearComponents ==
  /\ \E p \in Places : wanted[p] # 0 \/ mounted[p] # 0
  /\ wanted' = [p \in Places |-> 0]
  /\ Release(wanted["main"])
  /\ Schedule({"main"} \cup {p \in Keys : wanted[p] # 0 \/ mounted[p] # 0})
  /\ UNCHANGED <<mounted, document, removing, widgets, views, crashed>>

\* Mounting what is wanted now, or finding nothing to do.  A mount that fails
\* gives the widget up.
Reconcile(p, held) ==
  IF wanted[p] = 0 \/ wanted[p] = held
  THEN /\ mounted' = [mounted EXCEPT ![p] = held]
       /\ UNCHANGED <<wanted, resolved>>
  ELSE \/ /\ mounted' = [mounted EXCEPT ![p] = wanted[p]]
          /\ UNCHANGED <<wanted, resolved>>
       \/ /\ mounted' = [mounted EXCEPT ![p] = held]
          /\ wanted' = [wanted EXCEPT ![p] = 0]
          /\ IF p = "main" THEN Release(wanted[p]) ELSE UNCHANGED resolved

\* What the document holds once `gone` has been removed from the place.
Documented(p, gone) ==
  document' = [document EXCEPT ![p] =
    (@ \ gone) \cup (IF mounted'[p] # mounted[p] THEN {mounted'[p]} \ {0} ELSE {})]

\* Seeded fault: the widget that is replaced is removed beside the lock.
SwapUnlocked(p) ==
  /\ swaps[p] > 0
  /\ swaps' = [swaps EXCEPT ![p] = @ - 1]
  /\ removing' = [removing EXCEPT ![p] = IF mounted[p] # wanted[p] THEN mounted[p] ELSE @]
  /\ Reconcile(p, IF mounted[p] # wanted[p] THEN 0 ELSE mounted[p])
  /\ Documented(p, {})
  /\ UNCHANGED <<widgets, views, crashed>>

\* _reconcile_slot and _reconcile_main_view take the lock.  A mounted widget that
\* is not wanted is removed first, which is awaited.
Swap(p) ==
  /\ swaps[p] > 0 /\ removing[p] = 0
  /\ swaps' = [swaps EXCEPT ![p] = @ - 1]
  /\ IF mounted[p] # 0 /\ mounted[p] # wanted[p]
     THEN /\ removing' = [removing EXCEPT ![p] = mounted[p]]
          /\ UNCHANGED <<wanted, mounted, document, resolved>>
     ELSE /\ Reconcile(p, mounted[p])
          /\ Documented(p, {})
          /\ UNCHANGED removing
  /\ UNCHANGED <<widgets, views, crashed>>

\* The removal is over: the place is read again, it may have changed meanwhile.
Removed(p) ==
  /\ removing[p] # 0
  /\ removing' = [removing EXCEPT ![p] = 0]
  /\ Reconcile(p, IF mounted[p] = removing[p] THEN 0 ELSE mounted[p])
  /\ Documented(p, {removing[p]})
  /\ UNCHANGED <<swaps, widgets, views, crashed>>

\* _quarantine_extension_widget: a widget that crashed is taken down at once,
\* without the lock; its removal from the document is not waited for.  In the
\* main view it takes the view that is wanted with it, whichever that is.
Quarantine(p) ==
  /\ \E culprit \in {mounted[p], wanted[p]} \ {0} :
       /\ mounted' = [mounted EXCEPT ![p] = IF @ = culprit THEN 0 ELSE @]
       /\ wanted' = [wanted EXCEPT ![p] = IF @ = culprit \/ p = "main" THEN 0 ELSE @]
  /\ crashed' = TRUE
  /\ IF p = "main" THEN Release(wanted[p]) ELSE UNCHANGED resolved
  /\ UNCHANGED <<document, swaps, removing, widgets, views>>

SlotsNext ==
  \/ \E key \in Keys : SetSlotWidget(key)
  \/ OpenMainView \/ CloseMainView \/ ClearComponents
  \/ \E p \in Places : Swap(p) \/ Removed(p) \/ Quarantine(p)

\* The event loop runs every scheduled task.
SlotsFairness == \A p \in Places : WF_slotVars(Swap(p)) /\ WF_slotVars(Removed(p))

----------------------------------------------------------------------------
(* Hazards.                                                                *)

\* The document never holds two widgets of one place, unless one crashed: a
\* quarantine does not wait for the widget it removes.
NoDuplicateIds == ~crashed => \A p \in Places : Cardinality(document[p]) <= 1

\* Whatever was set, replaced, cleared or quarantined, in whatever order, the
\* places come to show what was wanted last, and every extension that waits on a
\* view that is gone has its answer: none waits for ever.
PlacesSettle ==
  <>[](/\ \A p \in Places : mounted[p] = wanted[p]
       /\ views \ resolved \subseteq {wanted["main"]})
=============================================================================
