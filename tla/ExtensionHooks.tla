---------------------------- MODULE ExtensionHooks ----------------------------
(***************************************************************************)
(* The hooks of extensions around a tool call, over the text of a prompt,  *)
(* and for events (extensions/runtime.py).  A walk goes over the handlers  *)
(* one by one and awaits each; a handler is found at a place of the list   *)
(* of extensions, and /reload, which a run does not hold back, clears that *)
(* list and fills it again while a walk is in the middle of it.            *)
(***************************************************************************)
EXTENDS Naturals, SequencesExt

CONSTANTS
  Shapes,      \* what a load may yield: sequences of [name, handlers], handlers a count per kind
  MaxReloads   \* bound: reloads

\* "event" stands for the events of the agent and of the session.
Kinds == {"tool_call", "tool_result", "input", "event"}
Names == {"none"} \cup UNION {{shape[i].name : i \in DOMAIN shape} : shape \in Shapes}
Extension == [name : Names, handlers : [Kinds -> Nat]]

ASSUME HooksAssumption == Shapes \subseteq Seq(Extension) /\ MaxReloads \in Nat

VARIABLES
  listed,   \* self._extensions
  reloads,  \* reloads so far
  walk      \* the walk under way and, when it is over, its outcome

hookVars == <<listed, reloads, walk>>

NoExtension == [name |-> "none", handlers |-> [k \in Kinds |-> 0]]

\* The names and numbers of the handlers a list holds, in the order of the list.
Handlers(list, kind) ==
  FlattenSeq([i \in DOMAIN list |-> [h \in 1 .. list[i].handlers[kind] |-> <<list[i].name, h>>]])

\* asked holds the handlers with their answers; value the answers that changed what is passed on.
Fresh(kind) ==
  [kind |-> kind, at |-> "next", place |-> 0, extension |-> NoExtension, handler |-> 0,
   value |-> <<>>, asked |-> <<>>, due |-> Handlers(listed, kind), same |-> TRUE]

HooksInit ==
  /\ listed \in Shapes /\ reloads = 0
  /\ walk = [Fresh("event") EXCEPT !.at = "over", !.due = <<>>]

\* The executor of a wrapped tool, run_input_hooks, emit_event.
StartWalk(kind) ==
  /\ walk.at = "over" /\ kind # "tool_result" /\ walk' = Fresh(kind) /\ UNCHANGED <<listed, reloads>>

\* _handlers_for: a generator over the list itself, and within an extension over the handlers that
\* it had.  The next place that has a handler, 0 at the end; emit_event copies all of them first.
FollowingPlaces ==
  {i \in DOMAIN listed : i > walk.place /\ listed[i].handlers[walk.kind] > 0}
Following ==
  IF walk.kind = "event"
    THEN IF walk.handler < Len(walk.due) THEN {[walk EXCEPT !.handler = @ + 1]} ELSE {}
  ELSE IF walk.handler < walk.extension.handlers[walk.kind]
    THEN {[walk EXCEPT !.handler = @ + 1]}
  ELSE {[walk EXCEPT !.place = i, !.extension = listed[i], !.handler = 1] :
          i \in {i \in FollowingPlaces : \A j \in FollowingPlaces : i <= j}}
Handler(w) ==
  IF w.kind = "event" THEN w.due[w.handler] ELSE <<w.extension.name, w.handler>>

\* Seeded fault: a tool call hook that raises is passed over.
StopsOnlyWhenTold(kind, answer) == answer = "stop" /\ kind \in {"tool_call", "input"}

\* _run_tool_call_hooks: an error blocks the tool; elsewhere it is recorded and passed over.
Stops(kind, answer) ==
  \/ answer = "stop" /\ kind \in {"tool_call", "input"}
  \/ answer = "raise" /\ kind = "tool_call"

Answered(w, answer) ==
  LET asked == Append(w.asked, [handler |-> Handler(w), answer |-> answer])
  IN  [w EXCEPT !.asked = asked,
                !.value = IF answer = "change" THEN Append(@, Handler(w)) ELSE @,
                !.at = IF Stops(w.kind, answer) THEN "stopped" ELSE "next"]

\* _fresh_context: the handler is called with a context of the extension that now has its name; the
\* name of one that is gone is an error.
Call ==
  /\ walk.at = "next"
  /\ \E w \in Following :
       walk' = IF \E i \in DOMAIN listed : listed[i].name = Handler(w)[1]
               THEN [w EXCEPT !.at = "awaiting"] ELSE Answered(w, "raise")
  /\ UNCHANGED <<listed, reloads>>

\* A handler answers: nothing (or something of a wrong type), a change, a stop, or it raises.
Answer ==
  /\ walk.at = "awaiting"
  /\ \E answer \in {"nothing", "raise"} \cup (IF walk.kind = "event" THEN {} ELSE {"change"})
                   \cup (IF walk.kind \in {"tool_call", "input"} THEN {"stop"} ELSE {}) :
       walk' = Answered(walk, answer)
  /\ UNCHANGED <<listed, reloads>>

\* No handler is left: the tool runs with what became of its arguments, and its result goes to the
\* next hooks; the other walks are over.
End ==
  /\ walk.at = "next" /\ Following = {}
  /\ walk' = [walk EXCEPT !.at = IF walk.kind = "tool_call" THEN "running" ELSE "over"]
  /\ UNCHANGED <<listed, reloads>>
ToolReturns ==
  /\ walk.at = "running" /\ walk' = Fresh("tool_result") /\ UNCHANGED <<listed, reloads>>
Stop ==
  /\ walk.at = "stopped" /\ walk' = [walk EXCEPT !.at = "over"] /\ UNCHANGED <<listed, reloads>>

\* reset_for_reload clears the list in place, load fills it.
Reload ==
  /\ reloads < MaxReloads /\ reloads' = reloads + 1 /\ listed' \in Shapes
  /\ walk' = [walk EXCEPT !.same = @ /\ listed' = listed]

HooksNext == (\E kind \in Kinds : StartWalk(kind)) \/ Call \/ Answer \/ End \/ ToolReturns \/ Stop \/ Reload
-------------------------------------------------------------------------------
\* A tool runs only when no hook that was asked blocked it or failed, with what the hooks made of
\* its arguments, one after the other.  And as long as the reloads on the way bring the same
\* extensions back, every handler is asked once, in order, until one stops the walk: neither twice
\* nor passed over because the list it is found in was cleared.
Asked == [i \in DOMAIN walk.asked |-> walk.asked[i].handler]
Changed ==
  FlattenSeq([i \in DOMAIN walk.asked |->
                IF walk.asked[i].answer = "change" THEN <<walk.asked[i].handler>> ELSE <<>>])
HooksDecide ==
  /\ walk.at = "running" =>
       /\ \A i \in DOMAIN walk.asked : walk.asked[i].answer \notin {"stop", "raise"}
       /\ walk.value = Changed
  /\ walk.same =>
       /\ IsPrefix(Asked, walk.due)
       /\ walk.at \in {"running", "over"} =>
            \/ Asked = walk.due
            \/ /\ walk.at = "over" /\ walk.kind \in {"tool_call", "input"}
               /\ Last(walk.asked).answer \in (IF walk.kind = "input" THEN {"stop"} ELSE {"stop", "raise"})
===============================================================================
