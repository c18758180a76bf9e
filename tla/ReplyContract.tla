---------------------------- MODULE ReplyContract ----------------------------
(***************************************************************************)
(* What a provider promises the agent loop about one streamed reply        *)
(* (stream_response of src/src/le_agent/provider.py as _assistant_events   *)
(* of loop.py consumes it): a start event, then blocks that are opened,    *)
(* filled and closed one at a time, then exactly one terminal event.  A    *)
(* failure may come while a block is open; a reply that is done closed     *)
(* every block it opened.  A provider may also raise before its reply      *)
(* started.                                                                *)
(***************************************************************************)
EXTENDS Naturals, Sequences

VARIABLES
  phase,    \* "quiet" | "live" | "done" | "error" | "raised"
  block,    \* channel of the open block, or "none"
  heard     \* events delivered so far

vars == <<phase, block, heard>>

Channel == {"text", "thinking", "tool"}

Init ==
  /\ phase = "quiet"
  /\ block = "none"
  /\ heard = 0

Start ==
  /\ phase = "quiet"
  /\ phase' = "live"
  /\ UNCHANGED block

OpenBlock ==
  /\ phase = "live"
  /\ block = "none"
  /\ block' \in Channel
  /\ UNCHANGED phase

\* Fragments go to the open block; a tool call is not streamed in fragments.
Fill ==
  /\ phase = "live"
  /\ block \in {"text", "thinking"}
  /\ UNCHANGED <<phase, block>>

CloseBlock ==
  /\ phase = "live"
  /\ block # "none"
  /\ block' = "none"
  /\ UNCHANGED phase

Done ==
  /\ phase = "live"
  /\ block = "none"
  /\ phase' = "done"
  /\ UNCHANGED block

Fail ==
  /\ phase = "live"
  /\ phase' = "error"
  /\ UNCHANGED block

Raise ==
  /\ phase = "quiet"
  /\ phase' = "raised"
  /\ UNCHANGED block

Next ==
  /\ heard' = heard + 1
  /\ (Start \/ OpenBlock \/ Fill \/ CloseBlock \/ Done \/ Fail \/ Raise)

Spec == Init /\ [][Next]_vars
==============================================================================
