----------------------------- MODULE Extensions -----------------------------
(***************************************************************************)
(* Extensions of a session, their hooks and what they put on the screen.   *)
(* The runtime, its walks over hooks and the places for widgets meet in a  *)
(* reload and a change of session only: they clear the places and the list *)
(* of extensions, which ExtensionSlots and ExtensionHooks allow at any     *)
(* time.  A behaviour is one of the runtime, of a walk or of the places.   *)
(***************************************************************************)
EXTENDS ExtensionRuntime, ExtensionHooks, ExtensionSlots

VARIABLE part   \* "runtime", "hooks" or "places"

extensionsVars == <<extVars, hookVars, slotVars, part>>

\* The parts a behaviour is not about keep an initial state.
ExtensionsInit ==
  /\ part \in {"runtime", "hooks", "places"}
  /\ ExtInit /\ HooksInit /\ SlotsInit
  /\ part # "hooks" => listed = CHOOSE shape \in Shapes : TRUE

ExtensionsNext ==
  \/ part = "runtime" /\ ExtNext /\ UNCHANGED <<hookVars, slotVars, part>>
  \/ part = "hooks" /\ HooksNext /\ UNCHANGED <<extVars, slotVars, part>>
  \/ part = "places" /\ SlotsNext /\ UNCHANGED <<extVars, hookVars, part>>

\* The event loop runs every scheduled task.
ExtensionsSpec == ExtensionsInit /\ [][ExtensionsNext]_extensionsVars /\ SlotsFairness
=============================================================================
