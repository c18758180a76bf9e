-------------------------- MODULE ExtensionRuntime --------------------------
(***************************************************************************)
(* The extension runtime (extensions/runtime.py, loader.py, api.py) and    *)
(* the session flows that drive it (session.py): start-up, /reload, and    *)
(* the replacement of the session by /new and /resume.  One runtime serves *)
(* every session in turn; a reload starts a new generation of extensions.  *)
(*                                                                         *)
(*   resume, new:  load -> shutdown -> swap -> start                       *)
(*   reload:               shutdown -> swap -> start                       *)
(*                                                                         *)
(* A flow is suspended while it loads and while a handler of an extension  *)
(* runs; the swap itself runs in one piece.  The pump is the application's *)
(* message loop; the session picker starts its resume in a worker beside.  *)
(***************************************************************************)
EXTENDS Naturals, Sequences, FiniteSets, SequencesExt

CONSTANTS
  ModuleNames, \* names of modules and packages
  Layouts,    \* what the extension directories may hold when they are read
  Tools,      \* names of tools
  BuiltIn,    \* the coding session's own tools
  MaxLoads,   \* bound: generations of extensions
  MaxSwaps    \* bound: harnesses made

Lifecycle == {"session_start", "session_shutdown"}

\* An entry of a directory is a module, a package with or without its extension.py, or a name that is
\* skipped; manifest lists the entries a package declares.
Item == [kind : {"module", "package", "hidden"}, name : ModuleNames, entry : BOOLEAN,
         manifest : Seq(ModuleNames)]
Layout ==
  [project : Seq(Item), user : Seq(Item), explicit : Seq(Item), trusted : BOOLEAN, enabled : BOOLEAN,
   broken : SUBSET ModuleNames, raising : SUBSET ModuleNames,
   tools : [ModuleNames -> SUBSET Tools], on : [ModuleNames -> SUBSET Lifecycle]]

ASSUME RuntimeAssumption ==
  Layouts \subseteq Layout /\ BuiltIn \subseteq Tools /\ MaxLoads \in Nat \ {0} /\ MaxSwaps \in Nat \ {0}

VARIABLES
  generation, \* number of the current generation
  stale,      \* generations that have been invalidated
  extensions, \* extensions set up, in load order
  registry,   \* for each tool name, the extension instance that registered it
  captured,   \* extension instances that may have kept their API object
  harness,    \* the session's harness: its number and its tools
  made,       \* harnesses made
  listening,  \* harnesses whose events reach the runtime
  pendingStart, \* session_start waits for the host to be ready
  flow,       \* what the pump and the worker are doing
  told,       \* the last lifecycle event each instance was told
  doubled,    \* an instance was told of an end without a start, or the reverse
  overlapped  \* two flows ran at the same time

extVars == <<generation, stale, extensions, registry, captured, harness, made, listening,
             pendingStart, flow, told, doubled, overlapped>>

Nobody == [name |-> "nobody", gen |-> 0]
Host == [name |-> "host", gen |-> 0]
Flows == {"pump", "worker"}
Idle == [at |-> "idle"]

----------------------------------------------------------------------------
(* Discovery.                                                              *)

\* _manifest_entries: what [tool.le-agent] declares and exists; the name of a
\* package's extension.py is its directory's.
ManifestEntries(item) == item.manifest

\* _discover_in_dir.
EntriesOf(item) ==
  IF item.kind = "module" THEN <<item.name>>
  ELSE IF item.kind # "package" THEN <<>>
  ELSE IF ManifestEntries(item) # <<>> THEN ManifestEntries(item)
  ELSE IF item.entry THEN <<item.name>> ELSE <<>>

DiscoverInDir(dir, where) ==
  LET names == FlattenSeq([i \in 1..Len(dir) |-> EntriesOf(dir[i])])
  IN [i \in 1..Len(names) |-> [name |-> names[i], where |-> where]]

\* extension_dirs: the project's directory, when trusted, comes before the user's.
ExtensionDirs(layout) ==
  (IF layout.trusted THEN DiscoverInDir(layout.project, "project") ELSE <<>>)
  \o DiscoverInDir(layout.user, "user")

\* add in discover_extensions: a path or a name is taken once, the first wins.
Added(found) == {i \in DOMAIN found : \A j \in 1 .. i - 1 : found[j].name # found[i].name}

\* discover_extensions: the directories, unless extensions are disabled, then
\* the paths given explicitly.
Discover(layout) ==
  LET found == (IF layout.enabled THEN ExtensionDirs(layout) ELSE <<>>)
               \o DiscoverInDir(layout.explicit, "explicit")
  IN  FlattenSeq([i \in DOMAIN found |-> IF i \in Added(found) THEN <<found[i]>> ELSE <<>>])

\* _load_extension: a module that fails to import, or whose setup is missing or
\* a coroutine, is left out with a diagnostic.
LoadExtensions(layout) ==
  LET found == Discover(layout)
      works == {i \in DOMAIN found : found[i].name \notin layout.broken}
  IN  FlattenSeq([i \in DOMAIN found |-> IF i \in works THEN <<found[i]>> ELSE <<>>])

----------------------------------------------------------------------------
(* Setup and registrations.                                                *)

Instance(e, g) == [name |-> e.name, gen |-> g]

\* register_tool, register_command, register_message_renderer: the first
\* registration of a name wins.
Register(reg, inst, tool) ==
  IF reg[tool] = Nobody THEN [reg EXCEPT ![tool] = inst] ELSE reg

\* _remove_registrations.
RemoveRegistrations(reg, inst) ==
  [t \in Tools |-> IF reg[t].name = inst.name THEN Nobody ELSE reg[t]]

\* _setup_extension: the registrations of a setup that raises are taken back.
SetupExtension(state, e, layout, g) ==
  LET inst == Instance(e, g)
      reg == [t \in Tools |-> IF t \in layout.tools[e.name] THEN Register(state.reg, inst, t)[t]
                               ELSE state.reg[t]]
  IN IF e.name \in layout.raising
     THEN [state EXCEPT !.reg = RemoveRegistrations(reg, inst), !.kept = @ \cup {inst}]
     ELSE [ext |-> Append(state.ext, [inst |-> inst, on |-> layout.on[e.name]]),
           reg |-> reg, kept |-> state.kept \cup {inst}]

\* load.
Loaded(layout, g) ==
  LET found == LoadExtensions(layout)
      after[i \in 0 .. Len(found)] ==
        IF i = 0 THEN [ext |-> <<>>, reg |-> [t \in Tools |-> Nobody], kept |-> {}]
        ELSE SetupExtension(after[i - 1], found[i], layout, g)
  IN  after[Len(found)]

\* compose_tools: an extension's tool replaces the built-in one of its name.
ComposeTools(reg) ==
  [t \in Tools |-> IF reg[t] # Nobody THEN reg[t]
                   ELSE IF t \in BuiltIn THEN Host ELSE Nobody]

----------------------------------------------------------------------------
(* Start-up: CodingSession.load with no runtime given.  The repair of an   *)
(* interrupted transcript may replace the harness that was just made.      *)

\* The listener is attached to the harness the session ends up with.
Attached(repaired) == {IF repaired THEN 2 ELSE 1}

ExtInit ==
  \E layout \in Layouts, repaired \in BOOLEAN :
    LET l == Loaded(layout, 1)
        h == IF repaired THEN 2 ELSE 1
    IN /\ generation = 1
       /\ extensions = l.ext /\ registry = l.reg /\ captured = l.kept
       /\ harness = [id |-> h, tools |-> ComposeTools(l.reg)]
       /\ made = h /\ listening = Attached(repaired)
       /\ pendingStart = TRUE
       /\ flow = [f \in Flows |-> Idle]
       /\ told = [i \in l.kept |-> "nothing"]
       /\ stale = {} /\ doubled = FALSE /\ overlapped = FALSE

Goto(f, at) == flow' = [flow EXCEPT ![f].at = at, ![f].next = 1]
Begin(f, kind, at) ==
  /\ flow[f] = Idle
  /\ flow' = [flow EXCEPT ![f] = [kind |-> kind, at |-> at, next |-> 1,
                                  harness |-> harness]]
  /\ overlapped' = (overlapped \/ \E g \in Flows \ {f} : flow[g] # Idle)

\* emit_pending_session_start: once, when the host has its user interface.
EmitPendingSessionStart ==
  /\ pendingStart
  /\ pendingStart' = FALSE
  /\ Begin("pump", "startup", "start")
  /\ UNCHANGED <<generation, stale, extensions, registry, captured, harness, made, listening,
                 told, doubled>>

\* aclose, when the application ends: the last flow.
BeginQuit ==
  /\ ~pendingStart
  /\ Begin("pump", "quit", "shutdown")
  /\ UNCHANGED <<generation, stale, extensions, registry, captured, harness, made, listening,
                 pendingStart, told, doubled>>

\* /reload, /new, /resume in the pump; the session picker's resume in a worker.
BeginReload ==
  /\ ~pendingStart /\ generation < MaxLoads
  /\ Begin("pump", "reload", "shutdown")
  /\ UNCHANGED <<generation, stale, extensions, registry, captured, harness, made, listening,
                 pendingStart, told, doubled>>

BeginReplace(f, kind) ==
  /\ ~pendingStart /\ made < MaxSwaps
  /\ f = "worker" => kind = "resume"
  /\ Begin(f, kind, "load")
  /\ UNCHANGED <<generation, stale, extensions, registry, captured, harness, made, listening,
                 pendingStart, told, doubled>>

\* load of the replacement: a new harness with the tools of the shared runtime.
\* A session that cannot be loaded leaves the present one as it is.
LoadReplacement(f) ==
  /\ flow[f].at = "load"
  /\ \/ /\ made < MaxSwaps
        /\ made' = made + 1
        /\ flow' = [flow EXCEPT ![f].at = "shutdown",
                      ![f].harness = [id |-> made + 1, tools |-> ComposeTools(registry)]]
     \/ flow' = [flow EXCEPT ![f] = Idle] /\ UNCHANGED made
  /\ UNCHANGED <<generation, stale, extensions, registry, captured, harness, listening,
                 pendingStart, told, doubled, overlapped>>

----------------------------------------------------------------------------
(* The lifecycle events: _emit_lifecycle walks the live list of            *)
(* extensions and awaits each handler.                                     *)

EventOf(at) == IF at = "start" THEN "session_start" ELSE "session_shutdown"

OutOfTurn(inst, event) ==
  told[inst] \notin (IF event = "session_start" THEN {"nothing", "session_shutdown"}
                     ELSE {"session_start"})

Emit(f) ==
  /\ flow[f].at \in {"shutdown", "start"}
  /\ flow[f].next <= Len(extensions)
  /\ LET x == extensions[flow[f].next]  event == EventOf(flow[f].at)
     IN IF event \in x.on
        THEN /\ told' = [told EXCEPT ![x.inst] = event]
             /\ doubled' = (doubled \/ (Lifecycle \subseteq x.on /\ OutOfTurn(x.inst, event)))
        ELSE UNCHANGED <<told, doubled>>
  /\ flow' = [flow EXCEPT ![f].next = @ + 1]
  /\ UNCHANGED <<generation, stale, extensions, registry, captured, harness, made, listening,
                 pendingStart, overlapped>>

Emitted(f) ==
  /\ flow[f].at \in {"shutdown", "start"}
  /\ flow[f].next > Len(extensions)
  /\ CASE flow[f].kind = "quit" -> Goto(f, "closed")
       [] flow[f].at = "shutdown" /\ flow[f].kind # "quit" -> Goto(f, "swap")
       [] flow[f].at = "start" -> flow' = [flow EXCEPT ![f] = Idle]
  /\ UNCHANGED <<generation, stale, extensions, registry, captured, harness, made, listening,
                 pendingStart, told, doubled, overlapped>>

\* attach_harness_listener: replaces the previous subscription.
Attach(h) == {h}

\* _adopt_replacement between its two events: the interface is cleared, the
\* replacement's state taken over, the runtime bound and attached.
AdoptReplacement(f) ==
  /\ flow[f].at = "swap" /\ flow[f].kind \in {"new", "resume"}
  /\ harness' = flow[f].harness
  /\ listening' = Attach(flow[f].harness.id)
  /\ Goto(f, "start")
  /\ UNCHANGED <<generation, stale, extensions, registry, captured, made, pendingStart, told,
                 doubled, overlapped>>

\* Seeded fault: a new generation is begun and the old one left active.
ResetKeeping == generation' = generation + 1 /\ stale' = stale

\* reset_for_reload: the interface is cleared, the old generation invalidated and
\* a new one begun; what the old one registered is dropped.
ResetForReload == generation' = generation + 1 /\ stale' = stale \cup {generation}

\* reload between its two events: reset, load, compose, attach.
ReloadExtensions(f) ==
  /\ flow[f].at = "swap" /\ flow[f].kind = "reload"
  /\ \E layout \in Layouts :
       LET l == Loaded(layout, generation + 1)
       IN /\ ResetForReload
          /\ extensions' = l.ext /\ registry' = l.reg
          /\ captured' = captured \cup l.kept
          /\ told' = [i \in captured \cup l.kept |->
                        IF i \in captured THEN told[i] ELSE "nothing"]
          /\ harness' = [harness EXCEPT !.tools = ComposeTools(l.reg)]
  /\ listening' = Attach(harness.id)
  /\ Goto(f, "start")
  /\ UNCHANGED <<made, pendingStart, doubled, overlapped>>

----------------------------------------------------------------------------
(* A task an extension started keeps its API object and uses it at any     *)
(* time; every member of the API first asserts that its generation is      *)
(* active.                                                                 *)

\* assert_active.
AssertActive(inst) == inst.gen \notin stale

UseApi(inst, tool) ==
  /\ inst \in captured /\ AssertActive(inst)
  /\ registry' = Register(registry, inst, tool)
  /\ UNCHANGED <<generation, stale, extensions, captured, harness, made, listening, pendingStart,
                 flow, told, doubled, overlapped>>

ExtNext ==
  \/ EmitPendingSessionStart
  \/ BeginReload \/ BeginQuit
  \/ \E f \in Flows, kind \in {"new", "resume"} : BeginReplace(f, kind)
  \/ \E f \in Flows :
       LoadReplacement(f) \/ Emit(f) \/ Emitted(f) \/ AdoptReplacement(f)
       \/ ReloadExtensions(f)
  \/ \E inst \in captured, tool \in Tools : UseApi(inst, tool)
----------------------------------------------------------------------------
(* Hazards.                                                                *)

\* Only what is current acts and listens.  What an extension registered before a
\* reload does not act after it: every registration is of the current generation,
\* although tasks of earlier ones still hold the API objects they were given; and,
\* when no two flows overlapped, so is every tool of the harness (a resume in a
\* worker that overlaps a reload does install the tools of the generation before).
\* The runtime hears the session's present harness and no other, whatever sequence
\* of repairs, reloads and replacements made it: no event is missed, and none is
\* delivered twice or from a harness that was discarded.  And an extension that
\* listens to both is told session_start and session_shutdown in turn, a start
\* first, through any sequence of flows that do not overlap.
RegistrationsCurrent ==
  /\ \A t \in Tools : registry[t].gen \in {0, generation}
  /\ ~overlapped => \A t \in Tools : harness.tools[t].gen \in {0, generation}
HeardOnce == listening = {harness.id}
Bracketed == doubled => overlapped

OnlyCurrent == RegistrationsCurrent /\ HeardOnce /\ Bracketed
=============================================================================
