--------------------------- MODULE TerminalProofs ---------------------------
(***************************************************************************)
(* Theorems about Terminal: the runs of prompts, the rows of the           *)
(* transcript, the editor, the login dialogs, the completion box and the   *)
(* session tree.  A behaviour is one of a single part, so each part has an *)
(* invariant of its own, which its steps keep and the others do not touch. *)
(*                                                                         *)
(* A run: what is confirmed is persisted because at most one run has the   *)
(* harness of the session, the list it appends to is the one the session   *)
(* persists from, and it has counted all of it (OneRun).  The property is  *)
(* one of behaviours in which no session is opened under a prompt and no   *)
(* prompt is queued after the worker's last look, so the invariant is too  *)
(* (CalmRunInv).                                                           *)
(*                                                                         *)
(* The tree: every entry is visited once because an entry is pushed only   *)
(* by its parent, and what is pushed or listed is closed under both        *)
(* (Visited); the rows agree with the list unless a toggle is under way,   *)
(* and then the tree has been disturbed since the highlight (PickerInv).   *)
(*                                                                         *)
(* The transcript: what is said after every step of a prompt is what the   *)
(* messages of the session say so far, and what the step has still to add  *)
(* (Mirrored): while a message streams that holds of the rows before it,   *)
(* and while its tools run each row of a call says whether it has ended.   *)
(* A row is found again by its number, from the end: the last row that     *)
(* matches stands for the last that is said (LastChange, AnswersAt), in    *)
(* the rows made live and in those that are replayed alike.                *)
(*                                                                         *)
(* The editor: no text ever has a placeholder twice (Neat), so replacing   *)
(* the first occurrence of each replaces all; what the text says with the  *)
(* placeholders of a set read as their contents (Meaning) is a morphism of *)
(* concatenation, so replacing them one after the other gives the Meaning  *)
(* of the text (ReplaceMeaning, ExpandedIs); and a paste whose placeholder *)
(* never left the screen is still held back (KeptIsHeld).                  *)
(***************************************************************************)
EXTENDS Terminal, SequenceLemmas, FiniteSetTheorems, SequenceTheorems, TLAPS
-----------------------------------------------------------------------------
(* Prompts, their runs and the session: nothing is lost unless the session *)
(* is opened anew under a prompt, or a prompt is queued too late.          *)

Messages == Prompts \X Nat

Calm == ~openedUnder /\ ~lateQueue

RunType ==
  /\ stage \in [Prompts -> Stages] /\ inline \subseteq Prompts
  /\ run \in [Prompts -> [harness : Nat, list : Nat, count : Nat, said : Nat]]
  /\ lists \in Seq(Seq(Messages)) /\ Len(lists) \in 1 .. MaxLists
  /\ now \in [session : Sessions, harness : 1 .. Len(lists), list : 1 .. Len(lists)]
  /\ queue \in [1 .. MaxLists -> SUBSET Prompts]
  /\ journal \in [Sessions -> Seq(Messages)] /\ home \in [Prompts -> Sessions]
  /\ current \in 0 .. MaxPrompts /\ worker \in 0 .. MaxPrompts

\* A prompt that a worker of the default group works on.
Working(p) == stage[p] \in {"hooks", "limits", "asked", "replied", "after", "compact"}
\* A prompt whose run has its harness.
Holds(p) == stage[p] \in {"asked", "replied", "closing"}

\* At most one prompt is worked on, by the worker the application knows of; a prompt queued from
\* the editor gets no further than into a queue; and a manual compaction is alone.
OneWorker ==
  /\ \A p \in inline : stage[p] \in {"hooks", "queued", "done"}
  /\ \A p \in Prompts \ inline : Working(p) => worker = p /\ current = p
  /\ worker # 0 => worker \notin inline /\ Working(worker)
  /\ compacting # "no" => worker = 0

\* At most one run has the harness of the session; it appends to the list from which the session
\* persists, and has counted all of it.
OneRun ==
  /\ \A p \in Prompts : Holds(p) => run[p].harness = now.harness /\ now.harness \in busyHarness
  /\ \A p, q \in Prompts : Holds(p) /\ Holds(q) => p = q
  /\ \A p \in Prompts : InRun(p) =>
       /\ run[p].list = now.list /\ run[p].count = Len(lists[now.list])
       /\ home[p] = now.session

\* A queued prompt waits in one queue.
Queued ==
  /\ \A l \in 1 .. MaxLists : \A q \in queue[l] : stage[q] = "queued"
  /\ \A l, k \in 1 .. MaxLists : l # k => queue[l] \cap queue[k] = {}

\* What is confirmed is of prompts that were let into a run, and numbered up to what their run has
\* said; and nothing else is persisted.
Dated ==
  /\ \A m \in Confirmed : stage[m[1]] \notin {"none", "hooks", "limits", "queued"}
  /\ \A m \in Confirmed : InRun(m[1]) => m[2] <= run[m[1]].said
  /\ \A s \in Sessions : ToSet(journal[s]) \subseteq Confirmed

RunInv == RunType /\ OneWorker /\ OneRun /\ Queued /\ Dated /\ Persisted

\* Once a session was opened under a prompt, or a prompt queued too late, it stays so.
CalmRunInv == Calm => RunInv
------------------------------------------------------------------------------
(* Messages and where they are persisted *)

Early == {"none", "hooks", "limits", "queued"}
Places(j, x) == {i \in DOMAIN j : j[i] = x}

\* How often a message is in a journal one longer.
LEMMA PlacesAppend ==
  ASSUME NEW j \in Seq(Messages), NEW m \in Messages, NEW x \in Messages
  PROVE  /\ IsFiniteSet(Places(j, x))
         /\ x # m => Cardinality(Places(Append(j, m), x)) = Cardinality(Places(j, x))
         /\ m \notin ToSet(j) => Cardinality(Places(Append(j, m), m)) = 1
         /\ x \notin ToSet(j) => Cardinality(Places(j, x)) = 0
<1>1. IsFiniteSet(Places(j, x))
  <2>1. DOMAIN j = 1 .. Len(j) /\ Len(j) \in Nat
    OBVIOUS
  <2> QED
    <3>1. IsFiniteSet(1 .. Len(j))
      BY <2>1, FS_Interval
    <3>2. Places(j, x) \subseteq 1 .. Len(j)
      BY <2>1 DEF Places
    <3> QED
      BY <3>1, <3>2, FS_Subset
<1>2. ASSUME x # m PROVE Places(Append(j, m), x) = Places(j, x)
  BY <1>2 DEF Places
<1>3. ASSUME m \notin ToSet(j) PROVE Places(Append(j, m), m) = {Len(j) + 1}
  BY <1>3 DEF Places, ToSet
<1>4. ASSUME x \notin ToSet(j) PROVE Places(j, x) = {}
  BY <1>4 DEF Places, ToSet
<1> QED
  BY <1>1, <1>2, <1>3, <1>4, FS_Singleton, FS_EmptySet

LEMMA LastIs ==
  ASSUME NEW s \in Seq(Messages), NEW m \in Messages, NEW n \in Nat, n = Len(s)
  PROVE  SubSeq(Append(s, m), n + 1, n + 1) = <<m>>
<1>1. /\ Append(s, m) \in Seq(Messages) /\ Len(Append(s, m)) = n + 1
      /\ Append(s, m)[n + 1] = m
  OBVIOUS
<1> DEFINE t == SubSeq(Append(s, m), n + 1, n + 1)
<1>2. t \in Seq(Messages) /\ Len(t) = 1 /\ t[1] = m
  <2>1. n + 1 \in Int /\ \A i \in n + 1 .. n + 1 : i = n + 1 /\ Append(s, m)[i] \in Messages
    BY <1>1
  <2> QED
    BY <1>1, <2>1, SubSeqProperties
<1> HIDE DEF t
<1>3. t = <<m>>
  BY <1>2
<1> QED
  BY <1>3 DEF t

LEMMA ConfirmedMessages ==
  ASSUME RunType
  PROVE  /\ Confirmed \subseteq Messages
         /\ \A x \in Confirmed : x[1] \in Prompts /\ x[2] \in Nat
<1>1. \A i \in DOMAIN lists : lists[i] \in Seq(Messages)
  BY DEF RunType
<1>2. \A i \in DOMAIN lists : ToSet(lists[i]) \subseteq Messages
  BY <1>1 DEF ToSet
<1>3. Confirmed \subseteq Messages
  BY <1>2 DEF Confirmed
<1> QED
  BY <1>3 DEF Messages

PersistedIn(m, s) ==
  Cardinality(Places(journal[s], m)) = (IF s = home[m[1]] THEN 1 ELSE 0)
LEMMA PersistedIs == Persisted <=> \A m \in Confirmed : \A s \in Sessions : PersistedIn(m, s)
  BY DEF Persisted, PersistedIn, Places

\* A message is confirmed: it is put into one list and into one journal, that of its home.
LEMMA Confirming ==
  ASSUME RunType, Persisted, \A s \in Sessions : ToSet(journal[s]) \subseteq Confirmed,
         NEW m \in Messages, m \notin Confirmed,
         NEW i \in DOMAIN lists, lists' = [lists EXCEPT ![i] = Append(@, m)],
         NEW s \in Sessions, journal' = [journal EXCEPT ![s] = Append(@, m)],
         home'[m[1]] = s, \A n \in Confirmed : home'[n[1]] = home[n[1]]
  PROVE  /\ Confirmed' = Confirmed \cup {m}
         /\ Persisted'
         /\ \A t \in Sessions : ToSet(journal'[t]) \subseteq Confirmed'
<1>1. /\ DOMAIN lists' = DOMAIN lists /\ lists[i] \in Seq(Messages)
      /\ lists'[i] = Append(lists[i], m) /\ \A k \in DOMAIN lists : k # i => lists'[k] = lists[k]
  BY SMTT(30) DEF RunType
<1>2. ToSet(lists'[i]) = ToSet(lists[i]) \cup {m}
  BY <1>1 DEF ToSet
<1>3. Confirmed' = Confirmed \cup {m}
  BY <1>1, <1>2 DEF Confirmed
<1>4. \A t \in Sessions : journal[t] \in Seq(Messages)
  BY DEF RunType
<1>5. /\ journal'[s] = Append(journal[s], m)
      /\ \A t \in Sessions : t # s => journal'[t] = journal[t]
  BY DEF RunType
<1>6. \A t \in Sessions : ToSet(journal'[t]) \subseteq ToSet(journal[t]) \cup {m}
  BY <1>4, <1>5 DEF ToSet
<1>7. Confirmed \subseteq Messages
  BY SMTT(30) DEF Confirmed, RunType, ToSet
<1>8. ASSUME NEW n \in Confirmed', NEW t \in Sessions PROVE PersistedIn(n, t)'
  <2>1. n \in Messages /\ m \notin ToSet(journal[t])
    BY <1>3, <1>7
  <2>2. CASE n = m
    <3>1. t = s => Cardinality(Places(journal'[t], n)) = 1
      BY <2>1, <2>2, <1>4, <1>5, PlacesAppend
    <3>2. t # s => Cardinality(Places(journal'[t], n)) = 0
      BY <2>1, <2>2, <1>4, <1>5, PlacesAppend
    <3> QED
      BY <3>1, <3>2, <2>2 DEF PersistedIn
  <2>3. CASE n # m
    <3>1. n \in Confirmed /\ PersistedIn(n, t)
      BY <2>3, <1>3, PersistedIs
    <3>2. Cardinality(Places(journal'[t], n)) = Cardinality(Places(journal[t], n))
      BY <2>1, <2>3, <1>4, <1>5, PlacesAppend
    <3> QED
      BY <3>1, <3>2 DEF PersistedIn
  <2> QED
    BY <2>2, <2>3
<1>9. Persisted'
  BY <1>8 DEF Persisted, PersistedIn, Places
<1> QED
  BY <1>3, <1>6, <1>9

LEMMA SameConfirmed == UNCHANGED lists => Confirmed' = Confirmed
  BY DEF Confirmed

\* Nothing is confirmed, and no prompt is let into a run or taken back out of it.
LEMMA NothingConfirmed ==
  ASSUME RunInv, Confirmed' = Confirmed, UNCHANGED <<journal, home, run>>,
         \A p \in Prompts : /\ stage[p] \notin Early => stage'[p] \notin Early
                            /\ stage'[p] \in {"asked", "replied"} => stage[p] \in {"asked", "replied"}
  PROVE  Dated' /\ Persisted'
<1>1. Confirmed \subseteq Messages
  BY DEF Confirmed, RunInv, RunType, ToSet
<1>2. Dated'
  BY <1>1 DEF Dated, RunInv, InRun, Early, Messages
<1>3. Persisted'
  BY <1>1 DEF Persisted, RunInv
<1> QED
  BY <1>2, <1>3
------------------------------------------------------------------------------
(* The steps of a run *)

LEMMA RunInitInv == RunInit => CalmRunInv
<1> SUFFICES ASSUME RunInit PROVE RunInv
  BY DEF CalmRunInv
<1>1. RunType
  BY RunAssumption DEF RunInit, RunType, Stages, First, Messages, Prompts
<1>2. Confirmed = {}
  BY DEF RunInit, Confirmed, ToSet
<1>3. OneWorker /\ OneRun /\ Queued
  BY DEF RunInit, OneWorker, OneRun, Queued, Working, Holds, InRun
<1>4. Dated /\ Persisted
  BY <1>2 DEF Dated, Persisted, RunInit, ToSet
<1> QED
  BY <1>1, <1>3, <1>4 DEF RunInv

\* What a prompt, or a session opened, does to the flags is never undone.
LEMMA StaysSwapped ==
  ASSUME RunNext, Calm' PROVE Calm
<1>1. ASSUME NEW p \in Prompts,
             Submit(p) \/ ExtensionTurn(p) \/ CompactBefore(p) \/ CompactAfterBegins(p)
             \/ CompactAfterEnds(p)
      PROVE  Calm
  BY <1>1 DEF Calm, Submit, ExtensionTurn, CompactBefore, CompactAfterBegins, CompactAfterEnds
<1>2. ASSUME NEW p \in Prompts, AfterHooks(p) PROVE Calm
  <2>1. UNCHANGED openedUnder /\ (lateQueue => lateQueue')
    BY <1>2 DEF AfterHooks
  <2> QED
    BY <2>1 DEF Calm
<1>3. ASSUME NEW p \in Prompts, Start(p) \/ Reply(p) \/ RunEnds(p) \/ Settled(p) \/ Closed(p)
      PROVE  Calm
  BY <1>3 DEF Calm, Start, Reply, RunEnds, Settled, Closed
<1>4. ASSUME NEW p \in Prompts, NEW q \in Prompts, TakeQueued(p, q) PROVE Calm
  BY <1>4 DEF Calm, TakeQueued
<1>5. ASSUME Escape \/ Compact \/ CompactEnds PROVE Calm
  BY <1>5 DEF Calm, Escape, Compact, CompactEnds
<1>6. ASSUME NEW s \in Sessions, Open(s) PROVE Calm
  BY <1>6 DEF Calm, Open
<1>7. ASSUME NEW s \in Sessions, Adopt(s) PROVE Calm
  <2>1. UNCHANGED lateQueue /\ (openedUnder => openedUnder')
    BY <1>7 DEF Adopt
  <2> QED
    BY <2>1 DEF Calm
<1> QED
  BY <1>1, <1>2, <1>3, <1>4, <1>5, <1>6, <1>7 DEF RunNext, Work

\* A worker is started, and no other prompt stays with a worker.
LEMMA StartWorkerStep ==
  ASSUME RunInv, NEW p \in Prompts, stage[p] = "none", StartWorker(p),
         UNCHANGED <<inline, run, lists, now, busyHarness, journal, home, queue>>
  PROVE  RunInv'
<1> USE DEF RunInv
<1>1. /\ p \notin inline /\ p \in 1 .. MaxPrompts
      /\ \A q \in Prompts : stage'[q] =
           IF q = p THEN "hooks"
           ELSE IF UnderWay(q) /\ q \notin inline /\ stage[q] # "closing"
             THEN Cancelled(q, "displaced") ELSE stage[q]
  BY DEF StartWorker, OneWorker, Prompts, RunType
<1>2. \A q \in Prompts : q # p =>
        \/ stage'[q] = stage[q] /\ (q \in inline \/ ~Working(q))
        \/ q \notin inline /\ stage'[q] \in {"closing", "displaced", "done"} /\ ~Working(q)'
           /\ (stage'[q] = "closing" => InRun(q)) /\ stage[q] \notin {"none", "queued"}
           /\ (stage'[q] = "displaced" => stage[q] \in Early)
  BY <1>1 DEF UnderWay, Cancelled, InRun, Working, Early
<1>3. stage' \in [Prompts -> Stages]
  BY <1>1, <1>2 DEF StartWorker, RunType, Stages
<1>4. RunType'
  <2>1. RunType /\ worker' = p /\ current' = p /\ p \in 0 .. MaxPrompts
        /\ UNCHANGED <<inline, run, lists, now, queue, journal, home>>
    BY <1>1 DEF StartWorker
  <2> QED BY ONLY <1>3, <2>1 DEF RunType
<1>5. OneWorker'
  <2>1. worker' = p /\ current' = p /\ compacting' = "no" /\ inline' = inline /\ p # 0
    BY <1>1 DEF StartWorker
  <2>2. \A q \in inline : stage'[q] \in {"hooks", "queued", "done"}
    BY <1>1, <1>2 DEF OneWorker, RunType
  <2>3. \A q \in Prompts \ inline : Working(q)' => q = p
    BY <1>2 DEF Working
  <2> QED
    BY <2>1, <2>2, <2>3, <1>1 DEF OneWorker, Working
<1>6. \A q \in Prompts : (Holds(q)' => Holds(q)) /\ (InRun(q)' => InRun(q))
  BY <1>1, <1>2 DEF Holds, InRun, Working
<1>7. OneRun'
  BY <1>6 DEF OneRun, InRun
<1>8. Queued'
  BY <1>1, <1>2 DEF Queued, RunType, Working
<1>9. Dated' /\ Persisted'
  BY <1>1, <1>2, <1>6, SameConfirmed, NothingConfirmed DEF Early, InRun
<1> QED
  BY <1>4, <1>5, <1>7, <1>8, <1>9
LEMMA SubmitStep ==
  ASSUME RunInv, NEW p \in Prompts, Submit(p)
  PROVE  RunInv'
<1> USE DEF RunInv
<1>1. CASE shown
  <2>1. /\ stage[p] = "none" /\ stage' = [stage EXCEPT ![p] = "hooks"] /\ inline' = inline \cup {p}
        /\ UNCHANGED <<run, lists, now, busyHarness, queue, journal, home, compacting, worker, current>>
    BY <1>1 DEF Submit, Next1
  <2>2. \A q \in Prompts : /\ q # p => stage'[q] = stage[q]
                           /\ q = p => stage'[q] = "hooks"
    BY <2>1 DEF RunType
  <2>3. RunType'
    BY <2>1 DEF RunType, Stages
  <2>4. worker # p
    BY <2>1 DEF OneWorker, Working, Prompts
  <2>5. OneWorker'
    BY <2>1, <2>2, <2>4 DEF OneWorker, Working, RunType, Prompts
  <2>6. OneRun'
    BY <2>1, <2>2 DEF OneRun, Holds, InRun
  <2>7. Queued'
    BY <2>1, <2>2 DEF Queued, RunType
  <2>8. Dated' /\ Persisted'
    BY <2>1, <2>2, SameConfirmed, NothingConfirmed DEF Early
  <2> QED
    BY <2>3, <2>5, <2>6, <2>7, <2>8
<1>2. CASE ~shown
  BY <1>2, StartWorkerStep DEF Submit, Next1
<1> QED
  BY <1>1, <1>2

\* A prompt that has no run yet is put into the queue of the harness.
LEMMA QueueStep ==
  ASSUME RunInv, NEW p \in Prompts, stage[p] \in {"none", "hooks"}, worker # p,
         p \in inline \/ stage[p] = "none",
         stage' = [stage EXCEPT ![p] = "queued"],
         queue' = [queue EXCEPT ![now.harness] = @ \cup {p}],
         UNCHANGED <<inline, run, lists, now, busyHarness, journal, home, compacting, worker, current>>
  PROVE  RunInv'
<1> USE DEF RunInv
<1>1. \A q \in Prompts : /\ q # p => stage'[q] = stage[q]
                         /\ q = p => stage'[q] = "queued"
  BY DEF RunType
<1>2. now.harness \in 1 .. MaxLists
  BY RunAssumption DEF RunType
<1>3. RunType'
  BY <1>2 DEF RunType, Stages
<1>4. OneWorker'
  BY <1>1 DEF OneWorker, Working, RunType, Prompts
<1>5. OneRun'
  BY <1>1 DEF OneRun, Holds, InRun
<1>6. \A l \in 1 .. MaxLists : queue'[l] = IF l = now.harness THEN queue[l] \cup {p} ELSE queue[l]
  BY <1>2 DEF RunType
<1>7. \A l \in 1 .. MaxLists : p \notin queue[l] /\ queue[l] \subseteq Prompts
  BY DEF Queued, RunType
<1>8. Queued'
  BY <1>1, <1>6, <1>7 DEF Queued
<1>9. Dated' /\ Persisted'
  <2>1. \A q \in Prompts : /\ stage[q] \notin Early => stage'[q] \notin Early
                           /\ stage'[q] \in {"asked", "replied"} => stage[q] \in {"asked", "replied"}
    BY <1>1 DEF Early
  <2> QED
    BY <2>1, SameConfirmed, NothingConfirmed
<1> QED
  BY <1>3, <1>4, <1>5, <1>8, <1>9

LEMMA ExtensionTurnStep ==
  ASSUME RunInv, NEW p \in Prompts, ExtensionTurn(p)
  PROVE  RunInv'
<1>1. stage[p] = "none" /\ worker # p
  BY DEF ExtensionTurn, Next1, RunInv, OneWorker, Working, Prompts
<1>2. CASE now.harness \in busyHarness \/ worker # 0
  BY <1>1, <1>2, QueueStep DEF ExtensionTurn
<1>3. CASE ~(now.harness \in busyHarness \/ worker # 0)
  BY <1>1, <1>3, StartWorkerStep DEF ExtensionTurn
<1> QED
  BY <1>2, <1>3

\* The worker's prompt goes on, or is over and the worker with it; nothing is confirmed.
LEMMA WorkerStep ==
  ASSUME RunInv, NEW p \in Prompts, p \notin inline, NEW to \in Stages, Working(p),
         stage' = [stage EXCEPT ![p] = to],
         \/ to \in {"hooks", "limits", "after", "compact"} /\ worker' = worker
         \/ to \in {"refused", "done"} /\ worker' = 0,
         Confirmed' = Confirmed, UNCHANGED <<inline, run, queue, journal, home>>,
         compacting' \in {compacting, "no"}, current' = current, to \in Early => stage[p] \in Early
  PROVE  OneWorker' /\ Queued' /\ Dated' /\ Persisted'
<1> USE DEF RunInv
<1>1. \A q \in Prompts : /\ q # p => stage'[q] = stage[q]
                         /\ q = p => stage'[q] = to
  BY DEF RunType
<1>2. worker = p /\ \A q \in Prompts \ inline : q # p => ~Working(q)
  BY DEF OneWorker
<1>3. OneWorker'
  <2>1. \A q \in inline : q \in Prompts /\ q # p
    BY DEF RunType
  <2>2. \A q \in inline' : stage'[q] \in {"hooks", "queued", "done"}
    BY <2>1, <1>1 DEF OneWorker
  <2>3. \A q \in Prompts \ inline' : Working(q)' => q = p /\ to \notin {"refused", "done"}
    BY <1>1, <1>2 DEF Working
  <2>4. worker' # 0 => worker' = p /\ Working(p)'
    BY <1>1, <1>2 DEF Working
  <2> QED
    BY <1>2, <2>2, <2>3, <2>4 DEF OneWorker
<1>4. Queued'
  BY <1>1, ZenonT(30) DEF Queued, RunType, Working
<1>5. Dated' /\ Persisted'
  <2>1. \A q \in Prompts : /\ stage[q] \notin Early => stage'[q] \notin Early
                           /\ stage'[q] \in {"asked", "replied"} => stage[q] \in {"asked", "replied"}
    BY <1>1 DEF Early
  <2> QED
    BY <2>1, NothingConfirmed
<1> QED
  BY <1>3, <1>4, <1>5
LEMMA AfterHooksStep ==
  ASSUME RunInv, Calm', NEW p \in Prompts, AfterHooks(p)
  PROVE  RunInv'
<1> USE DEF RunInv
<1>1. /\ stage[p] = "hooks" /\ Working(p)
      /\ UNCHANGED <<inline, run, lists, now, busyHarness, journal, current, compacting, home>>
  BY DEF AfterHooks, Working
<1>2. CASE p \in inline
  <2>1. now.harness \in busyHarness
    BY <1>2 DEF AfterHooks, Calm
  <2>2. worker # p
    BY <1>2, <1>1 DEF OneWorker, Prompts
  <2> QED
    BY <1>1, <1>2, <2>1, <2>2, QueueStep DEF AfterHooks
<1>3. CASE p \notin inline
  <2>1. current = p
    BY <1>1, <1>3 DEF OneWorker
  <2>2. PICK to \in {"limits", "refused"} :
          /\ stage' = [stage EXCEPT ![p] = to] /\ queue' = queue
          /\ worker' = IF to = "limits" THEN worker ELSE 0
    BY <1>3, <2>1 DEF AfterHooks, WorkerOver
  <2>3. OneWorker' /\ Queued' /\ Dated' /\ Persisted'
    <3>1. to = "limits" \/ to = "refused"
      BY <2>2
    <3> QED
      BY <1>1, <1>3, <2>2, <3>1, SameConfirmed, WorkerStep DEF Stages, Early
  <2>4. RunType'
    <3>1. "limits" \in Stages /\ "refused" \in Stages
      BY DEF Stages
    <3>2. stage \in [Prompts -> Stages] /\ worker \in 0 .. MaxPrompts /\ 0 \in 0 .. MaxPrompts
      BY RunAssumption DEF RunType
    <3>3. stage' \in [Prompts -> Stages] /\ worker' \in 0 .. MaxPrompts
      BY <2>2, <3>1, <3>2
    <3> QED
      BY <1>1, <2>2, <3>3 DEF RunType
  <2>5. \A q \in Prompts : (Holds(q)' => Holds(q)) /\ (InRun(q)' => InRun(q))
    BY <2>2 DEF Holds, InRun, RunType
  <2>6. OneRun'
    BY <1>1, <2>5 DEF OneRun, InRun
  <2> QED
    BY <2>3, <2>4, <2>6
<1> QED
  BY <1>2, <1>3

\* The session gets a list of messages that are all confirmed.
LEMMA ListAdded ==
  ASSUME RunType, NEW speeches \in Seq(Messages), ToSet(speeches) \subseteq Confirmed,
         Len(lists) < MaxLists, lists' = Append(lists, speeches)
  PROVE  /\ Confirmed' = Confirmed
         /\ lists' \in Seq(Seq(Messages)) /\ Len(lists') = Len(lists) + 1
         /\ Len(lists') \in 1 .. MaxLists
<1>1. /\ lists' \in Seq(Seq(Messages)) /\ Len(lists') = Len(lists) + 1
      /\ Len(lists') \in 1 .. MaxLists
  BY RunAssumption, SMTT(30) DEF RunType
<1>2. /\ DOMAIN lists' = DOMAIN lists \cup {Len(lists) + 1}
      /\ lists'[Len(lists) + 1] = speeches
      /\ \A i \in DOMAIN lists : lists'[i] = lists[i]
  BY SMTT(30) DEF RunType
<1>3. Confirmed' = Confirmed
  BY <1>2 DEF Confirmed
<1> QED
  BY <1>1, <1>3

\* The worker's prompt compacts before its run or after it, or settles.
LEMMA CompactStep ==
  ASSUME RunInv, NEW p \in Prompts, p \notin inline, NEW to \in Stages,
         \/ stage[p] = "limits" /\ to = "limits"
         \/ stage[p] \in {"after", "compact"} /\ to \in {"compact", "done"},
         stage' = [stage EXCEPT ![p] = to],
         worker' = IF to = "done" THEN 0 ELSE worker,
         NewList(<<>>) \/ UNCHANGED <<lists, now>>,
         UNCHANGED <<inline, run, busyHarness, queue, journal, home, compacting, current>>
  PROVE  RunInv'
<1> USE DEF RunInv
<1>1. Working(p)
  BY DEF Working
<1>2. /\ Confirmed' = Confirmed
      /\ lists' \in Seq(Seq(Messages)) /\ Len(lists') \in 1 .. MaxLists /\ Len(lists') >= Len(lists)
      /\ now' \in [session : Sessions, harness : 1 .. Len(lists'), list : 1 .. Len(lists')]
      /\ now'.harness = now.harness
  <2>1. CASE NewList(<<>>)
    <3>1. <<>> \in Seq(Messages) /\ ToSet(<<>>) \subseteq Confirmed
      BY DEF ToSet
    <3>2. /\ Confirmed' = Confirmed
          /\ lists' \in Seq(Seq(Messages)) /\ Len(lists') = Len(lists) + 1
          /\ Len(lists') \in 1 .. MaxLists
      BY <2>1, <3>1, ListAdded DEF NewList
    <3>3. Len(lists) \in Nat /\ 1 .. Len(lists) \subseteq 1 .. Len(lists')
      <4> DEFINE n == Len(lists)
                 m == Len(lists')
      <4>1. n \in Nat /\ m = n + 1
        BY <3>2 DEF RunType
      <4> HIDE DEF n, m
      <4>2. 1 .. n \subseteq 1 .. m
        BY <4>1
      <4> QED
        BY <4>1, <4>2 DEF n, m
    <3>4. /\ now' = [now EXCEPT !.list = Len(lists) + 1]
          /\ now \in [session : Sessions, harness : 1 .. Len(lists), list : 1 .. Len(lists)]
          /\ Len(lists) + 1 \in 1 .. Len(lists')
      BY <2>1, <3>2, <3>3 DEF NewList, RunType
    <3>5. now' \in [session : Sessions, harness : 1 .. Len(lists'), list : 1 .. Len(lists')]
      BY <3>3, <3>4
    <3> QED
      BY <3>2, <3>3, <3>4, <3>5
  <2>2. CASE UNCHANGED <<lists, now>>
    BY <2>2, SameConfirmed DEF RunType
  <2> QED
    BY <2>1, <2>2
<1>3. OneWorker' /\ Queued' /\ Dated' /\ Persisted'
  BY <1>1, <1>2, WorkerStep DEF Early
<1>4. RunType'
  <2>1. stage' \in [Prompts -> Stages] /\ worker' \in 0 .. MaxPrompts
    BY RunAssumption DEF RunType
  <2>2. /\ inline' \subseteq Prompts
        /\ run' \in [Prompts -> [harness : Nat, list : Nat, count : Nat, said : Nat]]
        /\ queue' \in [1 .. MaxLists -> SUBSET Prompts]
        /\ journal' \in [Sessions -> Seq(Messages)] /\ home' \in [Prompts -> Sessions]
        /\ current' \in 0 .. MaxPrompts
    BY DEF RunType
  <2> QED
    BY <1>2, <2>1, <2>2 DEF RunType
<1>5. \A q \in Prompts : (Holds(q)' => Holds(q)) /\ ~InRun(q)'
  <2>1. \A q \in Prompts : q # p => ~InRun(q)
    <3>1. \A q \in inline : ~InRun(q)
      BY DEF OneWorker, InRun
    <3> QED
      BY <1>1, <3>1 DEF OneWorker, InRun, Working
  <2> QED
    BY <2>1 DEF Holds, InRun, RunType
<1>6. OneRun'
  BY <1>2, <1>5 DEF OneRun
<1> QED
  BY <1>3, <1>4, <1>6

LEMMA CompactSteps ==
  ASSUME RunInv, NEW p \in Prompts,
         CompactBefore(p) \/ CompactAfterBegins(p) \/ CompactAfterEnds(p) \/ Settled(p)
  PROVE  RunInv'
<1>1. stage[p] \in {"limits", "after", "compact"} /\ stage \in [Prompts -> Stages]
  BY DEF CompactBefore, CompactAfterBegins, CompactAfterEnds, Settled, RunInv, RunType
<1>2. p \notin inline /\ current = p
  BY <1>1 DEF RunInv, OneWorker, Working
<1>3. CASE CompactBefore(p)
  <2>1. stage' = [stage EXCEPT ![p] = "limits"]
    BY <1>1, <1>3 DEF CompactBefore
  <2> QED
    BY <1>2, <1>3, <2>1, CompactStep DEF CompactBefore, Stages
<1>4. CASE CompactAfterBegins(p)
  BY <1>2, <1>4, CompactStep DEF CompactAfterBegins, Stages
<1>5. CASE CompactAfterEnds(p)
  BY <1>2, <1>5, CompactStep DEF CompactAfterEnds, Settle, WorkerOver, Stages
<1>6. CASE Settled(p)
  BY <1>2, <1>6, CompactStep DEF Settled, Settle, WorkerOver, Stages
<1> QED
  BY <1>3, <1>4, <1>5, <1>6
\* A prompt is let into a run, or refused.
LEMMA StartStep ==
  ASSUME RunInv, NEW p \in Prompts, Start(p)
  PROVE  RunInv'
<1> USE DEF RunInv
<1>1. stage[p] = "limits" /\ p \notin inline /\ worker = p /\ current = p /\ Working(p)
  BY DEF Start, OneWorker, Working
<1>2. CASE now.harness \in busyHarness
  <2>1. /\ stage' = [stage EXCEPT ![p] = "refused"] /\ worker' = 0
        /\ UNCHANGED <<inline, run, lists, now, busyHarness, queue, journal, home, current, compacting>>
    BY <1>1, <1>2 DEF Start, WorkerOver
  <2>2. OneWorker' /\ Queued' /\ Dated' /\ Persisted'
    BY <1>1, <2>1, SameConfirmed, WorkerStep DEF Stages, Early
  <2>3. RunType'
    <3>1. stage' \in [Prompts -> Stages] /\ worker' \in 0 .. MaxPrompts
      BY <2>1, RunAssumption DEF RunType, Stages
    <3> QED
      BY <2>1, <3>1 DEF RunType
  <2>4. \A q \in Prompts : (Holds(q)' => Holds(q)) /\ (InRun(q)' => InRun(q))
    BY <2>1 DEF Holds, InRun, RunType
  <2>5. OneRun'
    BY <2>1, <2>4 DEF OneRun, InRun
  <2> QED
    BY <2>2, <2>3, <2>5
<1>3. CASE now.harness \notin busyHarness
  <2> DEFINE i == now.list
             s == now.session
             m == <<p, 0>>
             n == Len(lists[i])
  <2>1. /\ i \in DOMAIN lists /\ s \in Sessions /\ m \in Messages
        /\ lists[i] \in Seq(Messages) /\ n \in Nat /\ now.harness \in Nat /\ i \in Nat
    BY SMTT(30) DEF RunType, Messages
  <2>2. /\ lists' = [lists EXCEPT ![i] = Append(@, m)] /\ stage' = [stage EXCEPT ![p] = "asked"]
        /\ journal' = [journal EXCEPT ![s] = @ \o SubSeq(lists'[i], n + 1, Len(lists'[i]))]
        /\ run' = [run EXCEPT ![p] = [harness |-> now.harness, list |-> i, count |-> n + 1, said |-> 0]]
        /\ busyHarness' = busyHarness \cup {now.harness} /\ home' = [home EXCEPT ![p] = s]
        /\ UNCHANGED <<inline, now, queue, current, compacting, worker>>
    BY <1>3 DEF Start, PersistSince
  <2>3. lists'[i] = Append(lists[i], m) /\ Len(lists'[i]) = n + 1
    BY <2>1, <2>2
  <2>4. SubSeq(lists'[i], n + 1, n + 1) = <<m>>
    BY <2>1, <2>3, LastIs, SMTT(30)
  <2>5. journal' = [journal EXCEPT ![s] = Append(@, m)]
    <3>1. journal[s] \in Seq(Messages) /\ journal[s] \o <<m>> = Append(journal[s], m)
      BY <2>1, SMTT(30) DEF RunType
    <3> QED
      BY <2>2, <2>3, <2>4, <3>1
  <2>6. \A q \in Prompts : /\ q # p => stage'[q] = stage[q] /\ run'[q] = run[q] /\ home'[q] = home[q]
                           /\ q = p => /\ stage'[q] = "asked" /\ home'[q] = s
                                       /\ run'[q] = [harness |-> now.harness, list |-> i, count |-> n + 1, said |-> 0]
    BY <2>2 DEF RunType
  <2>7. Confirmed \subseteq Messages /\ \A x \in Confirmed : x[1] \in Prompts /\ x[1] # p
    BY <1>1, ConfirmedMessages DEF Dated
  <2>8. /\ Confirmed' = Confirmed \cup {m} /\ Persisted'
        /\ \A t \in Sessions : ToSet(journal'[t]) \subseteq Confirmed'
    <3>1. m \notin Confirmed /\ home'[m[1]] = s /\ \A x \in Confirmed : home'[x[1]] = home[x[1]]
      BY <2>6, <2>7
    <3> QED
      BY <2>1, <2>2, <2>5, <3>1, Confirming DEF Dated
  <2>9. RunType'
    <3>1. lists' \in Seq(Seq(Messages)) /\ Len(lists') = Len(lists)
      BY <2>1, <2>2 DEF RunType
    <3>2. journal' \in [Sessions -> Seq(Messages)]
      BY <2>1, <2>5 DEF RunType
    <3>3. run' \in [Prompts -> [harness : Nat, list : Nat, count : Nat, said : Nat]]
      BY <2>1, <2>2, SMTT(60) DEF RunType
    <3> QED
      BY <2>1, <2>2, <3>1, <3>2, <3>3 DEF RunType, Stages
  <2>10. \A q \in Prompts : q # p => ~Holds(q)
    BY <1>3 DEF OneRun
  <2>11. OneWorker'
    BY <1>1, <2>2, <2>6 DEF OneWorker, Working, RunType
  <2>12. OneRun'
    BY <2>2, <2>3, <2>6, <2>10 DEF OneRun, Holds, InRun
  <2>13. Queued'
    BY <1>1, <2>2, <2>6, SMTT(60) DEF Queued, RunType
  <2>14. Dated'
    <3>1. ASSUME NEW x \in Confirmed'
          PROVE  /\ stage'[x[1]] \notin {"none", "hooks", "limits", "queued"}
                 /\ InRun(x[1])' => x[2] <= run'[x[1]].said
      <4>1. CASE x = m
        BY <4>1, <2>6
      <4>2. CASE x \in Confirmed
        BY <4>2, <2>6, <2>7 DEF Dated, InRun
      <4> QED
        BY <4>1, <4>2, <2>8
    <3> QED
      BY <3>1, <2>8 DEF Dated
  <2> QED
    BY <2>8, <2>9, <2>11, <2>12, <2>13, <2>14
<1> QED
  BY <1>2, <1>3
LEMMA GreaterOf ==
  ASSUME NEW a \in Nat, NEW b \in Nat, a <= b
  PROVE  Max({a, b}) = b
<1>1. \E x \in {a, b} : \A y \in {a, b} : x >= y
  OBVIOUS
<1>2. \A x \in {a, b} : (\A y \in {a, b} : x >= y) => x = b
  OBVIOUS
<1> QED
  BY <1>1, <1>2 DEF Max

\* A run confirms a message: its own next one, or that of a queued prompt.
LEMMA ConfirmStep ==
  ASSUME RunInv, NEW p \in Prompts, InRun(p), NEW m \in Messages, Confirm(p, <<m>>),
         NEW to \in {"asked", "replied"},
         \/ m = <<p, run[p].said + 1>> /\ stage' = [stage EXCEPT ![p] = to] /\ home' = home
         \/ /\ stage[m[1]] = "queued" /\ m[1] # p
            /\ stage' = [stage EXCEPT ![p] = to, ![m[1]] = "done"]
            /\ home' = [home EXCEPT ![m[1]] = home[p]],
         UNCHANGED <<inline, now, busyHarness, current, worker, compacting>>,
         queue' \in [1 .. MaxLists -> SUBSET Prompts],
         \A l \in 1 .. MaxLists : queue'[l] \subseteq queue[l] /\ (m[1] # p => m[1] \notin queue'[l])
  PROVE  RunInv'
<1> USE DEF RunInv
<1> DEFINE i == now.list
           s == now.session
           n == Len(lists[i])
           r == m[1]
<1>1. /\ i \in DOMAIN lists /\ s \in Sessions /\ r \in Prompts
      /\ lists[i] \in Seq(Messages) /\ n \in Nat /\ now.harness \in Nat /\ i \in Nat
      /\ run[p].said \in Nat
  <2>1. r \in Prompts
    BY DEF Messages
  <2>2. i \in DOMAIN lists /\ s \in Sessions /\ now.harness \in Nat /\ i \in Nat
    BY SMTT(30) DEF RunType
  <2>3. lists[i] \in Seq(Messages) /\ run[p].said \in Nat
    BY <2>2, SMTT(30) DEF RunType
  <2> QED
    BY <2>1, <2>2, <2>3
<1>2. run[p].list = i /\ run[p].count = n /\ home[p] = s
  BY DEF OneRun
<1>3. /\ lists' = [lists EXCEPT ![i] = @ \o <<m>>]
      /\ journal' = [journal EXCEPT ![s] = @ \o SubSeq(lists'[i], n + 1, Len(lists'[i]))]
      /\ run' = [run EXCEPT ![p].count = Max({n, Len(lists'[i])}), ![p].said = @ + 1]
  BY <1>2, SMTT(30) DEF Confirm, PersistSince, Counted
<1>4. lists' = [lists EXCEPT ![i] = Append(@, m)]
  <2>1. lists[i] \o <<m>> = Append(lists[i], m)
    BY <1>1
  <2> QED
    BY <1>3, <2>1
<1>5. lists'[i] = Append(lists[i], m) /\ Len(lists'[i]) = n + 1
  BY <1>1, <1>4
<1>6. SubSeq(lists'[i], n + 1, n + 1) = <<m>>
  BY <1>1, <1>5, LastIs, SMTT(30)
<1>7. journal' = [journal EXCEPT ![s] = Append(@, m)]
  <2>1. journal[s] \in Seq(Messages) /\ journal[s] \o <<m>> = Append(journal[s], m)
    BY <1>1 DEF RunType
  <2> QED
    BY <1>3, <1>5, <1>6, <2>1
<1>8. Max({n, n + 1}) = n + 1
  <2>1. n + 1 \in Nat /\ n <= n + 1
    BY <1>1
  <2> QED
    BY <1>1, <2>1, GreaterOf
<1>9. /\ run' \in [Prompts -> [harness : Nat, list : Nat, count : Nat, said : Nat]]
      /\ run'[p].harness = run[p].harness /\ run'[p].list = i /\ run'[p].count = n + 1
      /\ run'[p].said = run[p].said + 1
      /\ \A q \in Prompts : q # p => run'[q] = run[q]
  <2>1. run' = [run EXCEPT ![p].count = n + 1, ![p].said = @ + 1]
    BY <1>3, <1>5, <1>8
  <2>2. /\ run \in [Prompts -> [harness : Nat, list : Nat, count : Nat, said : Nat]]
        /\ n + 1 \in Nat /\ run[p].said + 1 \in Nat
    <3>1. run \in [Prompts -> [harness : Nat, list : Nat, count : Nat, said : Nat]]
      BY DEF RunType
    <3>2. run[p].said \in Nat /\ n \in Nat
      BY <1>1, <3>1
    <3> QED
      BY <3>1, <3>2
  <2>3. run' \in [Prompts -> [harness : Nat, list : Nat, count : Nat, said : Nat]]
    BY <2>1, <2>2
  <2> QED
    BY <1>2, <2>1, <2>2, <2>3, SMTT(30)
<1>10. /\ stage'[p] = to /\ (r # p => stage[r] = "queued" /\ stage'[r] = "done")
       /\ \A q \in Prompts : q \notin {p, r} => stage'[q] = stage[q]
       /\ home'[r] = s /\ \A q \in Prompts : q # r => home'[q] = home[q]
       /\ (r = p => m[2] = run[p].said + 1)
  BY <1>1, <1>2, SMTT(60) DEF RunType
<1>11. Confirmed \subseteq Messages /\ \A x \in Confirmed : x[1] \in Prompts /\ x[2] \in Nat
  BY ConfirmedMessages
<1>12. m \notin Confirmed /\ (r # p => \A x \in Confirmed : x[1] # r)
  <2>1. r # p => \A x \in Confirmed : x[1] # r
    BY <1>10, <1>11 DEF Dated
  <2>2. r = p => \A x \in Confirmed : x[1] = p => x[2] # m[2]
    <3> SUFFICES ASSUME r = p, NEW x \in Confirmed, x[1] = p PROVE x[2] # m[2]
      OBVIOUS
    <3>1. x[2] <= run[p].said /\ x[2] \in Nat
      BY <1>11 DEF Dated
    <3> QED
      BY <3>1, <1>1, <1>10
  <2> QED
    BY <2>1, <2>2
<1>13. /\ Confirmed' = Confirmed \cup {m} /\ Persisted'
       /\ \A t \in Sessions : ToSet(journal'[t]) \subseteq Confirmed'
  <2>1. \A x \in Confirmed : home'[x[1]] = home[x[1]]
    BY <1>2, <1>10, <1>11, <1>12
  <2> QED
    BY <1>1, <1>4, <1>7, <1>10, <1>12, <2>1, Confirming DEF Dated
<1>14. RunType'
  <2>1. lists' \in Seq(Seq(Messages)) /\ Len(lists') = Len(lists)
    BY <1>1, <1>4 DEF RunType
  <2>2. journal' \in [Sessions -> Seq(Messages)]
    BY <1>1, <1>7 DEF RunType
  <2>3. stage' \in [Prompts -> Stages] /\ home' \in [Prompts -> Sessions]
    <3>1. /\ stage \in [Prompts -> Stages] /\ home \in [Prompts -> Sessions]
          /\ to \in Stages /\ "done" \in Stages /\ home[p] \in Sessions
      BY DEF RunType, Stages
    <3> QED
      BY <1>1, <3>1
  <2> QED
    BY <1>9, <2>1, <2>2, <2>3 DEF RunType
<1>15. \A q \in Prompts : q # p => ~Holds(q)
  BY DEF OneRun, Holds, InRun
<1>16. p \notin inline /\ worker = p /\ current = p
  BY DEF OneWorker, InRun, Working
<1>17. OneWorker'
  BY <1>10, <1>16, ZenonT(60) DEF OneWorker, Working, RunType
<1>18. OneRun'
  <2>1. \A q \in Prompts : Holds(q)' => q = p
    BY <1>10, <1>15 DEF Holds
  <2>2. \A q \in Prompts : InRun(q)' => q = p
    BY <2>1 DEF Holds, InRun
  <2>3. run[p].harness = now.harness /\ now.harness \in busyHarness
    BY DEF OneRun, Holds, InRun
  <2>4. home'[p] = s
    BY <1>2, <1>10
  <2> QED
    BY <1>5, <1>9, <2>1, <2>2, <2>3, <2>4 DEF OneRun
<1>19. Queued'
  <2>1. \A l \in 1 .. MaxLists : p \notin queue[l]
    BY DEF Queued, InRun
  <2>2. ASSUME NEW l \in 1 .. MaxLists, NEW q \in queue'[l] PROVE stage'[q] = "queued"
    <3>1. q \in queue[l] /\ q \in Prompts /\ stage[q] = "queued" /\ q # p /\ q # r
      BY <2>1, <2>2 DEF Queued
    <3> QED
      BY <3>1, <1>10
  <2>3. \A l, k \in 1 .. MaxLists : l # k => queue'[l] \cap queue'[k] = {}
    BY DEF Queued
  <2> QED
    BY <2>2, <2>3 DEF Queued
<1>20. Dated'
  <2>1. ASSUME NEW x \in Confirmed'
        PROVE  /\ stage'[x[1]] \notin {"none", "hooks", "limits", "queued"}
               /\ InRun(x[1])' => x[2] <= run'[x[1]].said
    <3>1. CASE x = m
      BY <3>1, <1>1, <1>9, <1>10, SMTT(30) DEF InRun
    <3>2. CASE x \in Confirmed
      <4>1. CASE x[1] = p
        <5>1. x[2] \in Nat /\ x[2] <= run[p].said
          BY <3>2, <4>1, <1>11 DEF Dated
        <5> QED
          BY <4>1, <5>1, <1>1, <1>9, <1>10, SMTT(30)
      <4>2. CASE x[1] # p
        <5>1. x[1] \in Prompts /\ stage'[x[1]] = stage[x[1]] /\ run'[x[1]] = run[x[1]]
          BY <3>2, <4>2, <1>9, <1>10, <1>11, <1>12
        <5> QED
          BY <3>2, <5>1 DEF Dated, InRun
      <4> QED
        BY <4>1, <4>2
    <3> QED
      BY <3>1, <3>2, <1>13
  <2> QED
    BY <2>1, <1>13 DEF Dated
<1> QED
  BY <1>13, <1>14, <1>17, <1>18, <1>19, <1>20
LEMMA ReplyStep ==
  ASSUME RunInv, NEW p \in Prompts, Reply(p)
  PROVE  RunInv'
<1>1. InRun(p) /\ <<p, run[p].said + 1>> \in Messages
  BY SMTT(30) DEF Reply, InRun, RunInv, RunType, Messages
<1>2. /\ queue' \in [1 .. MaxLists -> SUBSET Prompts]
      /\ \A l \in 1 .. MaxLists : queue'[l] \subseteq queue[l]
  BY DEF Reply, RunInv, RunType
<1> QED
  BY <1>1, <1>2, ConfirmStep DEF Reply

LEMMA TakeQueuedStep ==
  ASSUME RunInv, NEW p \in Prompts, NEW q \in Prompts, TakeQueued(p, q)
  PROVE  RunInv'
<1>1. InRun(p) /\ <<q, 0>> \in Messages /\ run[p].harness = now.harness
  BY DEF TakeQueued, InRun, Holds, RunInv, OneRun, Messages
<1>2. now.harness \in 1 .. MaxLists
  BY RunAssumption DEF RunInv, RunType
<1>3. /\ queue' \in [1 .. MaxLists -> SUBSET Prompts]
      /\ \A l \in 1 .. MaxLists :
           queue'[l] = IF l = now.harness THEN queue[l] \ {q} ELSE queue[l]
  BY <1>1, <1>2 DEF TakeQueued, RunInv, RunType
<1>4. q \in queue[now.harness] /\ stage[q] = "queued" /\ q # p
  BY <1>1, <1>2 DEF TakeQueued, RunInv, Queued
<1>5. \A l \in 1 .. MaxLists : queue'[l] \subseteq queue[l] /\ q \notin queue'[l]
  BY <1>2, <1>3, <1>4 DEF RunInv, Queued
<1> DEFINE m == <<q, 0>>
<1>6. m[1] = q /\ stage[m[1]] = "queued" /\ m[1] # p /\ InRun(p) /\ m \in Messages
  BY <1>1, <1>4
<1>7. /\ Confirm(p, <<m>>) /\ stage' = [stage EXCEPT ![p] = "asked", ![m[1]] = "done"]
      /\ home' = [home EXCEPT ![m[1]] = home[p]]
      /\ UNCHANGED <<inline, now, busyHarness, current, worker, compacting>>
  BY <1>6 DEF TakeQueued
<1>8. \A l \in 1 .. MaxLists : queue'[l] \subseteq queue[l] /\ (m[1] # p => m[1] \notin queue'[l])
  BY <1>5, <1>6
<1> HIDE DEF m
<1> QED
  BY <1>3, <1>6, <1>7, <1>8, ConfirmStep

\* A run gives its harness back, at its end or when it has been closed.
LEMMA ReleaseStep ==
  ASSUME RunInv, NEW p \in Prompts, RunEnds(p) \/ Closed(p)
  PROVE  RunInv'
<1> USE DEF RunInv
<1>1. PICK to \in {"after", "interrupted"} :
        /\ stage[p] = (IF to = "after" THEN "replied" ELSE "closing")
        /\ stage' = [stage EXCEPT ![p] = to]
        /\ busyHarness' = busyHarness \ {run[p].harness}
        /\ UNCHANGED <<inline, run, lists, now, queue, journal, current, worker, compacting, home>>
  BY DEF RunEnds, Closed
<1>2. /\ stage'[p] = to /\ Holds(p) /\ \A q \in Prompts : q # p => stage'[q] = stage[q]
      /\ p \notin inline /\ stage' \in [Prompts -> Stages]
  BY <1>1 DEF RunType, Holds, Stages, OneWorker
<1>3. \A q \in Prompts : ~Holds(q)' /\ ~InRun(q)'
  BY <1>2 DEF OneRun, Holds, InRun
<1>4. RunType'
  BY <1>1, <1>2 DEF RunType
<1>5. OneWorker'
  BY <1>1, <1>2, SMTT(30) DEF OneWorker, Working, RunType
<1>6. OneRun'
  BY <1>3 DEF OneRun
<1>7. Queued'
  BY <1>1, <1>2 DEF Queued, RunType
<1>8. Dated' /\ Persisted'
  <2>1. \A q \in Prompts : /\ stage[q] \notin Early => stage'[q] \notin Early
                           /\ stage'[q] \in {"asked", "replied"} => stage[q] \in {"asked", "replied"}
    BY <1>1, <1>2 DEF Early
  <2> QED
    BY <1>1, <2>1, SameConfirmed, NothingConfirmed
<1> QED
  BY <1>4, <1>5, <1>6, <1>7, <1>8

\* The worker is cancelled, and the application shows no run.
LEMMA InterruptStep ==
  ASSUME RunInv, worker # 0, Interrupt(worker),
         UNCHANGED <<inline, run, lists, now, busyHarness, queue, journal, compacting, home>>
  PROVE  RunInv'
<1> USE DEF RunInv
<1> DEFINE p == worker
<1>1. p \in Prompts /\ p \notin inline /\ Working(p)
  BY DEF RunType, OneWorker, Prompts
<1>2. /\ stage' = [stage EXCEPT ![p] = Cancelled(p, "interrupted")]
      /\ current' = 0 /\ worker' = 0
  BY DEF Interrupt
<1>3. /\ stage'[p] \in {"closing", "interrupted", "done"} /\ (stage'[p] = "closing" => InRun(p))
      /\ \A q \in Prompts : q # p => stage'[q] = stage[q]
      /\ stage' \in [Prompts -> Stages]
  BY <1>1, <1>2 DEF RunType, Cancelled, Stages
<1>4. RunType'
  <2>1. 0 \in 0 .. MaxPrompts
    BY RunAssumption
  <2> QED
    BY <1>2, <1>3, <2>1 DEF RunType
<1>5. OneWorker'
  BY <1>1, <1>2, <1>3 DEF OneWorker, Working, RunType
<1>6. \A q \in Prompts : (Holds(q)' => Holds(q)) /\ (InRun(q)' => InRun(q))
  BY <1>3 DEF Holds, InRun
<1>7. OneRun'
  BY <1>6 DEF OneRun, InRun
<1>8. Queued'
  BY <1>1, <1>3 DEF Queued, RunType, Working
<1>9. Dated' /\ Persisted'
  <2>1. \A q \in Prompts : /\ stage[q] \notin Early => stage'[q] \notin Early
                           /\ stage'[q] \in {"asked", "replied"} => stage[q] \in {"asked", "replied"}
    BY <1>3 DEF Early
  <2> QED
    BY <2>1, SameConfirmed, NothingConfirmed
<1> QED
  BY <1>4, <1>5, <1>7, <1>8, <1>9

\* Prompts, lists and journals stay as they are.
LEMMA RunAsideStep ==
  ASSUME RunInv, UNCHANGED <<stage, inline, run, lists, now, busyHarness, queue, journal, worker, home>>,
         current' = current \/ (current' = 0 /\ worker = 0),
         compacting' \in {compacting, "no"} \/ worker = 0
  PROVE  RunInv'
<1> USE DEF RunInv
<1>1. RunType'
  BY RunAssumption DEF RunType
<1>2. OneWorker'
  BY DEF OneWorker, Working, Prompts
<1>3. OneRun' /\ Queued'
  BY DEF OneRun, Queued, Holds, InRun
<1>4. Dated' /\ Persisted'
  BY SameConfirmed, NothingConfirmed
<1> QED
  BY <1>1, <1>2, <1>3, <1>4

LEMMA EscapeStep ==
  ASSUME RunInv, Escape
  PROVE  RunInv'
<1>1. CASE compacting # "no"
  BY <1>1, RunAsideStep DEF Escape
<1>2. CASE compacting = "no" /\ worker # 0
  BY <1>2, InterruptStep DEF Escape, CancelPrompt
<1>3. CASE compacting = "no" /\ worker = 0
  BY <1>3, RunAsideStep DEF Escape, CancelPrompt, NothingToInterrupt
<1> QED
  BY <1>1, <1>2, <1>3

\* The session object gets another list, or is another one; no prompt is in a run.
LEMMA SwapStep ==
  ASSUME RunInv, NEW speeches \in Seq(Messages), ToSet(speeches) \subseteq Confirmed,
         Len(lists) < MaxLists, lists' = Append(lists, speeches),
         now' \in [session : Sessions, harness : 1 .. Len(lists) + 1, list : 1 .. Len(lists) + 1],
         \A p \in Prompts : ~InRun(p),
         now'.harness = now.harness \/ \A p \in Prompts : ~Holds(p),
         UNCHANGED <<stage, inline, run, busyHarness, queue, journal, worker, current, home>>,
         compacting' \in {compacting, "no"}
  PROVE  RunInv'
<1> USE DEF RunInv
<1>1. /\ Confirmed' = Confirmed
      /\ lists' \in Seq(Seq(Messages)) /\ Len(lists') = Len(lists) + 1 /\ Len(lists') \in 1 .. MaxLists
  BY ListAdded
<1>2. RunType'
  BY <1>1 DEF RunType
<1>3. OneWorker'
  BY DEF OneWorker, Working
<1>4. OneRun'
  BY DEF OneRun, Holds, InRun
<1>5. Queued'
  BY DEF Queued
<1>6. Dated' /\ Persisted'
  BY <1>1, NothingConfirmed
<1> QED
  BY <1>2, <1>3, <1>4, <1>5, <1>6

LEMMA CompactEndsStep ==
  ASSUME RunInv, CompactEnds
  PROVE  RunInv'
<1> USE DEF RunInv
<1>1. worker = 0
  BY DEF CompactEnds, OneWorker
<1>2. \A p \in Prompts : ~InRun(p)
  <2>1. \A p \in inline : ~InRun(p)
    BY DEF OneWorker, InRun
  <2> QED
    BY <1>1, <2>1 DEF OneWorker, InRun, Working, Prompts
<1>3. <<>> \in Seq(Messages) /\ ToSet(<<>>) \subseteq Confirmed
  BY DEF ToSet
<1>4. /\ now' \in [session : Sessions, harness : 1 .. Len(lists) + 1, list : 1 .. Len(lists) + 1]
      /\ now'.harness = now.harness
  <2>1. Len(lists) \in Nat /\ 1 .. Len(lists) \subseteq 1 .. Len(lists) + 1
        /\ Len(lists) + 1 \in 1 .. Len(lists) + 1
    BY DEF RunType
  <2>2. /\ now' = [now EXCEPT !.list = Len(lists) + 1]
        /\ now \in [session : Sessions, harness : 1 .. Len(lists), list : 1 .. Len(lists)]
    BY DEF CompactEnds, NewList, RunType
  <2> QED
    BY <2>1, <2>2
<1> QED
  BY <1>2, <1>3, <1>4, SwapStep DEF CompactEnds, NewList

LEMMA AdoptStep ==
  ASSUME RunInv, Calm', NEW s \in Sessions, Adopt(s)
  PROVE  RunInv'
<1> USE DEF RunInv
<1>1. \A p \in Prompts : ~UnderWay(p)
  BY DEF Adopt, Calm
<1>2. \A p \in Prompts : ~InRun(p) /\ ~Holds(p)
  BY <1>1 DEF UnderWay, InRun, Holds
<1>3. journal[s] \in Seq(Messages) /\ ToSet(journal[s]) \subseteq Confirmed
  BY DEF RunType, Dated
<1>4. now' \in [session : Sessions, harness : 1 .. Len(lists) + 1, list : 1 .. Len(lists) + 1]
  <2>1. Len(lists) + 1 \in 1 .. Len(lists) + 1
    BY DEF RunType
  <2> QED
    BY <2>1 DEF Adopt
<1> QED
  BY <1>2, <1>3, <1>4, SwapStep DEF Adopt

LEMMA RunStepInv == CalmRunInv /\ [RunNext]_runVars => CalmRunInv'
<1>1. ASSUME CalmRunInv, UNCHANGED runVars PROVE CalmRunInv'
  BY <1>1, RunAsideStep DEF CalmRunInv, Calm, runVars
<1>2. ASSUME CalmRunInv, RunNext PROVE CalmRunInv'
  <2> SUFFICES ASSUME Calm' PROVE RunInv'
    BY DEF CalmRunInv
  <2>1. RunInv
    BY <1>2, StaysSwapped DEF CalmRunInv
  <2>2. ASSUME NEW p \in Prompts,
               \/ Submit(p) \/ ExtensionTurn(p) \/ CompactBefore(p) \/ CompactAfterBegins(p)
               \/ CompactAfterEnds(p) \/ Work(p)
        PROVE  RunInv'
    BY <2>1, <2>2, SubmitStep, ExtensionTurnStep, CompactSteps, AfterHooksStep, StartStep, ReplyStep,
       TakeQueuedStep, ReleaseStep DEF Work
  <2>3. ASSUME Compact PROVE RunInv'
    <3>1. worker = 0
      BY <2>3 DEF Compact, AgentActive
    <3> QED
      BY <2>1, <2>3, <3>1, RunAsideStep DEF Compact
  <2>4. ASSUME NEW s \in Sessions, Open(s) PROVE RunInv'
    BY <2>1, <2>4, RunAsideStep DEF Open
  <2> QED
    BY <1>2, <2>1, <2>2, <2>3, <2>4, EscapeStep, CompactEndsStep, AdoptStep DEF RunNext
<1> QED
  BY <1>1, <1>2
-----------------------------------------------------------------------------
(* The login dialogs and what they store.                                  *)

Providing == DOMAIN Methods
Credentials == {"none", "key", "oauth"}

LoginType ==
  /\ listed \in Seq(Providing)
  /\ screen.is \in {"providers", "logout"} /\ listed # <<>> => at \in DOMAIN listed
  /\ screen.is = "method" => at \in {1, 2, 3}
  /\ credential \in [Names -> Credentials]

\* A screen for a key or a login is of a bundled provider, and the task of a login runs only while
\* its screen is there.
Chosen ==
  /\ screen.is \in {"key", "oauth"} => screen.provider \in Providing
  /\ oauth.stage \in {"busy", "asks"} => screen.is = "oauth"

LoginInv == LoginType /\ Chosen /\ LoginIsWhole

LEMMA AmongIs ==
  ASSUME NEW list \in Seq(Providing), NEW S
  PROVE  Among(list, S) \in Seq(Providing)
<1> DEFINE K == {i \in DOMAIN list : list[i] \in S}
<1>1. [i \in DOMAIN list |-> IF list[i] \in S THEN <<list[i]>> ELSE <<>>] = Selecting(list, K)
  BY DEF Selecting
<1> QED
  BY <1>1, SelectedAre DEF Among

LEMMA ListsAreProviders ==
  /\ \A method : ProvidersBy(method) \in Seq(Providing)
  /\ Stored \in Seq(Providing) /\ Providers \in Seq(Providing)
<1>1. BuiltIn \in Seq(Providing)
  BY LoginAssumption DEF Providing
<1>2. \A method : ProvidersBy(method) \in Seq(Providing)
  BY <1>1, AmongIs DEF ProvidersBy
<1>3. Stored \in Seq(Providing)
  BY <1>1, AmongIs DEF Stored
<1> QED
  BY <1>2, <1>3 DEF Providers

LEMMA LoginInitInv == LoginInit => LoginInv
<1> SUFFICES ASSUME LoginInit PROVE LoginInv
  OBVIOUS
<1>1. LoginType
  <2>1. listed = <<>> /\ screen.is = "none" /\ credential = [n \in Names |-> "none"]
    BY DEF LoginInit, NoScreen
  <2>2. <<>> \in Seq(Providing)
    OBVIOUS
  <2> QED
    BY <2>1, <2>2 DEF LoginType, Credentials
<1>2. Chosen
  BY DEF LoginInit, Chosen, NoScreen, NoTask
<1>3. LoginIsWhole
  BY DEF LoginInit, LoginIsWhole, NoDanglingProvider, StoredWasFinished
<1> QED
  BY <1>1, <1>2, <1>3 DEF LoginInv

\* A screen is shown, and nothing is stored.
LEMMA PushStep ==
  ASSUME LoginInv, NEW is, NEW provider, NEW method, NEW list \in Seq(Providing),
         Push(is, provider, method, list), UNCHANGED stores,
         is \in {"key", "oauth"} => provider \in Providing,
         oauth'.stage \in {"busy", "asks"} => is = "oauth"
  PROVE  LoginInv'
<1>1. screen'.is = is /\ screen'.provider = provider /\ listed' = list /\ at' = 1
  BY DEF Push
<1>2. list # <<>> => 1 \in DOMAIN list
  OBVIOUS
<1>3. LoginType'
  BY <1>1, <1>2 DEF LoginInv, LoginType, stores
<1>4. Chosen'
  BY <1>1 DEF Chosen
<1>5. LoginIsWhole'
  BY DEF LoginInv, LoginIsWhole, NoDanglingProvider, StoredWasFinished, stores
<1> QED
  BY <1>3, <1>4, <1>5 DEF LoginInv

\* The steps of storing a login are done in their order, and not all of them.
LEMMA StoreStep ==
  ASSUME LoginInv, NEW name \in Names, NEW kind \in {"key", "oauth", "own"}, Dismiss,
         kind # "own" => name \in Providing, Store(name, kind)
  PROVE  LoginInv'
<1> DEFINE held == IF kind = "oauth" THEN "oauth" ELSE "key"
           steps == Steps(kind)
<1>1. PICK n \in 0 .. Len(steps) :
        LET done == ToSet(SubSeq(steps, 1, n)) IN
        /\ finished' = finished \cup {<<name, held>>}
        /\ catalog' = IF "catalog" \in done THEN catalog \cup {name} ELSE catalog
        /\ credential' = IF "credential" \in done THEN [credential EXCEPT ![name] = held] ELSE credential
        /\ saved' = IF "settings" \in done THEN saved \cup {name} ELSE saved
        /\ session' = IF "session" \in done THEN name ELSE session
  BY DEF Store
<1> DEFINE done == ToSet(SubSeq(steps, 1, n))
<1>2. done = {steps[i] : i \in 1 .. n}
  <2> DEFINE S == {"catalog", "credential", "settings", "session"}
  <2>1. steps \in Seq(S)
    <3>1. /\ <<"catalog", "credential", "settings", "session">> \in Seq(S)
          /\ <<"credential", "settings", "session">> \in Seq(S)
      OBVIOUS
    <3> QED
      BY <3>1 DEF Steps
  <2> HIDE DEF steps
  <2>2. /\ DOMAIN SubSeq(steps, 1, n) = 1 .. n
        /\ \A i \in 1 .. n : SubSeq(steps, 1, n)[i] = steps[i]
    BY <2>1
  <2> QED
    BY <2>2 DEF ToSet, done
<1>3. /\ "session" \in done => "settings" \in done
      /\ kind = "own" /\ "settings" \in done => "catalog" \in done
  <2>1. CASE kind = "own"
    <3>1. steps = <<"catalog", "credential", "settings", "session">>
      BY <2>1 DEF Steps
    <3>2. \A i \in 1 .. n : (steps[i] = "session" => i = 4) /\ (steps[i] = "settings" => i = 3)
      BY <3>1
    <3>3. "session" \in done => n >= 4
      BY <1>2, <3>2
    <3>4. "settings" \in done => n >= 3
      BY <1>2, <3>2
    <3>5. n >= 4 => 3 \in 1 .. n
      BY <3>1
    <3>6. n >= 3 => 1 \in 1 .. n
      BY <3>1
    <3> QED
      BY <1>2, <3>1, <3>3, <3>4, <3>5, <3>6
  <2>2. CASE kind # "own"
    <3>1. steps = <<"credential", "settings", "session">>
      BY <2>2 DEF Steps
    <3>2. \A i \in 1 .. n : steps[i] = "session" => i = 3
      BY <3>1
    <3>3. "session" \in done => 2 \in 1 .. n
      BY <1>2, <3>1, <3>2
    <3> QED
      BY <1>2, <2>2, <3>1, <3>3
  <2> QED
    BY <2>1, <2>2
<1> HIDE DEF done
<1>4. /\ finished' = finished \cup {<<name, held>>}
      /\ catalog' = IF "catalog" \in done THEN catalog \cup {name} ELSE catalog
      /\ credential' = IF "credential" \in done THEN [credential EXCEPT ![name] = held] ELSE credential
      /\ saved' = IF "settings" \in done THEN saved \cup {name} ELSE saved
      /\ session' = IF "session" \in done THEN name ELSE session
  BY <1>1 DEF done
<1>5. LoginType' /\ Chosen'
  <2>1. credential' \in [Names -> Credentials]
    BY <1>4 DEF LoginInv, LoginType, Credentials
  <2> QED
    <3>1. listed' = <<>> /\ screen'.is = "none" /\ oauth'.stage = "off"
      BY DEF Dismiss, Push, NoTask
    <3>2. <<>> \in Seq(Providing)
      OBVIOUS
    <3> QED
      BY <2>1, <3>1, <3>2 DEF LoginType, Chosen
<1>6. NoDanglingProvider'
  <2>1. saved \subseteq ToSet(BuiltIn) \cup catalog /\ session \in saved \cup {BuiltIn[1]}
    BY DEF LoginInv, LoginIsWhole, NoDanglingProvider
  <2>2. kind # "own" => name \in ToSet(BuiltIn)
    BY LoginAssumption DEF Providing
  <2> QED
    BY <1>3, <1>4, <2>1, <2>2 DEF NoDanglingProvider
<1>7. StoredWasFinished'
  <2>1. credential \in [Names -> Credentials] /\ StoredWasFinished
    BY DEF LoginInv, LoginType, LoginIsWhole
  <2> QED
    BY <1>4, <2>1 DEF StoredWasFinished
<1> QED
  BY <1>5, <1>6, <1>7 DEF LoginInv, LoginIsWhole
LEMMA DismissStep ==
  ASSUME LoginInv, Dismiss, UNCHANGED stores
  PROVE  LoginInv'
<1>1. <<>> \in Seq(Providing) /\ oauth'.stage = "off"
  <2>1. <<>> \in Seq(Providing)
    OBVIOUS
  <2>2. oauth' = NoTask
    BY DEF Dismiss
  <2> QED
    BY <2>1, <2>2 DEF NoTask
<1> QED
  BY <1>1, PushStep DEF Dismiss

LEMMA OpenLoginStep ==
  ASSUME LoginInv, NEW p \in Providing, NEW method, OpenLogin(p, method), UNCHANGED stores,
         screen.is # "oauth"
  PROVE  LoginInv'
<1>1. oauth.stage \notin {"busy", "asks"} /\ <<>> \in Seq(Providing)
  BY DEF LoginInv, Chosen
<1>2. CASE Push("oauth", p, method, <<>>)
  BY <1>1, <1>2, PushStep
<1>3. CASE Push("key", p, method, <<>>) /\ UNCHANGED oauth
  BY <1>1, <1>3, PushStep
<1> QED
  BY <1>2, <1>3 DEF OpenLogin

\* Nothing is stored, the screen stays, and a task is started by nothing else.
LEMMA StayStep ==
  ASSUME LoginInv, UNCHANGED <<screen, stores>>, listed' \in Seq(Providing),
         screen.is \in {"providers", "logout"} /\ listed' # <<>> => at' \in DOMAIN listed',
         screen.is = "method" => at' \in {1, 2, 3},
         oauth'.stage \in {"busy", "asks"} => oauth.stage \in {"busy", "asks"}
  PROVE  LoginInv'
<1>1. LoginType' /\ Chosen'
  BY DEF LoginInv, LoginType, Chosen, stores
<1>2. LoginIsWhole'
  BY DEF LoginInv, LoginIsWhole, NoDanglingProvider, StoredWasFinished, stores
<1> QED
  BY <1>1, <1>2 DEF LoginInv

LEMMA MoveSteps ==
  ASSUME LoginInv, NEW step \in {-1, 1}, MoveMethod(step) \/ MoveProvider(step)
  PROVE  LoginInv'
<1>1. listed \in Seq(Providing) /\ DOMAIN listed = 1 .. Len(listed)
  BY DEF LoginInv, LoginType
<1>2. CASE MoveMethod(step)
  <2>1. at \in {1, 2, 3}
    BY <1>2 DEF LoginInv, LoginType, MoveMethod
  <2>2. at' \in {1, 2, 3}
    BY <1>2, <2>1 DEF MoveMethod
  <2> QED
    BY <1>1, <1>2, <2>2, StayStep DEF MoveMethod
<1>3. CASE MoveProvider(step)
  BY <1>1, <1>3, StayStep DEF MoveProvider
<1> QED
  BY <1>2, <1>3

LEMMA ChooseStep ==
  ASSUME LoginInv, ChooseMethod \/ ChooseProvider
  PROVE  LoginInv'
<1>1. CASE ChooseMethod
  <2>1. oauth.stage \notin {"busy", "asks"} /\ <<>> \in Seq(Providing)
    <3>1. screen.is = "method"
      BY <1>1 DEF ChooseMethod
    <3> QED
      BY <3>1 DEF LoginInv, Chosen
  <2> DEFINE bySubscription == ProvidersBy("subscription")
             byKey == ProvidersBy("api-key")
  <2>2. bySubscription \in Seq(Providing) /\ byKey \in Seq(Providing)
    BY ListsAreProviders
  <2>3. UNCHANGED oauth /\ UNCHANGED stores
    BY <1>1 DEF ChooseMethod
  <2>4. \/ Push("providers", "", "subscription", bySubscription)
        \/ Push("providers", "", "api-key", byKey)
        \/ Push("custom", "", "custom", <<>>)
        \/ at \notin {1, 2, 3}
    BY <1>1 DEF ChooseMethod
  <2>5. at \in {1, 2, 3}
    BY <1>1 DEF ChooseMethod, LoginInv, LoginType
  <2> HIDE DEF bySubscription, byKey
  <2> QED
    BY <2>1, <2>2, <2>3, <2>4, <2>5, PushStep
<1>2. CASE ChooseProvider
  <2>1. listed[at] \in Providing
    BY <1>2 DEF ChooseProvider, LoginInv, LoginType
  <2> QED
    BY <1>2, <2>1, OpenLoginStep DEF ChooseProvider
<1> QED
  BY <1>1, <1>2

LEMMA SearchStep ==
  ASSUME LoginInv, NEW S, Search(S)
  PROVE  LoginInv'
<1>1. listed' \in Seq(Providing) /\ at' = 1
  BY ListsAreProviders, AmongIs DEF Search
<1>2. listed' # <<>> => 1 \in DOMAIN listed'
  BY <1>1
<1> QED
  BY <1>1, <1>2, StayStep DEF Search
LEMMA SubmitKeyStep ==
  ASSUME LoginInv, SubmitKey
  PROVE  LoginInv'
<1>1. screen.provider \in Providing /\ screen.provider \in Names
  BY LoginAssumption DEF SubmitKey, LoginInv, Chosen, Names, Providing
<1> QED
  BY <1>1, DismissStep, StoreStep DEF SubmitKey

LEMMA LoginSucceedsStep ==
  ASSUME LoginInv, LoginSucceeds
  PROVE  LoginInv'
<1>1. screen.is = "oauth" /\ screen.provider \in Providing /\ screen.provider \in Names
  BY LoginAssumption DEF LoginSucceeds, LoginInv, Chosen, Names, Providing
<1> QED
  BY <1>1, StoreStep DEF LoginSucceeds

LEMMA BeginStep ==
  ASSUME LoginInv, BeginLogin \/ BeginLogout
  PROVE  LoginInv'
<1>1. <<>> \in Seq(Providing) /\ Stored \in Seq(Providing) /\ NoTask.stage = "off"
  BY ListsAreProviders DEF NoTask
<1>2. screen.is = "none" /\ oauth.stage \notin {"busy", "asks"}
  BY DEF BeginLogin, BeginLogout, LoginInv, Chosen
<1>3. CASE BeginLogin /\ OpenLoginPicker
  BY <1>1, <1>3, PushStep DEF BeginLogin, OpenLoginPicker
<1>4. ASSUME BeginLogin, NEW p \in ToSet(BuiltIn), OpenLogin(p, "") PROVE LoginInv'
  BY <1>2, <1>4, OpenLoginStep, LoginAssumption DEF BeginLogin, Providing
<1>5. CASE BeginLogout
  BY <1>1, <1>2, <1>5, PushStep DEF BeginLogout
<1> QED
  BY <1>3, <1>4, <1>5 DEF BeginLogin

LEMMA LogoutStep ==
  ASSUME LoginInv, Logout
  PROVE  LoginInv'
<1>1. listed' = <<>> /\ screen'.is = "none" /\ oauth'.stage = "off" /\ <<>> \in Seq(Providing)
  <2>1. Push("none", "", "", <<>>) /\ oauth' = NoTask
    BY DEF Logout, Dismiss
  <2>2. <<>> \in Seq(Providing)
    OBVIOUS
  <2>3. listed' = <<>> /\ screen'.is = "none"
    BY <2>1 DEF Push
  <2> QED
    BY <2>1, <2>2, <2>3 DEF NoTask
<1>2. /\ credential' = [credential EXCEPT ![listed[at]] = "none"]
      /\ UNCHANGED <<catalog, saved, session, finished>>
  BY DEF Logout
<1>3. credential' \in [Names -> Credentials] /\ \A n \in Names : credential'[n] \in {credential[n], "none"}
  BY <1>2 DEF LoginInv, LoginType, Credentials
<1>4. LoginType' /\ Chosen'
  BY <1>1, <1>3 DEF LoginType, Chosen
<1>5. LoginIsWhole'
  BY <1>2, <1>3 DEF LoginInv, LoginIsWhole, NoDanglingProvider, StoredWasFinished
<1> QED
  BY <1>4, <1>5 DEF LoginInv

\* What only fills a screen, or is told to the task of a login.
LEMMA AsideStep ==
  ASSUME LoginInv,
         \/ NextField \/ LoginFails \/ (\E value : Fill(value)) \/ (\E b : LoginAsks(b))
         \/ (\E value : SubmitCode(value)) \/ UNCHANGED loginVars
  PROVE  LoginInv'
<1>1. /\ listed \in Seq(Providing) /\ (screen.is = "method" => at \in {1, 2, 3})
      /\ screen.is \in {"providers", "logout"} /\ listed # <<>> => at \in DOMAIN listed
  BY DEF LoginInv, LoginType
<1>2. UNCHANGED <<screen, stores, listed, at>>
  BY DEF NextField, LoginFails, Fill, LoginAsks, SubmitCode, loginVars
<1>3. oauth'.stage \in {"busy", "asks"} => oauth.stage \in {"busy", "asks"}
  <2>1. CASE UNCHANGED oauth
    BY <2>1
  <2>2. CASE LoginFails
    <3>1. oauth.stage \in {"busy", "asks"}
      BY <2>2 DEF LoginFails
    <3> QED
      BY <3>1
  <2>3. ASSUME NEW b, LoginAsks(b) PROVE oauth.stage \in {"busy", "asks"}
    BY <2>3 DEF LoginAsks
  <2>4. ASSUME NEW value, SubmitCode(value) PROVE oauth.stage \in {"busy", "asks"}
    BY <2>4 DEF SubmitCode
  <2> QED
    BY <2>1, <2>2, <2>3, <2>4 DEF NextField, Fill, loginVars
<1> QED
  BY <1>1, <1>2, <1>3, StayStep

LEMMA LoginStepInv == LoginInv /\ [LoginNext]_loginVars => LoginInv'
<1> SUFFICES ASSUME LoginInv, [LoginNext]_loginVars PROVE LoginInv'
  OBVIOUS
<1>1. ASSUME Back PROVE LoginInv'
  <2>1. <<>> \in Seq(Providing) /\ NoTask.stage = "off"
    BY DEF NoTask
  <2> QED
    BY <1>1, <2>1, PushStep DEF Back, OpenLoginPicker
<1>2. ASSUME Close PROVE LoginInv'
  BY <1>2, DismissStep DEF Close
<1>3. ASSUME NEW name \in Own, SubmitCustom(name) PROVE LoginInv'
  BY <1>3, StoreStep DEF SubmitCustom, Names
<1> QED
  BY <1>1, <1>2, <1>3, BeginStep, ChooseStep, SubmitKeyStep, LoginSucceedsStep, LogoutStep, MoveSteps,
     SearchStep, AsideStep DEF LoginNext
-----------------------------------------------------------------------------
(* The completion box.                                                     *)
LEMMA LowestIs ==
  ASSUME NEW S, S \subseteq Nat, S # {}
  PROVE  Lowest(S) \in S /\ \A x \in S : Lowest(S) <= x
<1>1. \E n \in S : \A m \in S : n <= m
  BY LeastNumber
<1> QED
  BY <1>1 DEF Lowest

LEMMA HighestIs ==
  ASSUME NEW S, S \subseteq Nat, S # {}, NEW m \in Nat, \A k \in S : k <= m
  PROVE  Highest(S) \in S /\ \A x \in S : Highest(S) >= x
<1>1. \E n \in S : \A k \in S : k <= n
  BY GreatestNumber
<1>2. \A n, k \in S : k <= n <=> n >= k
  OBVIOUS
<1> QED
  BY <1>1, <1>2 DEF Highest

\* Whatever is cut off, the selected item stays: the first loop stops at it at the latest, and the
\* last one runs only when the end was cut to the selection.
LEMMA SliceShows ==
  ASSUME NEW list, NEW n \in Nat, Len(list) = n, NEW sel \in 1 .. n, NEW max
  PROVE  LET g == Slice(list, sel, max) IN
         /\ sel \in g.from .. g.to
         /\ RenderLines(list, g.from, g.to) <= g.max \/ g.from = g.to
<1> DEFINE F == {f \in 1 .. sel : f = sel \/ SelectedLine(list, f, sel) < Highest({max - 1, 1})}
           first == Lowest(F)
           T == {t \in sel .. n : t = sel \/ RenderLines(list, first, t) <= max}
           to == Highest(T)
           G == {f \in first .. sel : f = sel \/ RenderLines(list, f, to) <= max}
           from == Lowest(G)
<1>1. Slice(list, sel, max) = [from |-> from, to |-> to, max |-> max]
  BY DEF Slice
<1>2. first \in 1 .. sel
  <2>1. sel \in F /\ F \subseteq Nat /\ F \subseteq 1 .. sel
    OBVIOUS
  <2> QED
    BY <2>1, LowestIs
<1> HIDE DEF F, first
<1>3. to \in T
  <2>1. sel \in T /\ T \subseteq Nat /\ \A t \in T : t <= n
    OBVIOUS
  <2> QED
    BY <2>1, HighestIs
<1> HIDE DEF to
<1>4. from \in G /\ \A f \in G : from <= f
  <2>1. sel \in G /\ G \subseteq Nat
    BY <1>2
  <2> QED
    BY <2>1, LowestIs
<1> HIDE DEF from
<1>5. sel \in from .. to
  BY <1>2, <1>3, <1>4
<1>6. RenderLines(list, from, to) <= max \/ from = to
  <2>1. CASE to = sel
    BY <2>1, <1>4
  <2>2. CASE to # sel
    <3>1. RenderLines(list, first, to) <= max
      BY <2>2, <1>3
    <3>2. first \in G
      BY <3>1, <1>2
    <3>3. from = first
      BY <3>2, <1>4, <1>2
    <3> QED
      BY <3>1, <3>3
  <2> QED
    BY <2>1, <2>2
<1> QED
  BY <1>1, <1>5, <1>6

WindowInv ==
  /\ \E n \in Nat : Len(options) = n /\ (options = <<>> => n = 0) /\ (options # <<>> => chosen \in 1 .. n)
  /\ SelectedIsShown

LEMMA ListLength ==
  ASSUME NEW list \in Lists
  PROVE  Len(list) \in Nat /\ (list # <<>> => Len(list) > 0)
<1>1. list \in Seq([category : STRING, extra : Nat])
  BY WindowAssumption
<1> QED
  BY <1>1

LEMMA WindowInitInv == WindowInit => WindowInv
<1> SUFFICES ASSUME WindowInit PROVE WindowInv
  OBVIOUS
<1>1. Len(options) = 0
  BY DEF WindowInit
<1> QED
  BY <1>1 DEF WindowInv, WindowInit, SelectedIsShown

LEMMA RefreshStep ==
  ASSUME NEW list, NEW n \in Nat, Len(list) = n, NEW sel, list # <<>> => sel \in 1 .. n,
         list = <<>> => n = 0, Refresh(list, sel)
  PROVE  WindowInv'
<1>1. options' = list /\ chosen' = sel
  BY DEF Refresh
<1>2. SelectedIsShown'
  <2> SUFFICES ASSUME list # <<>>
               PROVE  /\ sel \in given'.from .. given'.to
                      /\ RenderLines(list, given'.from, given'.to) <= given'.max \/ given'.from = given'.to
    BY <1>1 DEF SelectedIsShown
  <2>1. PICK b \in Estimates : given' = Slice(list, sel, b)
    BY DEF Refresh
  <2> QED
    BY <2>1, SliceShows
<1> QED
  BY <1>1, <1>2 DEF WindowInv

LEMMA WindowStepInv == WindowInv /\ [WindowNext]_windowVars => WindowInv'
<1> SUFFICES ASSUME WindowInv, [WindowNext]_windowVars PROVE WindowInv'
  OBVIOUS
<1>0. PICK n \in Nat : Len(options) = n /\ (options = <<>> => n = 0) /\ (options # <<>> => chosen \in 1 .. n)
  BY DEF WindowInv
<1>1. CASE \E list \in Lists : Offer(list)
  <2>1. PICK list \in Lists : Refresh(list, 1)
    BY <1>1 DEF Offer
  <2>2. list # <<>> => 1 \in 1 .. Len(list)
    BY ListLength
  <2>3. list = <<>> => Len(list) = 0
    OBVIOUS
  <2> QED
    BY <2>1, <2>2, <2>3, ListLength, RefreshStep
<1>2. CASE SelectNext
  <2>1. options # <<>> /\ chosen \in 1 .. n
    BY <1>2, <1>0 DEF SelectNext
  <2>2. (chosen % n) + 1 \in 1 .. n
    BY <2>1
  <2> QED
    BY <2>1, <2>2, <1>0, <1>2, RefreshStep DEF SelectNext
<1>3. CASE SelectPrevious
  <2>1. options # <<>> /\ chosen \in 1 .. n
    BY <1>3, <1>0 DEF SelectPrevious
  <2>2. (IF chosen = 1 THEN n ELSE chosen - 1) \in 1 .. n
    BY <2>1
  <2> QED
    BY <2>1, <2>2, <1>0, <1>3, RefreshStep DEF SelectPrevious
<1>4. CASE Resize \/ LaidOut \/ UNCHANGED windowVars
  <2>1. UNCHANGED <<options, chosen, given>>
    BY <1>4 DEF Resize, LaidOut, windowVars
  <2> QED
    BY <2>1 DEF WindowInv, SelectedIsShown
<1> QED
  BY <1>1, <1>2, <1>3, <1>4 DEF WindowNext
-----------------------------------------------------------------------------
(* The session tree: in which order its entries are listed.                *)

\* A session as the picker finds it.
IsSession(t, n) ==
  /\ n \in Nat /\ t \in [1 .. n -> [parent : Int, kind : STRING]] /\ Len(t) = n
  /\ \A i \in 1 .. n : t[i].parent < i

LEMMA SessionIs == \A t \in Trees : IsSession(t, Len(t))
<1> SUFFICES ASSUME NEW t \in Trees PROVE IsSession(t, Len(t))
  OBVIOUS
<1>1. t \in Seq([parent : Int, kind : STRING])
  BY TreeAssumption
<1>2. \A i \in 1 .. Len(t) : t[i].parent < i
  BY TreeAssumption
<1>3. Len(t) \in Nat /\ t \in [1 .. Len(t) -> [parent : Int, kind : STRING]]
  BY <1>1, LenProperties
<1> QED
  BY <1>2, <1>3 DEF IsSession

\* Members of a list and where they are in it.
Keeps(ix, list, S) ==
  /\ ix \in [1 .. Len(Among(list, S)) -> 1 .. Len(list)]
  /\ \A i, j \in 1 .. Len(Among(list, S)) : i < j => ix[i] < ix[j]
  /\ \A k \in 1 .. Len(list) : list[k] \in S => \E i \in 1 .. Len(Among(list, S)) : ix[i] = k
  /\ \A i \in 1 .. Len(Among(list, S)) : Among(list, S)[i] = list[ix[i]] /\ list[ix[i]] \in S

LEMMA AmongKeeps ==
  ASSUME NEW T, NEW list \in Seq(T), NEW S
  PROVE  Among(list, S) \in Seq(T) /\ \E ix : Keeps(ix, list, S)
<1> DEFINE K == {i \in DOMAIN list : list[i] \in S}
<1>1. Among(list, S) = FlattenSeq(Selecting(list, K))
  BY DEF Selecting, Among
<1>2. K \in SUBSET DOMAIN list /\ DOMAIN list = 1 .. Len(list)
  OBVIOUS
<1>3. \A k \in K : k \in 1 .. Len(list) /\ list[k] \in S
  BY <1>2
<1>4. \A k \in 1 .. Len(list) : list[k] \in S => k \in K
  BY <1>2
<1> HIDE DEF K
<1>5. FlattenSeq(Selecting(list, K)) \in Seq(T)
  BY <1>2, SelectedAre
<1>6. PICK ix : Picks(ix, list, K)
  BY <1>2, SelectedAre
<1> DEFINE F == Among(list, S)
<1>7. /\ ix \in [1 .. Len(F) -> K]
      /\ \A i, j \in 1 .. Len(F) : i < j => ix[i] < ix[j]
      /\ \A k \in K : \E i \in 1 .. Len(F) : ix[i] = k
      /\ \A i \in 1 .. Len(F) : F[i] = list[ix[i]]
  BY <1>1, <1>6 DEF Picks
<1> HIDE DEF F
<1>8. K \subseteq 1 .. Len(list)
  BY <1>2
<1>9. ix \in [1 .. Len(F) -> 1 .. Len(list)]
  BY <1>7, <1>8
<1>10. Keeps(ix, list, S)
  BY <1>3, <1>4, <1>7, <1>9 DEF Keeps, F
<1> QED
  BY <1>1, <1>5, <1>10

LEMMA AmongHas ==
  ASSUME NEW T, NEW list \in Seq(T), NEW S
  PROVE  /\ Among(list, S) \in Seq(T)
         /\ ToSet(Among(list, S)) = ToSet(list) \cap S
<1>1. Among(list, S) \in Seq(T)
  BY AmongKeeps
<1>2. PICK ix : Keeps(ix, list, S)
  BY AmongKeeps
<1> DEFINE F == Among(list, S)
<1>3. /\ ix \in [1 .. Len(F) -> 1 .. Len(list)]
      /\ \A k \in 1 .. Len(list) : list[k] \in S => \E i \in 1 .. Len(F) : ix[i] = k
      /\ \A i \in 1 .. Len(F) : F[i] = list[ix[i]] /\ list[ix[i]] \in S
  BY <1>2 DEF Keeps
<1>4. F \in Seq(T)
  BY <1>1
<1> HIDE DEF F
<1>5. DOMAIN F = 1 .. Len(F) /\ DOMAIN list = 1 .. Len(list)
  BY <1>4
<1>6. ToSet(F) = ToSet(list) \cap S
  <2>1. ASSUME NEW x \in ToSet(F) PROVE x \in ToSet(list) \cap S
    BY <1>3, <1>5 DEF ToSet
  <2>2. ASSUME NEW x \in ToSet(list) \cap S PROVE x \in ToSet(F)
    <3>1. PICK k \in 1 .. Len(list) : x = list[k]
      BY <1>5 DEF ToSet
    <3>2. PICK i \in 1 .. Len(F) : ix[i] = k
      BY <1>3, <3>1
    <3>3. F[i] = x
      BY <1>3, <3>1, <3>2
    <3> QED
      BY <1>5, <3>3 DEF ToSet
  <2> QED
    BY <2>1, <2>2
<1> QED
  BY <1>1, <1>6 DEF F

\* A list that has each of its members once.
Once(list) == \A i, j \in 1 .. Len(list) : list[i] = list[j] => i = j

LEMMA AmongOnce ==
  ASSUME NEW T, NEW list \in Seq(T), NEW S, Once(list)
  PROVE  Once(Among(list, S))
<1>1. PICK ix : Keeps(ix, list, S)
  BY AmongKeeps
<1> DEFINE F == Among(list, S)
<1>2. /\ ix \in [1 .. Len(F) -> 1 .. Len(list)]
      /\ \A i, j \in 1 .. Len(F) : i < j => ix[i] < ix[j]
      /\ \A i \in 1 .. Len(F) : F[i] = list[ix[i]]
  BY <1>1 DEF Keeps
<1>3. Len(F) \in Nat
  BY AmongKeeps
<1> HIDE DEF F
<1>4. ASSUME NEW i \in 1 .. Len(F), NEW j \in 1 .. Len(F), F[i] = F[j] PROVE i = j
  <2>1. ix[i] = ix[j]
    BY <1>2, <1>4 DEF Once
  <2>2. ~ (i < j) /\ ~ (j < i)
    BY <1>2, <2>1
  <2> QED
    BY <1>3, <2>2
<1> QED
  BY <1>4 DEF Once, F
LEMMA ChildrenAre ==
  ASSUME NEW n, NEW t, IsSession(t, n), NEW p
  PROVE  /\ Children(t, p) \in Seq(1 .. n) /\ Once(Children(t, p))
         /\ ToSet(Children(t, p)) = {i \in 1 .. n : t[i].parent = p}
<1> DEFINE ids == [i \in 1 .. n |-> i]
           S == {i \in 1 .. n : t[i].parent = p}
<1>1. n \in Nat /\ Len(t) = n
  BY DEF IsSession
<1>2. ids \in Seq(1 .. n) /\ Len(ids) = n /\ \A i \in 1 .. n : ids[i] = i
  BY <1>1
<1>3. ToSet(ids) = 1 .. n
  BY <1>1 DEF ToSet
<1>4. Once(ids)
  BY <1>2 DEF Once
<1>5. Children(t, p) = Among(ids, S)
  BY <1>1 DEF Children
<1>6. S = (1 .. n) \cap S
  OBVIOUS
<1> HIDE DEF ids, S
<1>7. Among(ids, S) \in Seq(1 .. n) /\ ToSet(Among(ids, S)) = (1 .. n) \cap S
  <2>1. Among(ids, S) \in Seq(1 .. n) /\ ToSet(Among(ids, S)) = ToSet(ids) \cap S
    BY <1>2, AmongHas
  <2> QED
    BY <1>3, <2>1
<1>8. Once(Among(ids, S))
  BY <1>2, <1>4, AmongOnce
<1> QED
  BY <1>5, <1>6, <1>7, <1>8 DEF S

\* The state of the walk, and what is true of the entries listed so far: each is there once, and
\* after the entry it follows.
Walks(n) == [stack : Seq(0 .. n), expanded : SUBSET (0 .. n), out : Seq(1 .. n)]
InOrder(t, out) ==
  /\ Once(out)
  /\ \A k \in 1 .. Len(out) : t[out[k]].parent > 0 => \E j \in 1 .. k - 1 : out[j] = t[out[k]].parent
Rooted(s) == ToSet(s.stack) \subseteq {0} \cup ToSet(s.out)

\* Appending entries that are not there yet, whose parents are.
LEMMA Listing ==
  ASSUME NEW n, NEW t, IsSession(t, n), NEW out \in Seq(1 .. n), NEW more \in Seq(1 .. n),
         InOrder(t, out), Once(more), ToSet(more) \cap ToSet(out) = {},
         \A e \in ToSet(more) : t[e].parent > 0 => t[e].parent \in ToSet(out)
  PROVE  InOrder(t, out \o more)
<1> DEFINE c == out \o more
           m == Len(out)
<1>1. /\ Len(c) = m + Len(more) /\ m \in Nat /\ Len(more) \in Nat
      /\ DOMAIN out = 1 .. m /\ DOMAIN more = 1 .. Len(more)
      /\ \A i \in 1 .. m : c[i] = out[i] /\ out[i] \in ToSet(out)
      /\ \A i \in 1 .. Len(more) : c[m + i] = more[i] /\ more[i] \in ToSet(more)
  BY Members DEF ToSet
<1> HIDE DEF c, m
<1>2. ASSUME NEW i \in 1 .. Len(c) PROVE i \in 1 .. m \/ (i - m \in 1 .. Len(more) /\ i = m + (i - m))
  BY <1>1
<1>3. Once(c)
  <2> SUFFICES ASSUME NEW i \in 1 .. Len(c), NEW j \in 1 .. Len(c), c[i] = c[j] PROVE i = j
    BY DEF Once
  <2>1. CASE i \in 1 .. m /\ j \in 1 .. m
    BY <1>1, <2>1 DEF InOrder, Once, m
  <2>2. CASE i \notin 1 .. m /\ j \notin 1 .. m
    <3>1. /\ i - m \in 1 .. Len(more) /\ i = m + (i - m)
          /\ j - m \in 1 .. Len(more) /\ j = m + (j - m)
      BY <1>2, <2>2
    <3>2. more[i - m] = more[j - m]
      BY <1>1, <3>1
    <3>3. i - m = j - m
      BY <3>1, <3>2 DEF Once
    <3> QED
      BY <3>1, <3>3
  <2>3. CASE (i \in 1 .. m /\ j \notin 1 .. m) \/ (i \notin 1 .. m /\ j \in 1 .. m)
    <3>1. \E x \in ToSet(out), y \in ToSet(more) : x = y
      BY <1>1, <1>2, <2>3, ZenonT(30)
    <3> QED
      BY <3>1
  <2> QED
    BY <2>1, <2>2, <2>3
<1>4. ASSUME NEW k \in 1 .. Len(c), t[c[k]].parent > 0
      PROVE  \E j \in 1 .. k - 1 : c[j] = t[c[k]].parent
  <2>1. CASE k \in 1 .. m
    <3>1. PICK j \in 1 .. k - 1 : out[j] = t[out[k]].parent
      BY <1>1, <1>4, <2>1 DEF InOrder, m
    <3>2. j \in 1 .. m
      BY <1>1, <2>1
    <3> QED
      BY <1>1, <2>1, <3>1, <3>2
  <2>2. CASE k \notin 1 .. m
    <3>1. k - m \in 1 .. Len(more) /\ k = m + (k - m) /\ m <= k - 1
      BY <1>1, <1>2, <2>2
    <3>2. c[k] \in ToSet(more)
      BY <1>1, <3>1
    <3>3. t[c[k]].parent \in ToSet(out)
      BY <1>4, <3>2
    <3>4. PICK j \in 1 .. m : out[j] = t[c[k]].parent
      BY <1>1, <3>3 DEF ToSet
    <3>5. j \in 1 .. k - 1
      BY <1>1, <3>1
    <3> QED
      BY <1>1, <3>4, <3>5
  <2> QED
    BY <2>1, <2>2
<1> QED
  BY <1>3, <1>4 DEF InOrder, c
LEMMA Widen ==
  ASSUME NEW S, NEW T, S \subseteq T, NEW s \in Seq(S)
  PROVE  s \in Seq(T)
OBVIOUS

LEMMA ToSetWithin ==
  ASSUME NEW S, NEW s \in Seq(S)
  PROVE  ToSet(s) \subseteq S
BY DEF ToSet

LEMMA FrontLast ==
  ASSUME NEW T, NEW s \in Seq(T), s # <<>>
  PROVE  /\ Last(s) \in ToSet(s) /\ Last(s) \in T
         /\ Front(s) \in Seq(T) /\ ToSet(Front(s)) \subseteq ToSet(s)
<1> DEFINE m == Len(s)
           f == SubSeq(s, 1, m - 1)
<1>1. m \in Nat /\ m > 0 /\ DOMAIN s = 1 .. m /\ \A i \in 1 .. m : s[i] \in T
  OBVIOUS
<1>2. f \in Seq(T) /\ Len(f) = m - 1 /\ \A i \in 1 .. m - 1 : f[i] = s[i]
  BY <1>1
<1>3. Front(s) = f /\ Last(s) = s[m]
  BY DEF Front, Last
<1>4. DOMAIN f = 1 .. m - 1
  BY <1>2
<1> HIDE DEF f, m
<1> QED
  BY <1>1, <1>2, <1>3, <1>4 DEF ToSet

LEMMA ReverseHas ==
  ASSUME NEW T, NEW s \in Seq(T)
  PROVE  Reverse(s) \in Seq(T) /\ ToSet(Reverse(s)) \subseteq ToSet(s)
<1> DEFINE m == Len(s)
           r == [i \in 1 .. m |-> s[(m - i) + 1]]
<1>1. m \in Nat /\ DOMAIN s = 1 .. m /\ \A i \in 1 .. m : s[i] \in T
  OBVIOUS
<1>2. \A i \in 1 .. m : (m - i) + 1 \in 1 .. m
  BY <1>1
<1>3. r \in Seq(T)
  BY <1>1, <1>2
<1>4. Reverse(s) = r
  BY DEF Reverse
<1> HIDE DEF m
<1> QED
  BY <1>1, <1>2, <1>3, <1>4 DEF ToSet

\* One turn of the walk keeps the list in order, and what is on the stack in the list.
LEMMA VisitStep ==
  ASSUME NEW n, NEW t, IsSession(t, n), NEW s \in Walks(n)
  PROVE  LET r == Visit(t, s) IN
         /\ r \in Walks(n) /\ ToSet(s.out) \subseteq ToSet(r.out)
         /\ InOrder(t, s.out) /\ Rooted(s) => InOrder(t, r.out) /\ Rooted(r)
<1>1. s.stack \in Seq(0 .. n) /\ s.expanded \in SUBSET (0 .. n) /\ s.out \in Seq(1 .. n) /\ n \in Nat /\ Len(t) = n
  BY DEF Walks, IsSession
<1>2. CASE s.stack = <<>>
  BY <1>2 DEF Visit
<1>3. CASE s.stack # <<>> /\ Last(s.stack) \in s.expanded
  <2> DEFINE r == [s EXCEPT !.stack = Front(s.stack)]
  <2>1. Visit(t, s) = r
    BY <1>3 DEF Visit
  <2>2. Front(s.stack) \in Seq(0 .. n) /\ ToSet(Front(s.stack)) \subseteq ToSet(s.stack)
    BY <1>1, <1>3, FrontLast
  <2>3. r \in Walks(n) /\ r.out = s.out /\ r.stack = Front(s.stack)
    BY <1>1, <2>2 DEF Walks
  <2> HIDE DEF r
  <2> QED
    BY <2>1, <2>2, <2>3 DEF Rooted
<1>4. CASE s.stack # <<>> /\ Last(s.stack) \notin s.expanded
  <2> DEFINE p == Last(s.stack)
             kids == Children(t, p)
             rest == (1 .. Len(t)) \ ToSet(s.out)
             new == Among(kids, rest)
             stack == Front(s.stack) \o Reverse(kids)
             r == [stack |-> stack, expanded |-> s.expanded \cup {p}, out |-> s.out \o new]
  <2>1. Visit(t, s) = r
    BY <1>4 DEF Visit
  <2>2. p \in ToSet(s.stack) /\ p \in 0 .. n /\ Front(s.stack) \in Seq(0 .. n) /\ ToSet(Front(s.stack)) \subseteq ToSet(s.stack)
    BY <1>1, <1>4, FrontLast
  <2> HIDE DEF p
  <2>3. kids \in Seq(1 .. n) /\ Once(kids) /\ ToSet(kids) = {i \in 1 .. n : t[i].parent = p}
    BY ChildrenAre
  <2> HIDE DEF kids
  <2>4. new \in Seq(1 .. n) /\ Once(new) /\ ToSet(new) = ToSet(kids) \cap rest
    BY <2>3, AmongHas, AmongOnce
  <2> HIDE DEF new
  <2>5. Reverse(kids) \in Seq(1 .. n) /\ ToSet(Reverse(kids)) \subseteq ToSet(kids)
    BY <2>3, ReverseHas
  <2>6. Reverse(kids) \in Seq(0 .. n)
    <3>1. 1 .. n \subseteq 0 .. n
      OBVIOUS
    <3> QED
      BY <2>5, <3>1, Widen
  <2>7. stack \in Seq(0 .. n) /\ ToSet(stack) = ToSet(Front(s.stack)) \cup ToSet(Reverse(kids))
    BY <2>2, <2>6, Members
  <2>8. s.out \o new \in Seq(1 .. n) /\ ToSet(s.out \o new) = ToSet(s.out) \cup ToSet(new)
    BY <1>1, <2>4, Members
  <2> HIDE DEF stack
  <2>9. r \in Walks(n) /\ r.out = s.out \o new /\ r.stack = stack
    BY <1>1, <2>2, <2>7, <2>8 DEF Walks
  <2>10. ASSUME InOrder(t, s.out), Rooted(s) PROVE InOrder(t, r.out) /\ Rooted(r)
    <3>1. p = 0 \/ p \in ToSet(s.out)
      BY <2>2, <2>10 DEF Rooted
    <3>2. ToSet(new) \cap ToSet(s.out) = {}
      BY <2>4
    <3>3. \A e \in ToSet(new) : t[e].parent > 0 => t[e].parent \in ToSet(s.out)
      BY <2>3, <2>4, <3>1
    <3>4. InOrder(t, s.out \o new)
      BY <1>1, <2>4, <2>10, <3>2, <3>3, Listing
    <3>5. \A e \in ToSet(kids) : e \in ToSet(s.out) \/ e \in ToSet(new)
      BY <1>1, <2>3, <2>4
    <3>6. Rooted(r)
      BY <2>2, <2>5, <2>7, <2>8, <2>9, <2>10, <3>5 DEF Rooted
    <3> QED
      BY <2>9, <3>4, <3>6
  <2> HIDE DEF r
  <2> QED
    BY <2>1, <2>8, <2>9, <2>10
<1> QED
  BY <1>2, <1>3, <1>4
\* What is true of a walk from an entry that is listed, or from the roots.
Descends(n, t, r, s) ==
  /\ r \in Walks(n) /\ ToSet(s.out) \subseteq ToSet(r.out)
  /\ InOrder(t, s.out) => InOrder(t, r.out)

LEMMA DescendStep ==
  ASSUME NEW n, NEW t, IsSession(t, n), NEW s \in Walks(n), NEW p \in 0 .. n, p = 0 \/ p \in ToSet(s.out)
  PROVE  Descends(n, t, Descend(t, p, s), s)
<1> DEFINE N == n + 1
           base == [s EXCEPT !.stack = <<p>>]
           V == Walks(n)
           Is(f) == f = [k \in 0 .. N |-> IF k = 0 THEN base ELSE Visit(t, f[k - 1])]
           after == CHOOSE f : Is(f)
           next == [x \in (1 .. N) \X V |-> Visit(t, x[2])]
<1>1. n \in Nat /\ Len(t) = n /\ N \in Nat
  BY DEF IsSession
<1>2. Descend(t, p, s) = after[N]
  BY <1>1 DEF Descend
<1>3. base \in V /\ base.out = s.out /\ Rooted(base)
  <2>1. <<p>> \in Seq(0 .. n) /\ ToSet(<<p>>) = {p}
    BY DEF ToSet
  <2>2. s.expanded \in SUBSET (0 .. n) /\ s.out \in Seq(1 .. n)
    BY DEF Walks
  <2>3. base = [stack |-> <<p>>, expanded |-> s.expanded, out |-> s.out]
    BY DEF Walks
  <2> HIDE DEF base
  <2>4. base \in V
    BY <2>1, <2>2, <2>3 DEF Walks
  <2>5. base.out = s.out /\ base.stack = <<p>>
    BY <2>3
  <2> QED
    BY <2>1, <2>4, <2>5 DEF Rooted
<1> HIDE DEF base, N
<1>4. next \in [(1 .. N) \X V -> V]
  <2> SUFFICES ASSUME NEW x \in (1 .. N) \X V PROVE Visit(t, x[2]) \in V
    OBVIOUS
  <2> QED
    BY VisitStep
<1>5. ASSUME NEW k \in 1 .. N, NEW v \in V PROVE next[<<k, v>>] = Visit(t, v)
  OBVIOUS
<1> HIDE DEF next
<1>6. PICK f : IteratesTo(f, N, V, base, next)
  BY <1>1, <1>3, <1>4, FiniteRecursion
<1>7. Is(f)
  <2> DEFINE a == [k \in 0 .. N |-> IF k = 0 THEN base ELSE next[<<k, f[k - 1]>>]]
             b == [k \in 0 .. N |-> IF k = 0 THEN base ELSE Visit(t, f[k - 1])]
  <2>1. ASSUME NEW k \in 0 .. N PROVE a[k] = b[k]
    <3>1. CASE k = 0
      BY <3>1
    <3>2. CASE k # 0
      <4>1. k \in 1 .. N /\ k - 1 \in 0 .. N
        BY <1>1, <3>2
      <4>2. f[k - 1] \in V
        BY <1>6, <4>1 DEF IteratesTo
      <4>3. next[<<k, f[k - 1]>>] = Visit(t, f[k - 1])
        BY <1>5, <4>1, <4>2
      <4>4. a[k] = next[<<k, f[k - 1]>>] /\ b[k] = Visit(t, f[k - 1])
        BY <3>2
      <4> QED
        BY <4>3, <4>4
    <3> QED
      BY <3>1, <3>2
  <2>2. a = [k \in 0 .. N |-> a[k]] /\ b = [k \in 0 .. N |-> b[k]]
    OBVIOUS
  <2>3. f = a
    BY <1>6 DEF IteratesTo
  <2> HIDE DEF a, b
  <2>4. f = b
    BY <2>1, <2>2, <2>3
  <2> QED
    BY <2>4 DEF b
<1>8. Is(after)
  BY <1>7
<1> HIDE DEF after
<1> DEFINE Bears(r) == /\ r \in V /\ ToSet(s.out) \subseteq ToSet(r.out)
                       /\ InOrder(t, s.out) => InOrder(t, r.out) /\ Rooted(r)
           T == {k \in Nat : k <= N => Bears(after[k])}
<1>9. 0 \in T
  <2>1. 0 \in 0 .. N
    BY <1>1
  <2>2. after[0] = base
    BY <1>8, <2>1
  <2> QED
    BY <1>3, <2>2
<1>10. ASSUME NEW k \in Nat, k \in T PROVE k + 1 \in T
  <2> SUFFICES ASSUME k + 1 <= N PROVE Bears(after[k + 1])
    OBVIOUS
  <2> DEFINE j == k + 1
  <2>1. j \in 0 .. N /\ j # 0 /\ j - 1 = k /\ k <= N
    BY <1>1
  <2>2. Bears(after[k])
    BY <1>10, <2>1
  <2> HIDE DEF j
  <2>3. after[j] = Visit(t, after[k])
    BY <1>8, <2>1
  <2> DEFINE q == after[k]
             r == after[j]
  <2>4. r = Visit(t, q) /\ q \in Walks(n)
    BY <2>2, <2>3
  <2>5. ToSet(s.out) \subseteq ToSet(q.out) /\ (InOrder(t, s.out) => InOrder(t, q.out) /\ Rooted(q))
    BY <2>2
  <2> HIDE DEF q, r
  <2>6. /\ r \in Walks(n) /\ ToSet(q.out) \subseteq ToSet(r.out)
        /\ InOrder(t, q.out) /\ Rooted(q) => InOrder(t, r.out) /\ Rooted(r)
    BY <2>4, VisitStep
  <2> QED
    BY <2>5, <2>6 DEF r, j
<1>11. \A k \in Nat : k \in T
  <2> HIDE DEF T
  <2> QED
    BY <1>9, <1>10, Induction
<1>12. Bears(after[N])
  BY <1>1, <1>11
<1> QED
  BY <1>2, <1>12 DEF Descends
\* An entry that was reached from no root is listed when its turn comes.
Listed(t, s, i) ==
  IF Contains(s.out, i) THEN s ELSE Descend(t, i, [s EXCEPT !.out = Append(s.out, i)])

ListsTo(n, t, r, i) == r \in Walks(n) /\ InOrder(t, r.out) /\ 1 .. i \subseteq ToSet(r.out)

LEMMA ListedStep ==
  ASSUME NEW n, NEW t, IsSession(t, n), NEW s \in Walks(n), NEW i \in 1 .. n
  PROVE  /\ Listed(t, s, i) \in Walks(n)
         /\ ListsTo(n, t, s, i - 1) => ListsTo(n, t, Listed(t, s, i), i)
<1>1. s.stack \in Seq(0 .. n) /\ s.expanded \in SUBSET (0 .. n) /\ s.out \in Seq(1 .. n) /\ n \in Nat
  BY DEF Walks, IsSession
<1>2. Contains(s.out, i) <=> i \in ToSet(s.out)
  BY <1>1 DEF Contains, ToSet
<1>3. ASSUME ListsTo(n, t, s, i - 1), NEW r, ToSet(s.out) \subseteq ToSet(r.out), i \in ToSet(r.out)
      PROVE  1 .. i \subseteq ToSet(r.out)
  <2>1. \A e \in 1 .. i : e \in 1 .. i - 1 \/ e = i
    BY <1>1
  <2> QED
    BY <1>3, <2>1 DEF ListsTo
<1>4. CASE Contains(s.out, i)
  <2>1. Listed(t, s, i) = s
    BY <1>4 DEF Listed
  <2> QED
    BY <1>2, <1>3, <1>4, <2>1 DEF ListsTo
<1>5. CASE ~Contains(s.out, i)
  <2> DEFINE o == s.out \o <<i>>
             b == [s EXCEPT !.out = Append(s.out, i)]
             r == Descend(t, i, b)
  <2>1. Listed(t, s, i) = r
    BY <1>5 DEF Listed
  <2>2. <<i>> \in Seq(1 .. n) /\ ToSet(<<i>>) = {i} /\ Once(<<i>>)
    BY DEF ToSet, Once
  <2>3. o \in Seq(1 .. n) /\ ToSet(o) = ToSet(s.out) \cup {i} /\ Append(s.out, i) = o
    <3> DEFINE one == <<i>>
    <3>0. s.out \in Seq(1 .. n) /\ one \in Seq(1 .. n) /\ ToSet(one) = {i}
      BY <1>1, <2>2
    <3> HIDE DEF one
    <3>1. s.out \o one \in Seq(1 .. n) /\ ToSet(s.out \o one) = ToSet(s.out) \cup ToSet(one)
      BY <3>0, Members
    <3> USE DEF one
    <3>2. Append(s.out, i) = o
      BY <1>1, AppendIsConcat
    <3> QED
      BY <2>2, <3>1, <3>2
  <2> HIDE DEF o
  <2>4. b = [stack |-> s.stack, expanded |-> s.expanded, out |-> o]
    BY <2>3, SMTT(30) DEF Walks
  <2> HIDE DEF b
  <2>5. b \in Walks(n) /\ b.out = o
    BY <1>1, <2>3, <2>4 DEF Walks
  <2>6. Descends(n, t, r, b)
    <3>1. i \in 0 .. n /\ (i = 0 \/ i \in ToSet(b.out))
      BY <1>1, <2>3, <2>5
    <3> QED
      BY <2>5, <3>1, DescendStep
  <2> HIDE DEF r
  <2>7. ASSUME ListsTo(n, t, s, i - 1) PROVE InOrder(t, o)
    <3>1. ToSet(<<i>>) \cap ToSet(s.out) = {}
      BY <1>2, <1>5, <2>2
    <3>2. \A e \in ToSet(<<i>>) : t[e].parent > 0 => t[e].parent \in ToSet(s.out)
      <4>1. t[i].parent \in Int /\ t[i].parent < i
        BY DEF IsSession
      <4>2. t[i].parent > 0 => t[i].parent \in 1 .. i - 1
        BY <1>1, <4>1
      <4> QED
        BY <2>2, <2>7, <4>2 DEF ListsTo
    <3>3. InOrder(t, s.out)
      BY <2>7 DEF ListsTo
    <3> QED
      BY <1>1, <2>2, <3>1, <3>2, <3>3, Listing DEF o
  <2>8. r \in Walks(n) /\ ToSet(s.out) \subseteq ToSet(r.out) /\ i \in ToSet(r.out)
    BY <2>3, <2>5, <2>6 DEF Descends
  <2>9. ASSUME ListsTo(n, t, s, i - 1) PROVE ListsTo(n, t, r, i)
    <3>1. InOrder(t, r.out)
      BY <2>5, <2>6, <2>7, <2>9 DEF Descends
    <3>2. 1 .. i \subseteq ToSet(r.out)
      BY <1>3, <2>8, <2>9
    <3> QED
      BY <2>8, <3>1, <3>2 DEF ListsTo
  <2> QED
    BY <2>1, <2>8, <2>9
<1> QED
  BY <1>4, <1>5

\* Every entry is listed once, after the entry it follows.
LEMMA OrderedIs ==
  ASSUME NEW n, NEW t, IsSession(t, n)
  PROVE  /\ OrderedEntries(t) \in Seq(1 .. n) /\ InOrder(t, OrderedEntries(t))
         /\ ToSet(OrderedEntries(t)) = 1 .. n
<1> DEFINE base == Descend(t, 0, [stack |-> <<>>, expanded |-> {}, out |-> <<>>])
           V == Walks(n)
           Is(f) == f = [i \in 0 .. n |-> IF i = 0 THEN base ELSE Listed(t, f[i - 1], i)]
           listing == CHOOSE f : Is(f)
           next == [x \in (1 .. n) \X V |-> Listed(t, x[2], x[1])]
<1>1. n \in Nat /\ Len(t) = n
  BY DEF IsSession
<1>2. OrderedEntries(t) = listing[n].out
  BY <1>1 DEF OrderedEntries, Listed
<1>3. ListsTo(n, t, base, 0)
  <2> DEFINE s == [stack |-> <<>>, expanded |-> {}, out |-> <<>>]
  <2>1. <<>> \in Seq(0 .. n) /\ <<>> \in Seq(1 .. n) /\ {} \in SUBSET (0 .. n)
    OBVIOUS
  <2>2. s \in Walks(n) /\ s.out = <<>>
    BY <2>1 DEF Walks
  <2> HIDE DEF s
  <2>3. InOrder(t, s.out)
    BY <2>2 DEF InOrder, Once
  <2>4. 0 \in 0 .. n
    BY <1>1
  <2>5. Descends(n, t, Descend(t, 0, s), s)
    BY <2>2, <2>4, DescendStep
  <2>6. 1 .. 0 = {}
    OBVIOUS
  <2> QED
    BY <2>3, <2>5, <2>6 DEF Descends, ListsTo, s
<1> HIDE DEF base
<1>4. base \in V
  BY <1>3 DEF ListsTo
<1>5. ASSUME NEW i \in 1 .. n, NEW v \in V PROVE Listed(t, v, i) \in V
  BY ListedStep
<1>6. next \in [(1 .. n) \X V -> V]
  <2> SUFFICES ASSUME NEW x \in (1 .. n) \X V PROVE Listed(t, x[2], x[1]) \in V
    OBVIOUS
  <2>1. x[1] \in 1 .. n /\ x[2] \in V
    OBVIOUS
  <2> HIDE DEF V
  <2> QED
    BY <1>5, <2>1
<1>7. ASSUME NEW i \in 1 .. n, NEW v \in V PROVE next[<<i, v>>] = Listed(t, v, i)
  OBVIOUS
<1> HIDE DEF next
<1>8. PICK f : IteratesTo(f, n, V, base, next)
  BY <1>1, <1>4, <1>6, FiniteRecursion
<1>9. Is(f)
  <2> DEFINE a == [k \in 0 .. n |-> IF k = 0 THEN base ELSE next[<<k, f[k - 1]>>]]
             b == [k \in 0 .. n |-> IF k = 0 THEN base ELSE Listed(t, f[k - 1], k)]
  <2>1. ASSUME NEW k \in 0 .. n PROVE a[k] = b[k]
    <3>1. CASE k = 0
      BY <3>1
    <3>2. CASE k # 0
      <4>1. k \in 1 .. n /\ k - 1 \in 0 .. n
        BY <1>1, <3>2
      <4>2. f[k - 1] \in V
        BY <1>8, <4>1 DEF IteratesTo
      <4>3. next[<<k, f[k - 1]>>] = Listed(t, f[k - 1], k)
        BY <1>7, <4>1, <4>2
      <4>4. a[k] = next[<<k, f[k - 1]>>] /\ b[k] = Listed(t, f[k - 1], k)
        BY <3>2
      <4> QED
        BY <4>3, <4>4
    <3> QED
      BY <3>1, <3>2
  <2>2. a = [k \in 0 .. n |-> a[k]] /\ b = [k \in 0 .. n |-> b[k]]
    OBVIOUS
  <2>3. f = a
    BY <1>8 DEF IteratesTo
  <2> HIDE DEF a, b
  <2>4. f = b
    BY <2>1, <2>2, <2>3
  <2> QED
    BY <2>4 DEF b
<1>10. Is(listing)
  BY <1>9
<1> HIDE DEF listing, V
<1> DEFINE T == {k \in Nat : k <= n => ListsTo(n, t, listing[k], k)}
<1>11. 0 \in T
  <2>1. 0 \in 0 .. n
    BY <1>1
  <2>2. listing[0] = base
    BY <1>10, <2>1
  <2> QED
    BY <1>3, <2>2
<1>12. ASSUME NEW k \in Nat, k \in T PROVE k + 1 \in T
  <2> SUFFICES ASSUME k + 1 <= n PROVE ListsTo(n, t, listing[k + 1], k + 1)
    OBVIOUS
  <2> DEFINE j == k + 1
  <2>1. j \in 0 .. n /\ j # 0 /\ j \in 1 .. n /\ j - 1 = k /\ k <= n
    BY <1>1
  <2>2. ListsTo(n, t, listing[k], k)
    BY <1>12, <2>1
  <2> HIDE DEF j
  <2>3. listing[j] = Listed(t, listing[k], j)
    BY <1>10, <2>1
  <2>4. listing[k] \in Walks(n)
    BY <2>2 DEF ListsTo
  <2>5. ListsTo(n, t, listing[j], j)
    BY <2>1, <2>2, <2>3, <2>4, ListedStep
  <2> QED
    BY <2>5 DEF j
<1>13. \A k \in Nat : k \in T
  <2> HIDE DEF T
  <2> QED
    BY <1>11, <1>12, Induction
<1>14. ListsTo(n, t, listing[n], n)
  BY <1>1, <1>13
<1>15. listing[n].out \in Seq(1 .. n)
  BY <1>14 DEF ListsTo, Walks
<1>16. ToSet(listing[n].out) \subseteq 1 .. n
  BY <1>15, ToSetWithin
<1> QED
  BY <1>2, <1>14, <1>15, <1>16 DEF ListsTo
------------------------------------------------------------------------------
(* How far an entry is indented. *)

\* What is computed along the parents of an entry.
Follows(g, n, t, V, base, next) ==
  /\ g \in [1 .. n -> V]
  /\ \A i \in 1 .. n : g[i] = next[<<i, IF t[i].parent > 0 THEN g[t[i].parent] ELSE base>>]

LEMMA OverTree ==
  ASSUME NEW n, NEW t, IsSession(t, n), NEW V, NEW base \in V, NEW next \in [(1 .. n) \X V -> V]
  PROVE  \E g : Follows(g, n, t, V, base, next)
<1> DEFINE parent == [i \in 1 .. n |-> IF t[i].parent > 0 THEN t[i].parent ELSE 0]
<1>1. /\ n \in Nat /\ parent \in [1 .. n -> Nat]
      /\ \A i \in 1 .. n : /\ t[i].parent \in Int /\ t[i].parent < i
                           /\ parent[i] = IF t[i].parent > 0 THEN t[i].parent ELSE 0
                           /\ parent[i] < i
  <2>1. n \in Nat /\ \A i \in 1 .. n : t[i].parent \in Int /\ t[i].parent < i
    BY DEF IsSession
  <2> QED
    BY <2>1
<1> HIDE DEF parent
<1>2. PICK f : Grows(f, n, parent, V, base, next)
  BY <1>1, TreeRecursion DEF IsTree
<1>3. /\ f \in [0 .. n -> V]
      /\ \A e \in 0 .. n : f[e] = IF e = 0 THEN base ELSE next[<<e, f[parent[e]]>>]
  <2>1. f \in [0 .. n -> V] /\ f = [e \in 0 .. n |-> IF e = 0 THEN base ELSE next[<<e, f[parent[e]]>>]]
    BY <1>2 DEF Grows
  <2> QED
    BY <2>1
<1> DEFINE g == [i \in 1 .. n |-> f[i]]
<1>4. g \in [1 .. n -> V]
  BY <1>1, <1>3
<1>5. ASSUME NEW i \in 1 .. n
      PROVE  g[i] = next[<<i, IF t[i].parent > 0 THEN g[t[i].parent] ELSE base>>]
  <2>0. 0 \in 0 .. n
    BY <1>1
  <2>a. f[0] = base
    BY <1>3, <2>0
  <2>1. i \in 0 .. n /\ i # 0 /\ 0 \in 0 .. n /\ f[0] = base
    BY <1>1, <2>a, <2>0
  <2>2. g[i] = next[<<i, f[parent[i]]>>]
    BY <1>3, <2>1
  <2>3. t[i].parent > 0 => t[i].parent \in 1 .. n
    BY <1>1
  <2>4. f[parent[i]] = IF t[i].parent > 0 THEN g[t[i].parent] ELSE base
    BY <1>1, <2>1, <2>3
  <2> QED
    BY <2>2, <2>4
<1>6. Follows(g, n, t, V, base, next)
  BY <1>4, <1>5 DEF Follows
<1> QED
  BY <1>6

\* An entry that is not the first of the branches at its place.
Forks(t, j) == \E s \in 1 .. j - 1 : t[s].parent = t[j].parent

LEMMA FirstChild ==
  ASSUME NEW n, NEW t, IsSession(t, n), NEW i \in 1 .. n
  PROVE  Children(t, t[i].parent)[1] = i <=> ~Forks(t, i)
<1> DEFINE p == t[i].parent
           ids == [k \in 1 .. n |-> k]
           S == {k \in 1 .. n : t[k].parent = p}
           kids == Among(ids, S)
<1>1. n \in Nat /\ Len(t) = n
  BY DEF IsSession
<1>2. ids \in Seq(1 .. n) /\ Len(ids) = n /\ \A k \in 1 .. n : ids[k] = k
  BY <1>1
<1>3. Children(t, p) = kids
  BY <1>1 DEF Children
<1>4. \A k \in 1 .. n : k \in S <=> t[k].parent = t[i].parent
  OBVIOUS
<1> HIDE DEF ids, S
<1>5. kids \in Seq(1 .. n)
  BY <1>2, AmongKeeps
<1>6. PICK ix : Keeps(ix, ids, S)
  BY <1>2, AmongKeeps
<1>12. /\ ix \in [1 .. Len(kids) -> 1 .. Len(ids)]
       /\ \A a, b \in 1 .. Len(kids) : a < b => ix[a] < ix[b]
       /\ \A k \in 1 .. Len(ids) : ids[k] \in S => \E a \in 1 .. Len(kids) : ix[a] = k
       /\ \A a \in 1 .. Len(kids) : kids[a] = ids[ix[a]] /\ ids[ix[a]] \in S
  BY <1>6 DEF Keeps
<1> HIDE DEF kids
<1> DEFINE m == Len(kids)
<1>7. /\ m \in Nat /\ ix \in [1 .. m -> 1 .. n]
      /\ \A a, b \in 1 .. m : a < b => ix[a] < ix[b]
      /\ \A k \in 1 .. n : k \in S => \E a \in 1 .. m : ix[a] = k
      /\ \A a \in 1 .. m : kids[a] = ix[a] /\ ix[a] \in S
  <2>1. m \in Nat
    BY <1>5
  <2>2. 1 .. Len(ids) = 1 .. n /\ \A k \in 1 .. n : ids[k] = k
    BY <1>2
  <2> HIDE DEF m
  <2>3. /\ ix \in [1 .. m -> 1 .. n]
        /\ \A a, b \in 1 .. m : a < b => ix[a] < ix[b]
        /\ \A k \in 1 .. n : ids[k] \in S => \E a \in 1 .. m : ix[a] = k
        /\ \A a \in 1 .. m : kids[a] = ids[ix[a]] /\ ids[ix[a]] \in S
    BY <1>12, <2>2 DEF m
  <2>4. \A a \in 1 .. m : ix[a] \in 1 .. n
    BY <2>3
  <2> QED
    BY <2>1, <2>2, <2>3, <2>4
<1> HIDE DEF m
<1>8. PICK a \in 1 .. m : ix[a] = i
  BY <1>4, <1>7
<1>9. 1 \in 1 .. m /\ kids[1] = ix[1] /\ ix[1] \in 1 .. n /\ t[ix[1]].parent = t[i].parent
  BY <1>4, <1>7, <1>8
<1>10. ASSUME kids[1] # i PROVE Forks(t, i)
  <2>1. 1 < a
    BY <1>8, <1>9, <1>10
  <2>2. ix[1] < i
    BY <1>7, <1>8, <1>9, <2>1
  <2>3. ix[1] \in 1 .. i - 1
    BY <1>1, <1>9, <2>2
  <2> QED
    BY <1>9, <2>3 DEF Forks
<1>11. ASSUME kids[1] = i, Forks(t, i) PROVE FALSE
  <2>1. PICK s \in 1 .. i - 1 : t[s].parent = t[i].parent
    BY <1>11 DEF Forks
  <2>2. s \in 1 .. n /\ s < i /\ s \in S
    BY <1>1, <1>4, <2>1
  <2>3. PICK b \in 1 .. m : ix[b] = s
    BY <1>7, <2>2
  <2>4. ix[1] = i
    BY <1>9, <1>11
  <2>5. b = 1 \/ 1 < b
    BY <1>7
  <2>6. ix[b] = i \/ i < ix[b]
    BY <1>7, <1>9, <2>4, <2>5
  <2> QED
    BY <1>1, <2>2, <2>3, <2>6
<1> QED
  BY <1>3, <1>10, <1>11

LEMMA IndentsAre ==
  ASSUME NEW n, NEW t, IsSession(t, n)
  PROVE  /\ Indents(t) \in [1 .. n -> Nat]
         /\ \A i \in 1 .. n :
              Indents(t)[i] = (IF t[i].parent > 0 THEN Indents(t)[t[i].parent] ELSE 0)
                              + (IF Forks(t, i) THEN 1 ELSE 0)
<1> DEFINE more(i) == IF Children(t, t[i].parent)[1] = i THEN 0 ELSE 1
           Is(f) == f = [i \in 1 .. n |-> (IF t[i].parent > 0 THEN f[t[i].parent] ELSE 0) + more(i)]
           indent == CHOOSE f : Is(f)
           next == [x \in (1 .. n) \X Nat |-> x[2] + more(x[1])]
<1>1. n \in Nat /\ Len(t) = n /\ \A i \in 1 .. n : t[i].parent \in Int /\ t[i].parent < i
  BY DEF IsSession
<1>2. Indents(t) = indent
  BY <1>1 DEF Indents
<1>3. \A i \in 1 .. n : more(i) = IF Forks(t, i) THEN 1 ELSE 0
  BY FirstChild
<1>4. \A i : more(i) \in Nat
  OBVIOUS
<1> HIDE DEF more
<1>5. next \in [(1 .. n) \X Nat -> Nat] /\ \A i \in 1 .. n, v \in Nat : next[<<i, v>>] = v + more(i)
  BY <1>4
<1> HIDE DEF next
<1>14. PICK f : Follows(f, n, t, Nat, 0, next)
  <2>1. 0 \in Nat
    OBVIOUS
  <2> QED
    BY <1>5, <2>1, OverTree
<1>6. /\ f \in [1 .. n -> Nat]
      /\ \A i \in 1 .. n : f[i] = next[<<i, IF t[i].parent > 0 THEN f[t[i].parent] ELSE 0>>]
  BY <1>14 DEF Follows
<1>7. Is(f)
  <2> DEFINE b == [i \in 1 .. n |-> (IF t[i].parent > 0 THEN f[t[i].parent] ELSE 0) + more(i)]
  <2>1. ASSUME NEW i \in 1 .. n PROVE f[i] = b[i]
    <3>1. (IF t[i].parent > 0 THEN f[t[i].parent] ELSE 0) \in Nat
      BY <1>1, <1>6
    <3>2. f[i] = (IF t[i].parent > 0 THEN f[t[i].parent] ELSE 0) + more(i)
      BY <1>5, <1>6, <3>1
    <3> QED
      BY <3>2
  <2>2. f = [i \in 1 .. n |-> f[i]] /\ b = [i \in 1 .. n |-> b[i]]
    BY <1>6
  <2> HIDE DEF b
  <2>3. f = b
    BY <2>1, <2>2
  <2> QED
    BY <2>3 DEF b
<1>8. Is(indent)
  BY <1>7
<1> HIDE DEF indent
<1> DEFINE T == {k \in Nat : \A i \in 1 .. n : i <= k => indent[i] \in Nat}
<1>9. 0 \in T
  OBVIOUS
<1>10. ASSUME NEW k \in Nat, k \in T PROVE k + 1 \in T
  <2> SUFFICES ASSUME NEW i \in 1 .. n, i <= k + 1 PROVE indent[i] \in Nat
    OBVIOUS
  <2>1. indent[i] = (IF t[i].parent > 0 THEN indent[t[i].parent] ELSE 0) + more(i)
    BY <1>8
  <2>2. t[i].parent > 0 => t[i].parent \in 1 .. n /\ t[i].parent <= k
    BY <1>1
  <2>3. t[i].parent > 0 => indent[t[i].parent] \in Nat
    BY <1>10, <2>2
  <2>4. (IF t[i].parent > 0 THEN indent[t[i].parent] ELSE 0) \in Nat /\ more(i) \in Nat
    BY <1>4, <2>3
  <2> QED
    BY <2>1, <2>4
<1>11. \A k \in Nat : k \in T
  <2> HIDE DEF T
  <2> QED
    BY <1>9, <1>10, Induction
<1>12. \A i \in 1 .. n : indent[i] \in Nat
  <2>1. n \in T
    BY <1>1, <1>11
  <2> QED
    BY <2>1
<1>13. indent = [i \in 1 .. n |-> indent[i]]
  BY <1>8
<1> QED
  BY <1>2, <1>3, <1>8, <1>12, <1>13
LEMMA PathsAre ==
  ASSUME NEW n, NEW t, IsSession(t, n)
  PROVE  \A i \in 1 .. n :
           /\ Path(t, i) \in SUBSET (1 .. i)
           /\ Path(t, i) = {i} \cup (IF t[i].parent > 0 THEN Path(t, t[i].parent) ELSE {})
<1> DEFINE V == SUBSET (1 .. n)
           Is(f) == f = [j \in 1 .. n |-> {j} \cup (IF t[j].parent > 0 THEN f[t[j].parent] ELSE {})]
           up == CHOOSE f : Is(f)
           next == [x \in (1 .. n) \X V |-> {x[1]} \cup x[2]]
<1>1. n \in Nat /\ Len(t) = n /\ \A i \in 1 .. n : t[i].parent \in Int /\ t[i].parent < i
  BY DEF IsSession
<1>2. \A i : Path(t, i) = up[i]
  BY <1>1 DEF Path
<1>3. next \in [(1 .. n) \X V -> V] /\ \A i \in 1 .. n, v \in V : next[<<i, v>>] = {i} \cup v
  OBVIOUS
<1>4. {} \in V
  OBVIOUS
<1> HIDE DEF next
<1>5. PICK f : Follows(f, n, t, V, {}, next)
  BY <1>3, <1>4, OverTree
<1>6. /\ f \in [1 .. n -> V]
      /\ \A i \in 1 .. n : f[i] = next[<<i, IF t[i].parent > 0 THEN f[t[i].parent] ELSE {}>>]
  BY <1>5 DEF Follows
<1>7. Is(f)
  <2> DEFINE b == [i \in 1 .. n |-> {i} \cup (IF t[i].parent > 0 THEN f[t[i].parent] ELSE {})]
  <2>1. ASSUME NEW i \in 1 .. n PROVE f[i] = b[i]
    <3>1. t[i].parent > 0 => t[i].parent \in 1 .. n
      BY <1>1
    <3>2. (IF t[i].parent > 0 THEN f[t[i].parent] ELSE {}) \in V
      BY <1>4, <1>6, <3>1
    <3>3. f[i] = {i} \cup (IF t[i].parent > 0 THEN f[t[i].parent] ELSE {})
      BY <1>3, <1>6, <3>2
    <3> QED
      BY <3>3
  <2>2. f = [i \in 1 .. n |-> f[i]] /\ b = [i \in 1 .. n |-> b[i]]
    BY <1>6
  <2> HIDE DEF b
  <2>3. f = b
    BY <2>1, <2>2
  <2> QED
    BY <2>3 DEF b
<1>8. Is(up)
  BY <1>7
<1> HIDE DEF up
<1>9. \A i \in 1 .. n : up[i] = {i} \cup (IF t[i].parent > 0 THEN up[t[i].parent] ELSE {})
  BY <1>8
<1> DEFINE T == {k \in Nat : \A i \in 1 .. n : i <= k => up[i] \in SUBSET (1 .. i)}
<1>10. 0 \in T
  OBVIOUS
<1>11. ASSUME NEW k \in Nat, k \in T PROVE k + 1 \in T
  <2> SUFFICES ASSUME NEW i \in 1 .. n, i <= k + 1 PROVE up[i] \in SUBSET (1 .. i)
    OBVIOUS
  <2>1. up[i] = {i} \cup (IF t[i].parent > 0 THEN up[t[i].parent] ELSE {})
    BY <1>9
  <2>2. i \in 1 .. i
    BY <1>1
  <2>3. CASE t[i].parent > 0
    <3> DEFINE p == t[i].parent
    <3>1. p \in 1 .. n /\ p <= k /\ 1 .. p \subseteq 1 .. i
      BY <1>1, <2>3
    <3>2. up[p] \in SUBSET (1 .. p)
      BY <1>11, <3>1
    <3> QED
      BY <2>1, <2>2, <2>3, <3>1, <3>2
  <2>4. CASE ~(t[i].parent > 0)
    BY <2>1, <2>2, <2>4
  <2> QED
    BY <2>3, <2>4
<1>12. \A k \in Nat : k \in T
  <2> HIDE DEF T
  <2> QED
    BY <1>10, <1>11, Induction
<1>13. \A i \in 1 .. n : up[i] \in SUBSET (1 .. i)
  <2>1. n \in T
    BY <1>1, <1>12
  <2> QED
    BY <2>1
<1> QED
  BY <1>2, <1>9, <1>13

\* An entry is indented once for each fork on the way to it.
LEMMA IndentsCount ==
  ASSUME NEW n, NEW t, IsSession(t, n)
  PROVE  \A i \in 1 .. n : Indents(t)[i] = Cardinality({j \in Path(t, i) : Forks(t, j)})
<1> DEFINE On(i) == {j \in Path(t, i) : Forks(t, j)}
           one(i) == IF Forks(t, i) THEN 1 ELSE 0
           T == {k \in Nat : \A i \in 1 .. n : i <= k => Indents(t)[i] = Cardinality(On(i))}
<1>1. n \in Nat /\ \A i \in 1 .. n : t[i].parent \in Int /\ t[i].parent < i
  BY DEF IsSession
<1>2. 0 \in T
  OBVIOUS
<1>3. ASSUME NEW k \in Nat, k \in T PROVE k + 1 \in T
  <2> SUFFICES ASSUME NEW i \in 1 .. n, i <= k + 1 PROVE Indents(t)[i] = Cardinality(On(i))
    OBVIOUS
  <2> DEFINE p == t[i].parent
             behind == IF p > 0 THEN On(p) ELSE {}
  <2>1. Indents(t)[i] = (IF p > 0 THEN Indents(t)[p] ELSE 0) + one(i)
    BY IndentsAre
  <2>2. Path(t, i) = {i} \cup (IF p > 0 THEN Path(t, p) ELSE {})
    BY PathsAre
  <2>3. p > 0 => p \in 1 .. n /\ p <= k /\ i \notin 1 .. p /\ Path(t, p) \in SUBSET (1 .. p)
    BY <1>1, PathsAre
  <2>4. On(i) = IF Forks(t, i) THEN behind \cup {i} ELSE behind
    BY <2>2
  <2>5. i \notin behind
    BY <2>3
  <2>6. IsFiniteSet(behind)
    <3>1. CASE p > 0
      <4>1. IsFiniteSet(1 .. p)
        <5>1. 1 \in Int /\ p \in Int
          BY <1>1
        <5> HIDE DEF p
        <5> QED
          BY <5>1, FS_Interval
      <4>2. On(p) \in SUBSET (1 .. p)
        BY <2>3, <3>1
      <4>3. IsFiniteSet(On(p))
        BY <4>1, <4>2, FS_Subset
      <4> QED
        BY <3>1, <4>3
    <3>2. CASE ~(p > 0)
      BY <3>2, FS_EmptySet
    <3> QED
      BY <3>1, <3>2
  <2>7. Cardinality(behind) = IF p > 0 THEN Indents(t)[p] ELSE 0
    <3>1. CASE p > 0
      <4>1. Indents(t)[p] = Cardinality(On(p))
        BY <1>3, <2>3, <3>1
      <4> QED
        BY <3>1, <4>1
    <3>2. CASE ~(p > 0)
      BY <3>2, FS_EmptySet
    <3> QED
      BY <3>1, <3>2
  <2> HIDE DEF behind, On
  <2>8. Cardinality(behind \cup {i}) = Cardinality(behind) + 1
    BY <2>5, <2>6, FS_AddElement
  <2>9. Cardinality(behind) \in Nat
    BY <2>6, FS_CardinalityType
  <2> QED
    BY <2>1, <2>4, <2>7, <2>8, <2>9
<1>4. \A k \in Nat : k \in T
  <2> HIDE DEF T
  <2> QED
    BY <1>2, <1>3, Induction
<1> QED
  <2>1. n \in T
    BY <1>1, <1>4
  <2> QED
    BY <2>1

\* The place of an entry that is listed once.
LEMMA PlaceOf ==
  ASSUME NEW list, Len(list) \in Nat, Once(list), NEW k \in 1 .. Len(list), NEW e, list[k] = e
  PROVE  LET I == {i \in 1 .. Len(list) : list[i] = e} IN
         (IF I # {} THEN Min(I) ELSE 0) = k
<1> DEFINE I == {i \in 1 .. Len(list) : list[i] = e}
<1>1. I = {k}
  BY DEF Once
<1> HIDE DEF I
<1>2. Min(I) = k
  BY <1>1 DEF Min
<1> QED
  BY <1>1, <1>2 DEF I

LEMMA TreesAreListed == entries \in Trees => TreeIsListed
<1> SUFFICES ASSUME entries \in Trees PROVE TreeIsListed
  OBVIOUS
<1> DEFINE t == entries
           n == Len(t)
           out == OrderedEntries(t)
           place(i) == SelectInSeq(out, LAMBDA j : j = i)
<1>1. IsSession(t, n)
  BY SessionIs
<1>2. n \in Nat
  BY <1>1 DEF IsSession
<1> HIDE DEF t, n
<1>3. out \in Seq(1 .. n) /\ InOrder(t, out) /\ ToSet(out) = 1 .. n
  BY <1>1, OrderedIs
<1> HIDE DEF out
<1>4. Len(out) \in Nat /\ DOMAIN out = 1 .. Len(out) /\ out \in [1 .. Len(out) -> 1 .. n]
  BY <1>3, LenProperties
<1>5. Once(out)
  BY <1>3 DEF InOrder
<1>6. ASSUME NEW i \in 1 .. n PROVE \E k \in 1 .. Len(out) : out[k] = i
  BY <1>3, <1>4 DEF ToSet
<1>7. Len(out) = n
  <2>1. Len(out) <= n
    BY <1>2, <1>4, <1>5, Apart DEF Once
  <2>2. n <= Len(out)
    BY <1>2, <1>4, <1>6, Covered
  <2>3. Len(out) \in Nat
    BY <1>4
  <2> QED
    BY <1>2, <2>1, <2>2, <2>3
<1>8. ASSUME NEW k \in 1 .. Len(out) PROVE place(out[k]) = k
  <2>1. Len(out) \in Nat
    BY <1>4
  <2> DEFINE e == out[k]
             I == {i \in 1 .. Len(out) : out[i] = e}
  <2>2. place(e) = IF I # {} THEN Min(I) ELSE 0
    BY DEF SelectInSeq
  <2>3. (IF I # {} THEN Min(I) ELSE 0) = k
    BY <1>5, <2>1, PlaceOf
  <2> QED
    BY <2>2, <2>3
<1> HIDE DEF place
<1>9. ASSUME NEW i \in 1 .. n
      PROVE  place(i) # 0 /\ (t[i].parent > 0 => place(t[i].parent) < place(i))
  <2>1. PICK k \in 1 .. Len(out) : out[k] = i
    BY <1>6
  <2>2. place(i) = k
    BY <1>8, <2>1
  <2>3. ASSUME t[i].parent > 0 PROVE place(t[i].parent) < place(i)
    <3>1. PICK j \in 1 .. k - 1 : out[j] = t[i].parent
      BY <1>3, <2>1, <2>3 DEF InOrder
    <3>2. j \in 1 .. Len(out) /\ j < k
      BY <1>4
    <3>3. place(t[i].parent) = j
      BY <1>8, <3>1, <3>2
    <3> QED
      BY <2>2, <3>2, <3>3
  <2> QED
    BY <1>4, <2>2, <2>3
<1>10. ASSUME NEW i \in 1 .. n
       PROVE  Indents(t)[i] = Cardinality({j \in Path(t, i) : \E s \in 1 .. j - 1 : t[s].parent = t[j].parent})
  <2>1. Indents(t)[i] = Cardinality({j \in Path(t, i) : Forks(t, j)})
    BY <1>1, IndentsCount
  <2> QED
    BY <2>1 DEF Forks
<1> QED
  BY <1>7, <1>9, <1>10 DEF TreeIsListed, place, out, n, t
------------------------------------------------------------------------------
(* The screen that lists the tree. *)

\* The rows that are there: the first of them are what is listed now.
RowsShow ==
  LET wanted == ListedEntries(showTools) IN
  /\ Len(rows) >= Len(wanted)
  /\ \A i \in 1 .. Len(rows) : ~rows[i].dying /\ (i <= Len(wanted) => rows[i].entry = wanted[i])
\* Or all of them were asked to go, by a task that is still to mount new ones.
RowsGo ==
  /\ \A i \in 1 .. Len(rows) : rows[i].dying
  /\ \E k \in 1 .. Len(toggles) : toggles[k].stage = "cleared"

\* A choice under way of which neither a task that redraws nor the user's next key disturbed the
\* list is of the entry that is at its place.
Undisturbed(choice) ==
  choice # Nothing /\ ~stirred =>
    /\ toggles = <<>>
    /\ choice.at \in 1 .. Len(ListedEntries(showTools)) => choice.entry = ListedEntries(showTools)[choice.at]

PickerType ==
  /\ entries \in Trees
  /\ rows \in Seq([entry : Nat, dying : BOOLEAN])
  /\ toggles \in Seq([stage : {"flip", "cleared", "mounted"}, keep : Nat])

PickerInv ==
  PickerType /\ (RowsShow \/ RowsGo) /\ Undisturbed(picked) /\ Undisturbed(asking) /\ ChosenIsHighlighted

LEMMA OfferIs ==
  ASSUME entries \in Trees, NEW show
  PROVE  ListedEntries(show) \in Seq(Nat)
<1> DEFINE n == Len(entries)
<1>1. IsSession(entries, n) /\ n \in Nat
  BY SessionIs DEF IsSession
<1> HIDE DEF n
<1>2. OrderedEntries(entries) \in Seq(1 .. n) /\ 1 .. n \subseteq Nat
  BY <1>1, OrderedIs
<1>3. OrderedEntries(entries) \in Seq(Nat)
  BY <1>2, Widen
<1>4. TreeChoices \in Seq(Nat)
  BY <1>3, AmongKeeps DEF TreeChoices
<1> QED
  BY <1>4, AmongKeeps DEF ListedEntries

LEMMA SameOffer ==
  ASSUME UNCHANGED entries
  PROVE  \A show : ListedEntries(show)' = ListedEntries(show)
BY DEF ListedEntries, TreeChoices, Branchable, IsToolCall

LEMMA RowsAre ==
  ASSUME entries \in Trees, NEW show
  PROVE  /\ RowsOf(show) \in Seq([entry : Nat, dying : BOOLEAN])
         /\ Len(RowsOf(show)) = Len(ListedEntries(show))
         /\ \A i \in 1 .. Len(ListedEntries(show)) :
              ~RowsOf(show)[i].dying /\ RowsOf(show)[i].entry = ListedEntries(show)[i]
<1> DEFINE L == ListedEntries(show)
           m == Len(L)
           R == [i \in 1 .. m |-> [entry |-> L[i], dying |-> FALSE]]
<1>1. L \in Seq(Nat)
  BY OfferIs
<1> HIDE DEF L
<1>2. m \in Nat /\ \A i \in 1 .. m : L[i] \in Nat
  BY <1>1
<1> HIDE DEF m
<1>3. R \in [1 .. m -> [entry : Nat, dying : BOOLEAN]]
  BY <1>2
<1>4. R \in Seq([entry : Nat, dying : BOOLEAN]) /\ Len(R) = m
  BY <1>2, <1>3
<1>5. \A i \in 1 .. m : ~R[i].dying /\ R[i].entry = L[i]
  OBVIOUS
<1>6. RowsOf(show) = R
  BY DEF RowsOf, L, m
<1> HIDE DEF R
<1> QED
  BY <1>4, <1>5, <1>6 DEF L, m

LEMMA PickerInitInv == PickerInit => PickerInv
<1> SUFFICES ASSUME PickerInit PROVE PickerInv
  OBVIOUS
<1>1. /\ entries \in Trees /\ showTools = TRUE /\ rows = RowsOf(TRUE) /\ toggles = <<>>
      /\ picked = Nothing /\ asking = Nothing /\ branch = 0
  BY DEF PickerInit
<1>2. RowsShow
  <2> DEFINE m == Len(ListedEntries(TRUE))
  <2>1. m \in Nat
    BY <1>1, OfferIs, LenProperties
  <2>2. /\ Len(RowsOf(TRUE)) = m
        /\ \A i \in 1 .. m : ~RowsOf(TRUE)[i].dying /\ RowsOf(TRUE)[i].entry = ListedEntries(TRUE)[i]
    BY <1>1, RowsAre
  <2> HIDE DEF m
  <2>3. m >= m
    BY <2>1
  <2> QED
    BY <1>1, <2>2, <2>3 DEF RowsShow, m
<1>3. PickerType
  <2>1. <<>> \in Seq([stage : {"flip", "cleared", "mounted"}, keep : Nat])
    OBVIOUS
  <2> QED
    BY <1>1, <2>1, RowsAre DEF PickerType
<1> QED
  BY <1>1, <1>2, <1>3 DEF PickerInv, Undisturbed, ChosenIsHighlighted

\* What a key does, the list being as it was.
LEMMA KeyStep ==
  ASSUME PickerInv, UNCHANGED <<entries, showTools, rows>>,
         toggles' = toggles \/ toggles' = Append(toggles, [stage |-> "flip", keep |-> 0]),
         Undisturbed(picked)', Undisturbed(asking)', ChosenIsHighlighted'
  PROVE  PickerInv'
<1>1. PickerType' /\ Len(toggles') >= Len(toggles) /\ \A k \in 1 .. Len(toggles) : toggles'[k] = toggles[k]
  <2> DEFINE new == [stage |-> "flip", keep |-> 0]
  <2>1. new \in [stage : {"flip", "cleared", "mounted"}, keep : Nat]
    OBVIOUS
  <2> HIDE DEF new
  <2>2. toggles \in Seq([stage : {"flip", "cleared", "mounted"}, keep : Nat])
    BY DEF PickerInv, PickerType
  <2>3. Len(toggles) \in Nat
    BY <2>2, LenProperties
  <2>4. CASE toggles' = toggles
    BY <2>3, <2>4 DEF PickerInv, PickerType
  <2>5. CASE toggles' = Append(toggles, new)
    <3>1. /\ Append(toggles, new) \in Seq([stage : {"flip", "cleared", "mounted"}, keep : Nat])
          /\ Len(Append(toggles, new)) = Len(toggles) + 1
          /\ \A k \in 1 .. Len(toggles) : Append(toggles, new)[k] = toggles[k]
      BY <2>1, <2>2, AppendProperties
    <3> QED
      BY <2>3, <2>5, <3>1 DEF PickerInv, PickerType
  <2> QED
    BY <2>4, <2>5 DEF new
<1>2. Len(toggles) \in Nat /\ Len(toggles') \in Nat
  BY <1>1, LenProperties DEF PickerInv, PickerType
<1>3. RowsShow => RowsShow'
  BY SameOffer DEF RowsShow
<1>4. RowsGo => RowsGo'
  <2> SUFFICES ASSUME RowsGo PROVE RowsGo'
    OBVIOUS
  <2>1. PICK k \in 1 .. Len(toggles) : toggles[k].stage = "cleared"
    BY DEF RowsGo
  <2>2. k \in 1 .. Len(toggles') /\ toggles'[k] = toggles[k]
    BY <1>1, <1>2
  <2>3. \A i \in 1 .. Len(rows) : rows[i].dying
    BY DEF RowsGo
  <2> QED
    BY <2>1, <2>2, <2>3 DEF RowsGo
<1> QED
  BY <1>1, <1>3, <1>4 DEF PickerInv

\* The entry at a place that is listed is the one in the row at that place.
LEMMA ChoiceIsLit ==
  ASSUME PickerInv, toggles = <<>>, NEW ix, ix \in 1 .. Len(ListedEntries(showTools))
  PROVE  ix \in 1 .. Len(rows) /\ rows[ix].entry = ListedEntries(showTools)[ix]
<1>1. ~RowsGo
  BY DEF RowsGo
<1>2. RowsShow
  BY <1>1 DEF PickerInv
<1>3. Len(ListedEntries(showTools)) \in Nat
  BY OfferIs, LenProperties DEF PickerInv, PickerType
<1>4. Len(rows) \in Nat
  BY LenProperties DEF PickerInv, PickerType
<1>5. ix \in 1 .. Len(rows) /\ ix <= Len(ListedEntries(showTools))
  BY <1>2, <1>3, <1>4 DEF RowsShow
<1> QED
  BY <1>2, <1>5 DEF RowsShow
\* A choice that nothing disturbs.
LEMMA ChoiceStays ==
  ASSUME UNCHANGED <<entries, showTools, toggles, stirred>>
  PROVE  /\ Undisturbed(picked) /\ picked' \in {picked, Nothing} => Undisturbed(picked)'
         /\ Undisturbed(asking) /\ asking' \in {asking, Nothing} => Undisturbed(asking)'
BY SameOffer DEF Undisturbed

LEMMA NothingUndisturbed ==
  /\ picked' = Nothing => Undisturbed(picked)'
  /\ asking' = Nothing => Undisturbed(asking)'
BY DEF Undisturbed, Nothing

\* Choosing: what is highlighted is remembered with its place.
LEMMA Chooses ==
  ASSUME PickerInv, Choosing, ~stirred'
  PROVE  toggles = <<>> /\ ~stirred
BY DEF Choosing

LEMMA MoveStep == ASSUME PickerInv, MoveCursor PROVE PickerInv'
<1>1. UNCHANGED <<entries, showTools, rows, toggles, stirred, picked, asking, lit, branch>>
  BY DEF MoveCursor
<1>2. ChosenIsHighlighted'
  BY <1>1 DEF PickerInv, ChosenIsHighlighted
<1> QED
  BY <1>1, <1>2, KeyStep, ChoiceStays DEF PickerInv

LEMMA SelectStep == ASSUME PickerInv, SelectCursor PROVE PickerInv'
<1>1. /\ UNCHANGED <<entries, showTools, rows, toggles, asking, lit, branch>> /\ Choosing /\ branch = 0
      /\ picked' = [at |-> cursor, entry |-> Highlighted]
  BY DEF SelectCursor, Listens, IsOpen
<1>2. ChosenIsHighlighted'
  BY <1>1 DEF ChosenIsHighlighted
<1>3. Undisturbed(picked)'
  <2> SUFFICES ASSUME ~stirred'
               PROVE  /\ toggles' = <<>>
                      /\ cursor \in 1 .. Len(ListedEntries(showTools)') =>
                           Highlighted = ListedEntries(showTools)'[cursor]
    BY <1>1 DEF Undisturbed
  <2>1. toggles = <<>>
    BY <1>1, Chooses
  <2>2. ListedEntries(showTools)' = ListedEntries(showTools)
    BY <1>1, SameOffer
  <2>3. ASSUME cursor \in 1 .. Len(ListedEntries(showTools))
        PROVE  Highlighted = ListedEntries(showTools)[cursor]
    BY <2>1, <2>3, ChoiceIsLit DEF Highlighted
  <2> QED
    BY <1>1, <2>1, <2>2, <2>3
<1>4. Undisturbed(asking)'
  BY <1>1, SameOffer DEF PickerInv, Undisturbed, Choosing
<1> QED
  BY <1>1, <1>2, <1>3, <1>4, KeyStep

LEMMA SelectedStep == ASSUME PickerInv, Selected PROVE PickerInv'
<1>1. /\ UNCHANGED <<entries, showTools, rows, toggles, asking, stirred>> /\ picked' = Nothing /\ picked # Nothing
      /\ branch' = EntryAt(picked.at) /\ lit' = picked.entry
  BY DEF Selected
<1>2. ChosenIsHighlighted'
  <2> SUFFICES ASSUME branch' > 0, ~stirred PROVE branch' = lit'
    BY <1>1 DEF ChosenIsHighlighted
  <2>1. picked.at \in 1 .. Len(ListedEntries(showTools)) /\ branch' = ListedEntries(showTools)[picked.at]
    BY <1>1 DEF EntryAt
  <2> QED
    BY <1>1, <2>1 DEF PickerInv, Undisturbed
<1> QED
  BY <1>1, <1>2, NothingUndisturbed, ChoiceStays, KeyStep DEF PickerInv

LEMMA SummaryStep == ASSUME PickerInv, SelectWithSummary PROVE PickerInv'
<1>1. /\ UNCHANGED <<entries, showTools, rows, toggles, picked, asking>> /\ Choosing
      /\ branch' = EntryAt(cursor) /\ lit' = Highlighted
  BY DEF SelectWithSummary
<1>2. ChosenIsHighlighted'
  <2> SUFFICES ASSUME branch' > 0, ~stirred' PROVE branch' = lit'
    BY DEF ChosenIsHighlighted
  <2>1. cursor \in 1 .. Len(ListedEntries(showTools)) /\ branch' = ListedEntries(showTools)[cursor]
    BY <1>1 DEF EntryAt
  <2>2. toggles = <<>>
    BY <1>1, Chooses
  <2> QED
    BY <1>1, <2>1, <2>2, ChoiceIsLit DEF Highlighted
<1>3. Undisturbed(picked)' /\ Undisturbed(asking)'
  BY <1>1, SameOffer DEF PickerInv, Undisturbed, Choosing
<1> QED
  BY <1>1, <1>2, <1>3, KeyStep

LEMMA CustomStep == ASSUME PickerInv, SelectWithCustomSummary PROVE PickerInv'
<1>1. /\ UNCHANGED <<entries, showTools, rows, toggles, picked, lit, branch>> /\ Choosing /\ branch = 0
      /\ asking' = [at |-> cursor, entry |-> Highlighted]
  BY DEF SelectWithCustomSummary, Listens, IsOpen
<1>2. ChosenIsHighlighted'
  BY <1>1 DEF ChosenIsHighlighted
<1>3. Undisturbed(asking)'
  <2> SUFFICES ASSUME ~stirred'
               PROVE  /\ toggles' = <<>>
                      /\ cursor \in 1 .. Len(ListedEntries(showTools)') =>
                           Highlighted = ListedEntries(showTools)'[cursor]
    BY <1>1 DEF Undisturbed
  <2>1. toggles = <<>>
    BY <1>1, Chooses
  <2>2. ListedEntries(showTools)' = ListedEntries(showTools)
    BY <1>1, SameOffer
  <2>3. ASSUME cursor \in 1 .. Len(ListedEntries(showTools))
        PROVE  Highlighted = ListedEntries(showTools)[cursor]
    BY <2>1, <2>3, ChoiceIsLit DEF Highlighted
  <2> QED
    BY <1>1, <2>1, <2>2, <2>3
<1>4. Undisturbed(picked)'
  BY <1>1, SameOffer DEF PickerInv, Undisturbed, Choosing
<1> QED
  BY <1>1, <1>2, <1>3, <1>4, KeyStep

LEMMA InstructedStep ==
  ASSUME PickerInv, NEW instructed \in BOOLEAN, DismissWithCustomSummary(instructed) PROVE PickerInv'
<1>1. /\ UNCHANGED <<entries, showTools, rows, toggles, picked, stirred>>
      /\ asking # Nothing /\ asking' = Nothing /\ lit' = asking.entry
      /\ branch' \in {EntryAt(asking.at), 0}
  BY DEF DismissWithCustomSummary
<1>2. ChosenIsHighlighted'
  <2> SUFFICES ASSUME branch' > 0, ~stirred PROVE branch' = lit'
    BY <1>1 DEF ChosenIsHighlighted
  <2>1. asking.at \in 1 .. Len(ListedEntries(showTools)) /\ branch' = ListedEntries(showTools)[asking.at]
    BY <1>1 DEF EntryAt
  <2> QED
    BY <1>1, <2>1 DEF PickerInv, Undisturbed
<1> QED
  BY <1>1, <1>2, NothingUndisturbed, ChoiceStays, KeyStep DEF PickerInv

LEMMA ToggleStep == ASSUME PickerInv, ToggleToolCalls PROVE PickerInv'
<1>1. /\ UNCHANGED <<entries, showTools, rows, picked, asking, lit, branch>> /\ asking = Nothing /\ branch = 0
      /\ toggles' = Append(toggles, [stage |-> "flip", keep |-> 0])
      /\ stirred' = (stirred \/ picked # Nothing)
  BY DEF ToggleToolCalls, Listens, IsOpen
<1>2. ChosenIsHighlighted'
  BY <1>1 DEF ChosenIsHighlighted
<1>3. Undisturbed(picked)' /\ Undisturbed(asking)'
  BY <1>1 DEF Undisturbed, Nothing
<1> QED
  BY <1>1, <1>2, <1>3, KeyStep

LEMMA CancelStep == ASSUME PickerInv, Cancel PROVE PickerInv'
<1>1. UNCHANGED <<entries, showTools, rows, toggles, stirred, picked, asking>> /\ branch' = -1
  BY DEF Cancel
<1>2. ChosenIsHighlighted'
  BY <1>1 DEF ChosenIsHighlighted
<1> QED
  BY <1>1, <1>2, KeyStep, ChoiceStays DEF PickerInv

\* A task that goes on makes no difference to a choice: there was none, or it is disturbed.
LEMMA TaskLeaves ==
  ASSUME PickerInv, toggles # <<>>, branch = 0,
         UNCHANGED <<entries, picked, asking, lit, branch, stirred>>
  PROVE  Undisturbed(picked)' /\ Undisturbed(asking)' /\ ChosenIsHighlighted'
BY DEF PickerInv, Undisturbed, ChosenIsHighlighted, Nothing
Tasks == [stage : {"flip", "cleared", "mounted"}, keep : Nat]

\* A rising sequence of m numbers up to m is the identity.
LEMMA Rising ==
  ASSUME NEW m \in Nat, NEW f \in [1 .. m -> 1 .. m], \A i, j \in 1 .. m : i < j => f[i] < f[j]
  PROVE  \A i \in 1 .. m : f[i] = i
<1> DEFINE T == {k \in Nat : k <= m => \A i \in 1 .. k : f[i] >= i}
           U == {k \in Nat : k <= m => \A i \in m - k .. m : i >= 1 => f[i] <= i}
<1>1. 0 \in T /\ 0 \in U
  OBVIOUS
<1>2. ASSUME NEW k \in Nat, k \in T PROVE k + 1 \in T
  <2> SUFFICES ASSUME k + 1 <= m, NEW i \in 1 .. k + 1 PROVE f[i] >= i
    OBVIOUS
  <2>1. i \in 1 .. k => f[i] >= i
    BY <1>2
  <2>2. ASSUME i = k + 1 PROVE f[i] >= i
    <3>1. CASE k = 0
      BY <2>2, <3>1
    <3>2. CASE k > 0
      <4>1. f[k] >= k
        BY <1>2, <3>2
      <4>2. k \in 1 .. m /\ i \in 1 .. m /\ k < i
        BY <2>2, <3>2
      <4>3. f[k] < f[i] /\ f[k] \in Nat /\ f[i] \in Nat
        BY <4>2
      <4> QED
        BY <2>2, <4>1, <4>3
    <3> QED
      BY <3>1, <3>2
  <2> QED
    BY <2>1, <2>2
<1>3. ASSUME NEW k \in Nat, k \in U PROVE k + 1 \in U
  <2> SUFFICES ASSUME k + 1 <= m, NEW i \in m - (k + 1) .. m, i >= 1 PROVE f[i] <= i
    OBVIOUS
  <2>1. i \in m - k .. m => f[i] <= i
    BY <1>3
  <2>2. ASSUME i = m - (k + 1) PROVE f[i] <= i
    <3>1. i + 1 \in 1 .. m /\ i \in 1 .. m /\ i + 1 \in m - k .. m
      BY <2>2
    <3>2. f[i + 1] <= i + 1
      BY <1>3, <3>1
    <3>3. f[i] < f[i + 1] /\ f[i] \in Nat /\ f[i + 1] \in Nat
      BY <3>1
    <3> QED
      BY <3>2, <3>3
  <2> QED
    BY <2>1, <2>2
<1>4. \A k \in Nat : k \in T
  <2> HIDE DEF T
  <2> QED
    BY <1>1, <1>2, Induction
<1>5. \A k \in Nat : k \in U
  <2> HIDE DEF U
  <2> QED
    BY <1>1, <1>3, Induction
<1>6. m \in T /\ m \in U
  BY <1>4, <1>5
<1> QED
  BY <1>6

LEMMA FlipStep ==
  ASSUME PickerInv, NEW k \in 1 .. Len(toggles), Flip(k), branch = 0,
         UNCHANGED <<entries, picked, asking, lit, branch, stirred>>
  PROVE  PickerInv'
<1> DEFINE keep == Shown(cursor)
           task == [stage |-> "cleared", keep |-> keep]
           dying == [i \in 1 .. Len(rows) |-> [rows[i] EXCEPT !.dying = TRUE]]
<1>1. /\ entries \in Trees /\ toggles \in Seq(Tasks) /\ rows \in Seq([entry : Nat, dying : BOOLEAN])
      /\ Len(toggles) \in Nat /\ Len(rows) \in Nat /\ toggles # <<>>
  <2>1. entries \in Trees /\ toggles \in Seq(Tasks) /\ rows \in Seq([entry : Nat, dying : BOOLEAN])
    BY DEF PickerInv, PickerType, Tasks
  <2> QED
    BY <2>1, LenProperties
<1>2. keep \in Nat
  <2> DEFINE L == ListedEntries(showTools)
  <2>1. L \in Seq(Nat)
    BY <1>1, OfferIs
  <2>2. keep = IF cursor \in 1 .. Len(L) THEN L[cursor] ELSE 0
    BY DEF Shown
  <2> HIDE DEF L, keep
  <2> QED
    BY <2>1, <2>2
<1> HIDE DEF keep
<1>3. task \in Tasks
  BY <1>2 DEF Tasks
<1>4. toggles' = [toggles EXCEPT ![k] = task] /\ rows' = dying
  BY DEF Flip, keep
<1>5. toggles' \in Seq(Tasks) /\ Len(toggles') = Len(toggles) /\ toggles'[k] = task
  BY <1>1, <1>3, <1>4
<1>6. rows' \in Seq([entry : Nat, dying : BOOLEAN]) /\ Len(rows') = Len(rows)
      /\ \A i \in 1 .. Len(rows) : rows'[i].dying
  <2>1. \A i \in 1 .. Len(rows) : rows[i] \in [entry : Nat, dying : BOOLEAN]
    BY <1>1, ElementOfSeq
  <2>2. dying \in [1 .. Len(rows) -> [entry : Nat, dying : BOOLEAN]] /\ \A i \in 1 .. Len(rows) : dying[i].dying
    BY <2>1
  <2>3. dying \in Seq([entry : Nat, dying : BOOLEAN]) /\ Len(dying) = Len(rows)
    BY <1>1, <2>2
  <2> HIDE DEF dying
  <2> QED
    BY <1>4, <2>2, <2>3
<1>7. RowsGo'
  BY <1>5, <1>6 DEF RowsGo
<1>8. PickerType'
  BY <1>1, <1>5, <1>6 DEF PickerType, Tasks
<1> QED
  BY <1>1, <1>7, <1>8, TaskLeaves DEF PickerInv

LEMMA ExtendStep ==
  ASSUME PickerInv, NEW k \in 1 .. Len(toggles), Extend(k), branch = 0,
         UNCHANGED <<entries, picked, asking, lit, branch, stirred>>
  PROVE  PickerInv'
<1> DEFINE Bar == [entry : Nat, dying : BOOLEAN]
           stay == Among(rows, {r \in ToSet(rows) : ~r.dying})
           new == RowsOf(showTools)
           wanted == ListedEntries(showTools)
           m == Len(wanted)
<1>1. /\ entries \in Trees /\ toggles \in Seq(Tasks) /\ rows \in Seq(Bar)
      /\ Len(toggles) \in Nat /\ Len(rows) \in Nat /\ toggles # <<>>
  <2>1. entries \in Trees /\ toggles \in Seq(Tasks) /\ rows \in Seq(Bar)
    BY DEF PickerInv, PickerType, Tasks
  <2> QED
    BY <2>1, LenProperties
<1>2. rows' = stay \o new /\ showTools' = showTools /\ toggles' = [toggles EXCEPT ![k].stage = "mounted"]
  BY DEF Extend
<1>3. toggles' \in Seq(Tasks)
  <2>1. toggles[k] \in Tasks
    BY <1>1, ElementOfSeq
  <2>2. [toggles[k] EXCEPT !.stage = "mounted"] \in Tasks
    BY <2>1 DEF Tasks
  <2>3. toggles' = [toggles EXCEPT ![k] = [toggles[k] EXCEPT !.stage = "mounted"]]
    BY <1>2
  <2> QED
    BY <1>1, <2>2, <2>3
<1>4. wanted' = wanted
  BY <1>2, SameOffer
<1>5. m \in Nat
  BY <1>1, OfferIs, LenProperties
<1>6. /\ new \in Seq(Bar) /\ Len(new) = m
      /\ \A i \in 1 .. m : ~new[i].dying /\ new[i].entry = wanted[i]
  BY <1>1, RowsAre
<1>7. stay \in Seq(Bar)
  BY <1>1, AmongKeeps
<1>8. PICK ix : Keeps(ix, rows, {r \in ToSet(rows) : ~r.dying})
  BY <1>1, AmongKeeps
<1> DEFINE s == Len(stay)
<1>9. /\ s \in Nat /\ ix \in [1 .. s -> 1 .. Len(rows)]
      /\ \A i, j \in 1 .. s : i < j => ix[i] < ix[j]
      /\ \A h \in 1 .. Len(rows) : rows[h] \in {r \in ToSet(rows) : ~r.dying} => \E i \in 1 .. s : ix[i] = h
      /\ \A i \in 1 .. s : stay[i] = rows[ix[i]] /\ rows[ix[i]] \in {r \in ToSet(rows) : ~r.dying}
  BY <1>7, <1>8, LenProperties DEF Keeps
<1> HIDE DEF stay, new, wanted, s, m
<1>10. \A i \in 1 .. s : ~stay[i].dying
  BY <1>9
<1>11. /\ rows' \in Seq(Bar) /\ Len(rows') = s + m
       /\ \A i \in 1 .. s : rows'[i] = stay[i]
       /\ \A i \in 1 .. m : rows'[s + i] = new[i]
  <2>1. /\ stay \o new \in Seq(Bar) /\ Len(stay \o new) = Len(stay) + Len(new)
        /\ \A i \in 1 .. Len(stay) : (stay \o new)[i] = stay[i]
        /\ \A i \in 1 .. Len(new) : (stay \o new)[Len(stay) + i] = new[i]
    <3>1. stay \in Seq(Bar) /\ new \in Seq(Bar)
      BY <1>6, <1>7
    <3> HIDE DEF Bar
    <3> QED
      BY <3>1, Members
  <2> QED
    BY <1>2, <1>6, <2>1 DEF s
<1>12. RowsShow'
  <2>1. ASSUME NEW i \in 1 .. s + m
        PROVE  i \in 1 .. s \/ (i - s \in 1 .. m /\ i = s + (i - s))
    BY <1>5, <1>9
  <2>2. ASSUME NEW i \in 1 .. s + m PROVE ~rows'[i].dying
    BY <1>6, <1>10, <1>11, <2>1, ZenonT(30)
  <2>3. ASSUME NEW i \in 1 .. s + m, i <= m PROVE rows'[i].entry = wanted[i]
    <3>1. CASE RowsGo
      <4>1. s = 0
        <5>1. ~ (1 \in 1 .. s)
          BY <1>9, <1>10, <3>1 DEF RowsGo
        <5> QED
          BY <1>9, <5>1
      <4> QED
        BY <1>5, <1>6, <1>11, <2>3, <4>1
    <3>2. CASE RowsShow
      <4>1. /\ Len(rows) >= m
            /\ \A h \in 1 .. Len(rows) : ~rows[h].dying /\ (h <= m => rows[h].entry = wanted[h])
        BY <3>2 DEF RowsShow, wanted, m
      <4>2. \A h \in 1 .. Len(rows) : \E j \in 1 .. s : ix[j] = h
        <5> SUFFICES ASSUME NEW h \in 1 .. Len(rows) PROVE \E j \in 1 .. s : ix[j] = h
          OBVIOUS
        <5>1. rows[h] \in ToSet(rows)
          BY <1>1 DEF ToSet
        <5>2. rows[h] \in {r \in ToSet(rows) : ~r.dying}
          BY <4>1, <5>1
        <5> QED
          BY <1>9, <5>2
      <4>3. Len(rows) <= s
        BY <1>1, <1>9, <4>2, Covered, ZenonT(30)
      <4>4. i \in 1 .. s /\ i \in 1 .. Len(rows)
        BY <1>1, <1>5, <1>9, <2>3, <4>1, <4>3
      <4>5. ix[i] = i
        <5>1. \A a, b \in 1 .. s : ix[a] = ix[b] => a = b
          BY <1>9
        <5>2. s <= Len(rows)
          BY <1>1, <1>9, <5>1, Apart
        <5>3. s = Len(rows)
          BY <1>1, <1>9, <4>3, <5>2
        <5>4. ix \in [1 .. s -> 1 .. s] /\ \A a, b \in 1 .. s : a < b => ix[a] < ix[b]
          BY <1>9, <5>3
        <5>5. s \in Nat
          BY <1>9
        <5> QED
          BY <4>4, <5>4, <5>5, Rising
      <4> QED
        BY <1>9, <1>11, <2>3, <4>1, <4>4, <4>5, ZenonT(30)
    <3> QED
      BY <3>1, <3>2 DEF PickerInv
  <2>4. Len(rows') >= m
    BY <1>5, <1>9, <1>11
  <2> QED
    BY <1>4, <1>11, <2>2, <2>3, <2>4 DEF RowsShow, wanted, m
<1>13. PickerType'
  BY <1>1, <1>3, <1>11 DEF PickerType, Tasks
<1> QED
  BY <1>1, <1>12, <1>13, TaskLeaves DEF PickerInv

LEMMA RestoreStep ==
  ASSUME PickerInv, NEW k \in 1 .. Len(toggles), Restore(k), branch = 0,
         UNCHANGED <<entries, picked, asking, lit, branch, stirred>>
  PROVE  PickerInv'
<1> DEFINE a == SubSeq(toggles, 1, k - 1)
           b == SubSeq(toggles, k + 1, Len(toggles))
           n == Len(toggles)
<1>1. /\ entries \in Trees /\ toggles \in Seq(Tasks) /\ n \in Nat /\ toggles # <<>>
  <2>1. entries \in Trees /\ toggles \in Seq(Tasks)
    BY DEF PickerInv, PickerType, Tasks
  <2> QED
    BY <2>1, LenProperties
<1>2. /\ toggles[k].stage = "mounted" /\ UNCHANGED <<showTools, rows>> /\ toggles' = a \o b
  BY DEF Restore, RemoveAt
<1>3. /\ a \in Seq(Tasks) /\ Len(a) = k - 1 /\ \A i \in 1 .. k - 1 : a[i] = toggles[i]
      /\ b \in Seq(Tasks) /\ Len(b) = n - k /\ \A i \in 1 .. n - k : b[i] = toggles[k + i]
  BY <1>1
<1> HIDE DEF a, b, n
<1>4. /\ toggles' \in Seq(Tasks) /\ Len(toggles') = n - 1
      /\ \A i \in 1 .. k - 1 : toggles'[i] = a[i]
      /\ \A i \in 1 .. n - k : toggles'[(k - 1) + i] = b[i]
  <2>1. /\ a \o b \in Seq(Tasks) /\ Len(a \o b) = Len(a) + Len(b)
        /\ \A i \in 1 .. Len(a) : (a \o b)[i] = a[i]
        /\ \A i \in 1 .. Len(b) : (a \o b)[Len(a) + i] = b[i]
    <3>1. a \in Seq(Tasks) /\ b \in Seq(Tasks)
      BY <1>3
    <3> QED
      BY <3>1, Members
  <2>2. k \in 1 .. n
    BY DEF n
  <2>3. Len(toggles') = n - 1
    BY <1>1, <1>2, <1>3, <2>1, <2>2
  <2>4. \A i \in 1 .. k - 1 : toggles'[i] = a[i]
    BY <1>2, <1>3, <2>1
  <2>5. \A i \in 1 .. n - k : toggles'[(k - 1) + i] = b[i]
    BY <1>2, <1>3, <2>1
  <2> QED
    BY <1>2, <2>1, <2>3, <2>4, <2>5
<1>5. RowsShow => RowsShow'
  BY <1>2, SameOffer, SMTT(30) DEF RowsShow
<1>6. RowsGo => RowsGo'
  <2> SUFFICES ASSUME RowsGo PROVE RowsGo'
    OBVIOUS
  <2>1. PICK h \in 1 .. n : toggles[h].stage = "cleared"
    BY DEF RowsGo, n
  <2>2. k \in 1 .. n /\ h # k
    BY <1>2, <2>1 DEF n
  <2>3. CASE h < k
    <3>1. h \in 1 .. k - 1 /\ h \in 1 .. n - 1
      BY <1>1, <2>2, <2>3
    <3>2. toggles'[h].stage = "cleared"
      BY <1>3, <1>4, <2>1, <3>1
    <3> QED
      BY <1>2, <1>4, <3>1, <3>2 DEF RowsGo
  <2>4. CASE k < h
    <3>1. h - k \in 1 .. n - k /\ h - 1 \in 1 .. n - 1 /\ (k - 1) + (h - k) = h - 1 /\ k + (h - k) = h
      BY <1>1, <2>2, <2>4
    <3>2. toggles'[h - 1].stage = "cleared"
      BY <1>3, <1>4, <2>1, <3>1, SMTT(60)
    <3> QED
      BY <1>2, <1>4, <3>1, <3>2 DEF RowsGo
  <2> QED
    BY <2>2, <2>3, <2>4
<1>7. PickerType'
  BY <1>1, <1>2, <1>4 DEF PickerInv, PickerType, Tasks
<1> QED
  BY <1>1, <1>5, <1>6, <1>7, TaskLeaves DEF PickerInv

LEMMA PickerStepInv == PickerInv /\ [PickerNext]_pickerVars => PickerInv'
<1> SUFFICES ASSUME PickerInv, [PickerNext]_pickerVars PROVE PickerInv'
  OBVIOUS
<1>1. CASE UNCHANGED pickerVars
  <2>1. UNCHANGED <<entries, showTools, rows, toggles, stirred, picked, asking, lit, branch>>
    BY <1>1 DEF pickerVars
  <2>2. ChosenIsHighlighted'
    BY <2>1 DEF PickerInv, ChosenIsHighlighted
  <2> QED
    BY <2>1, <2>2, KeyStep, ChoiceStays DEF PickerInv
<1>2. ASSUME NEW k \in 1 .. Len(toggles), Proceed(k) PROVE PickerInv'
  <2>1. branch = 0 /\ UNCHANGED <<entries, picked, asking, lit, branch, stirred>>
    BY <1>2 DEF Proceed, IsOpen
  <2> QED
    BY <1>2, <2>1, FlipStep, ExtendStep, RestoreStep DEF Proceed
<1> QED
  BY <1>1, <1>2, MoveStep, SelectStep, SelectedStep, SummaryStep, CustomStep, InstructedStep,
     ToggleStep, CancelStep DEF PickerNext
-----------------------------------------------------------------------------
(* The prompt: what Enter hands over.                                      *)

Sorts == {"word", "slash", "command", "value", "skill", "at", "bang", "path", "file", "choice",
          "paste", "content"}
Words == Sorts \X Nat

LEMMA WordFacts ==
  /\ \A n \in Nat : Placeholder(n) \in Words /\ Placeholder(n)[1] = "paste" /\ Placeholder(n)[2] = n
  /\ \A w \in Words : w[2] \in Nat /\ w[1] \in Sorts /\ (w[1] = "paste" => w = Placeholder(w[2]))
<1>1. ASSUME NEW n \in Nat
      PROVE  Placeholder(n) \in Words /\ Placeholder(n)[1] = "paste" /\ Placeholder(n)[2] = n
  <2>1. "paste" \in Sorts
    BY DEF Sorts
  <2>2. <<"paste", n>> \in Sorts \X Nat
    BY <2>1
  <2> QED
    BY <2>2 DEF Words, Placeholder
<1>2. ASSUME NEW w \in Words PROVE w[2] \in Nat /\ w[1] \in Sorts /\ w = <<w[1], w[2]>>
  BY DEF Words
<1> QED
  BY <1>1, <1>2 DEF Placeholder

LEMMA ContentFacts ==
  ASSUME NEW n \in Nat
  PROVE  /\ Content(n) \in Seq(Words)
         /\ \A i \in 1 .. Len(Content(n)) : Content(n)[i][1] # "paste"
<1> DEFINE w == <<"content", n>>
<1>1. w \in Words /\ w[1] # "paste"
  <2>1. "content" \in Sorts /\ "content" # "paste"
    BY DEF Sorts
  <2> QED
    BY <2>1 DEF Words
<1>2. Content(n) = <<w, w>>
  BY DEF Content
<1> HIDE DEF w
<1>3. <<w, w>> \in Seq(Words) /\ Len(<<w, w>>) = 2 /\ <<w, w>>[1] = w /\ <<w, w>>[2] = w
  BY <1>1
<1>4. \A i \in 1 .. 2 : i = 1 \/ i = 2
  OBVIOUS
<1> QED
  BY <1>1, <1>2, <1>3, <1>4

\* A text has each placeholder at most once, and only of pastes that were made.
Neat(t, m) ==
  /\ t \in Seq(Words)
  /\ \A i \in 1 .. Len(t) : t[i][1] = "paste" => t[i][2] \in 1 .. m
  /\ \A i, j \in 1 .. Len(t) : t[i] = t[j] /\ t[i][1] = "paste" => i = j

LEMMA SetOf ==
  ASSUME NEW T, NEW t \in Seq(T)
  PROVE  /\ \A x : x \in ToSet(t) <=> \E i \in 1 .. Len(t) : t[i] = x
         /\ \A x : Has(t, x) <=> x \in ToSet(t)
<1>1. DOMAIN t = 1 .. Len(t)
  OBVIOUS
<1>2. \A x : x \in ToSet(t) <=> \E i \in 1 .. Len(t) : t[i] = x
  BY <1>1 DEF ToSet
<1> QED
  BY <1>2 DEF Has, Contains

\* The meaning of a text, word by word.
Meant(w, K) == IF w[1] = "paste" /\ w[2] \in K THEN Content(w[2]) ELSE <<w>>
Means(t, K) == [i \in 1 .. Len(t) |-> Meant(t[i], K)]

LEMMA MeantIs ==
  ASSUME NEW w \in Words, NEW K
  PROVE  Meant(w, K) \in Seq(Words)
<1>1. w[2] \in Nat /\ <<w>> \in Seq(Words)
  BY WordFacts
<1>2. Content(w[2]) \in Seq(Words)
  BY <1>1, ContentFacts
<1> QED
  BY <1>1, <1>2 DEF Meant

LEMMA MeansIs ==
  ASSUME NEW t \in Seq(Words), NEW K
  PROVE  /\ Means(t, K) \in Seq(Seq(Words)) /\ Len(Means(t, K)) = Len(t)
         /\ \A i \in 1 .. Len(t) : Means(t, K)[i] = Meant(t[i], K)
         /\ Meaning(t, K) = FlattenSeq(Means(t, K)) /\ Meaning(t, K) \in Seq(Words)
<1> DEFINE n == Len(t)
<1>1. n \in Nat /\ \A i \in 1 .. n : t[i] \in Words
  OBVIOUS
<1>2. \A i \in 1 .. n : Meant(t[i], K) \in Seq(Words)
  BY <1>1, MeantIs
<1>3. Meaning(t, K) = FlattenSeq(Means(t, K))
  BY DEF Meaning, Means, Meant
<1> HIDE DEF n
<1>4. Means(t, K) = [i \in 1 .. n |-> Meant(t[i], K)]
  BY DEF Means, n
<1>5. Means(t, K) \in Seq(Seq(Words)) /\ Len(Means(t, K)) = n
  BY <1>1, <1>2, <1>4
<1>6. FlattenSeq(Means(t, K)) \in Seq(Words)
  BY <1>5, FlattenPlaces
<1> QED
  BY <1>3, <1>4, <1>5, <1>6 DEF n

LEMMA MeaningConcat ==
  ASSUME NEW a \in Seq(Words), NEW b \in Seq(Words), NEW K
  PROVE  Meaning(a \o b, K) = Meaning(a, K) \o Meaning(b, K)
<1> DEFINE c == a \o b
           n == Len(a)
           m == Len(b)
<1>1. /\ c \in Seq(Words) /\ Len(c) = n + m /\ n \in Nat /\ m \in Nat
      /\ \A i \in 1 .. n : c[i] = a[i]
      /\ \A i \in 1 .. m : c[n + i] = b[i]
  BY Members
<1> HIDE DEF c
<1>2. /\ Means(a, K) \in Seq(Seq(Words)) /\ Len(Means(a, K)) = n
      /\ \A i \in 1 .. n : Means(a, K)[i] = Meant(a[i], K)
      /\ Meaning(a, K) = FlattenSeq(Means(a, K))
  BY MeansIs
<1>3. /\ Means(b, K) \in Seq(Seq(Words)) /\ Len(Means(b, K)) = m
      /\ \A i \in 1 .. m : Means(b, K)[i] = Meant(b[i], K)
      /\ Meaning(b, K) = FlattenSeq(Means(b, K))
  BY MeansIs
<1>4. /\ Means(c, K) \in Seq(Seq(Words)) /\ Len(Means(c, K)) = n + m
      /\ \A i \in 1 .. n + m : Means(c, K)[i] = Meant(c[i], K)
      /\ Meaning(c, K) = FlattenSeq(Means(c, K))
  BY <1>1, MeansIs, ZenonT(30)
<1> DEFINE x == Means(a, K)
           y == Means(b, K)
           z == Means(c, K)
           v == x \o y
<1>5. /\ v \in Seq(Seq(Words)) /\ Len(v) = n + m
      /\ \A i \in 1 .. n : v[i] = x[i]
      /\ \A i \in 1 .. m : v[n + i] = y[i]
  <2> HIDE DEF x, y
  <2>1. x \in Seq(Seq(Words)) /\ y \in Seq(Seq(Words)) /\ Len(x) = n /\ Len(y) = m
    BY <1>2, <1>3 DEF x, y
  <2>2. /\ v \in Seq(Seq(Words)) /\ Len(v) = Len(x) + Len(y)
        /\ \A i \in 1 .. Len(x) : v[i] = x[i]
        /\ \A i \in 1 .. Len(y) : v[Len(x) + i] = y[i]
    <3> DEFINE T == Seq(Words)
    <3>1. x \in Seq(T) /\ y \in Seq(T)
      BY <2>1
    <3> HIDE DEF T
    <3>2. /\ x \o y \in Seq(T) /\ Len(x \o y) = Len(x) + Len(y)
          /\ \A i \in 1 .. Len(x) : (x \o y)[i] = x[i]
          /\ \A i \in 1 .. Len(y) : (x \o y)[Len(x) + i] = y[i]
      BY <3>1, Members
    <3> QED
      BY <3>2 DEF T
  <2> HIDE DEF v, n, m
  <2> QED
    BY <2>1, <2>2
<1>6. FlattenSeq(v) = FlattenSeq(x) \o FlattenSeq(y)
  BY <1>2, <1>3, FlattenConcat
<1> HIDE DEF n, m, v
<1>7. v = z
  <2>1. ASSUME NEW i \in 1 .. n + m PROVE v[i] = z[i]
    <3>1. CASE i <= n
      <4>1. i \in 1 .. n
        BY <1>1, <3>1
      <4> QED
        BY <1>1, <1>2, <1>4, <1>5, <4>1
    <3>2. CASE ~(i <= n)
      <4>1. i - n \in 1 .. m /\ n + (i - n) = i
        BY <1>1, <3>2
      <4> QED
        BY <1>1, <1>3, <1>4, <1>5, <4>1, ZenonT(60)
    <3> QED
      BY <3>1, <3>2
  <2> HIDE DEF z
  <2> QED
    BY <1>4, <1>5, <2>1, SeqEqual DEF z
<1> QED
  BY <1>2, <1>3, <1>4, <1>6, <1>7 DEF c

LEMMA MeaningOne ==
  ASSUME NEW w \in Words, NEW K
  PROVE  Meaning(<<w>>, K) = Meant(w, K)
<1> DEFINE t == <<w>>
<1>1. t \in Seq(Words) /\ Len(t) = 1 /\ t[1] = w
  OBVIOUS
<1> HIDE DEF t
<1>2. /\ Means(t, K) \in Seq(Seq(Words)) /\ Len(Means(t, K)) = 1
      /\ Means(t, K)[1] = Meant(w, K) /\ Meaning(t, K) = FlattenSeq(Means(t, K))
  BY <1>1, MeansIs
<1>3. 1 \in 1 .. Len(Means(t, K)) /\ \A q \in 1 .. Len(Means(t, K)) : q = 1
  BY <1>2
<1>4. FlattenSeq(Means(t, K)) = Means(t, K)[1]
  BY <1>2, <1>3, FlattenOne
<1> QED
  BY <1>2, <1>4 DEF t

LEMMA MeaningSame ==
  ASSUME NEW t \in Seq(Words), NEW K, NEW L,
         \A i \in 1 .. Len(t) : t[i][1] = "paste" => (t[i][2] \in K <=> t[i][2] \in L)
  PROVE  Meaning(t, K) = Meaning(t, L)
<1>1. \A i \in 1 .. Len(t) : Meant(t[i], K) = Meant(t[i], L)
  BY DEF Meant
<1>2. Means(t, K) = Means(t, L)
  BY <1>1 DEF Means
<1> QED
  BY <1>2, MeansIs

\* A placeholder in the meaning was in the text, and did not mean its content.
LEMMA MeaningHas ==
  ASSUME NEW t \in Seq(Words), NEW K, NEW n \in Nat, Placeholder(n) \in ToSet(Meaning(t, K))
  PROVE  Placeholder(n) \in ToSet(t) /\ n \notin K
<1> DEFINE u == Meaning(t, K)
           ss == Means(t, K)
<1>1. /\ ss \in Seq(Seq(Words)) /\ Len(ss) = Len(t) /\ Len(t) \in Nat
      /\ \A i \in 1 .. Len(t) : ss[i] = Meant(t[i], K) /\ t[i] \in Words
      /\ u = FlattenSeq(ss) /\ u \in Seq(Words)
  BY MeansIs
<1>2. PICK q \in 1 .. Len(u) : u[q] = Placeholder(n)
  BY <1>1, SetOf
<1>3. PICK ix : Offsets(ix, ss)
  BY <1>1, FlattenPlaces
<1> HIDE DEF u, ss
<1>4. PICK k \in 1 .. Len(t) : q - ix[k - 1] \in 1 .. Len(ss[k])
  BY <1>1, <1>2, <1>3 DEF Offsets
<1>5. u[q] = ss[k][q - ix[k - 1]]
  <2>1. ix[k - 1] \in Nat /\ q \in Nat
    BY <1>1, <1>2, <1>3, <1>4, SMTT(30) DEF Offsets
  <2>2. ix[k - 1] + (q - ix[k - 1]) = q
    BY <2>1
  <2> QED
    BY <1>1, <1>3, <1>4, <2>2 DEF Offsets
<1> DEFINE j == q - ix[k - 1]
           w == t[k]
<1>6. w \in Words /\ ss[k] = Meant(w, K) /\ j \in 1 .. Len(ss[k]) /\ ss[k][j] = Placeholder(n)
  BY <1>1, <1>2, <1>4, <1>5
<1> HIDE DEF j, w
<1>7. Placeholder(n)[1] = "paste" /\ Placeholder(n)[2] = n
  BY WordFacts
<1>8. ~(w[1] = "paste" /\ w[2] \in K)
  <2> SUFFICES ASSUME w[1] = "paste" /\ w[2] \in K PROVE FALSE
    OBVIOUS
  <2>1. ss[k] = Content(w[2]) /\ w[2] \in Nat
    BY <1>6, WordFacts DEF Meant
  <2> QED
    BY <1>6, <1>7, <2>1, ContentFacts
<1>9. ss[k] = <<w>>
  BY <1>6, <1>8 DEF Meant
<1>10. Len(<<w>>) = 1 /\ <<w>>[1] = w
  OBVIOUS
<1>11. w = Placeholder(n)
  BY <1>6, <1>9, <1>10
<1>12. w \in ToSet(t)
  BY SetOf DEF w
<1> QED
  BY <1>7, <1>8, <1>11, <1>12
\* Texts that are joined.
Disjoint(a, b) == \A w \in ToSet(a) : w[1] = "paste" => w \notin ToSet(b)

LEMMA NeatJoin ==
  ASSUME NEW m, NEW a, NEW b, Neat(a, m), Neat(b, m), Disjoint(a, b)
  PROVE  Neat(a \o b, m) /\ ToSet(a \o b) = ToSet(a) \cup ToSet(b)
<1> DEFINE c == a \o b
           n == Len(a)
           k == Len(b)
<1>1. a \in Seq(Words) /\ b \in Seq(Words)
  BY DEF Neat
<1>2. /\ c \in Seq(Words) /\ Len(c) = n + k /\ n \in Nat /\ k \in Nat /\ ToSet(c) = ToSet(a) \cup ToSet(b)
      /\ \A i \in 1 .. n : c[i] = a[i] /\ a[i] \in ToSet(a)
      /\ \A i \in 1 .. k : c[n + i] = b[i] /\ b[i] \in ToSet(b)
  BY <1>1, Members, SetOf
<1>3. /\ \A i \in 1 .. n : a[i][1] = "paste" => a[i][2] \in 1 .. m
      /\ \A i, j \in 1 .. n : a[i] = a[j] /\ a[i][1] = "paste" => i = j
      /\ \A i \in 1 .. k : b[i][1] = "paste" => b[i][2] \in 1 .. m
      /\ \A i, j \in 1 .. k : b[i] = b[j] /\ b[i][1] = "paste" => i = j
  BY DEF Neat
<1> HIDE DEF c, n, k
<1>4. ASSUME NEW i \in 1 .. n + k
      PROVE  i \in 1 .. n \/ (i - n \in 1 .. k /\ n + (i - n) = i)
  BY <1>2
<1>5. ASSUME NEW i \in 1 .. n + k, c[i][1] = "paste" PROVE c[i][2] \in 1 .. m
  <2>1. CASE i \in 1 .. n
    BY <1>2, <1>3, <1>5, <2>1
  <2>2. CASE i - n \in 1 .. k /\ n + (i - n) = i
    BY <1>2, <1>3, <1>5, <2>2, ZenonT(60)
  <2> QED
    BY <1>4, <2>1, <2>2
<1>6. ASSUME NEW i \in 1 .. n + k, NEW j \in 1 .. n + k, c[i] = c[j], c[i][1] = "paste" PROVE i = j
  <2>1. ASSUME NEW x \in 1 .. n, NEW y \in 1 .. k, c[x] = c[n + y], c[x][1] = "paste" PROVE FALSE
    BY <1>2, <2>1 DEF Disjoint
  <2>2. CASE i \in 1 .. n /\ j \in 1 .. n
    BY <1>2, <1>3, <1>6, <2>2
  <2>3. CASE i \in 1 .. n /\ j - n \in 1 .. k /\ n + (j - n) = j
    BY <1>6, <2>1, <2>3
  <2>4. CASE j \in 1 .. n /\ i - n \in 1 .. k /\ n + (i - n) = i
    BY <1>6, <2>1, <2>4
  <2>5. CASE i - n \in 1 .. k /\ n + (i - n) = i /\ j - n \in 1 .. k /\ n + (j - n) = j
    <3>1. b[i - n] = b[j - n] /\ b[i - n][1] = "paste"
      BY <1>2, <1>6, <2>5
    <3>2. i - n = j - n
      BY <1>3, <2>5, <3>1
    <3> QED
      BY <1>2, <2>5, <3>2
  <2> QED
    BY <1>4, <2>2, <2>3, <2>4, <2>5
<1> QED
  BY <1>2, <1>5, <1>6 DEF Neat, c

\* The two ends of a text, the second after the first.
LEMMA EndsAre ==
  ASSUME NEW T, NEW t \in Seq(T), NEW a \in 0 .. Len(t), NEW b \in 0 .. Len(t)
  PROVE  /\ SubSeq(t, 1, a) \in Seq(T) /\ Len(SubSeq(t, 1, a)) = a
         /\ \A i \in 1 .. a : SubSeq(t, 1, a)[i] = t[i]
         /\ SubSeq(t, b + 1, Len(t)) \in Seq(T) /\ Len(SubSeq(t, b + 1, Len(t))) = Len(t) - b
         /\ \A i \in 1 .. Len(t) - b : SubSeq(t, b + 1, Len(t))[i] = t[b + i]
<1> DEFINE n == Len(t)
<1>1. n \in Nat
  OBVIOUS
<1>2. /\ SubSeq(t, 1, a) \in Seq(T) /\ Len(SubSeq(t, 1, a)) = a
      /\ \A i \in 1 .. a : SubSeq(t, 1, a)[i] = t[i]
  OBVIOUS
<1>3. /\ SubSeq(t, b + 1, n) \in Seq(T) /\ Len(SubSeq(t, b + 1, n)) = n - b
      /\ \A i \in 1 .. n - b : SubSeq(t, b + 1, n)[i] = t[b + i]
  OBVIOUS
<1> QED
  BY <1>2, <1>3

LEMMA NeatEnds ==
  ASSUME NEW m, NEW t, Neat(t, m), NEW a \in 0 .. Len(t), NEW b \in a .. Len(t)
  PROVE  /\ Neat(SubSeq(t, 1, a), m) /\ Neat(SubSeq(t, b + 1, Len(t)), m)
         /\ Disjoint(SubSeq(t, 1, a), SubSeq(t, b + 1, Len(t)))
         /\ ToSet(SubSeq(t, 1, a)) \subseteq ToSet(t) /\ ToSet(SubSeq(t, b + 1, Len(t))) \subseteq ToSet(t)
         /\ a = b => ToSet(t) = ToSet(SubSeq(t, 1, a)) \cup ToSet(SubSeq(t, b + 1, Len(t)))
<1> DEFINE n == Len(t)
           x == SubSeq(t, 1, a)
           y == SubSeq(t, b + 1, n)
<1>1. /\ t \in Seq(Words) /\ n \in Nat /\ a \in Nat /\ b \in Nat /\ a <= b /\ b <= n /\ b \in 0 .. n
      /\ \A i \in 1 .. n : t[i][1] = "paste" => t[i][2] \in 1 .. m
      /\ \A i, j \in 1 .. n : t[i] = t[j] /\ t[i][1] = "paste" => i = j
  BY DEF Neat
<1>2. /\ x \in Seq(Words) /\ Len(x) = a /\ \A i \in 1 .. a : x[i] = t[i]
      /\ y \in Seq(Words) /\ Len(y) = n - b /\ \A i \in 1 .. n - b : y[i] = t[b + i]
  BY <1>1, EndsAre
<1> HIDE DEF n, x, y
<1>3. /\ \A w : w \in ToSet(t) <=> \E i \in 1 .. n : t[i] = w
      /\ \A w : w \in ToSet(x) <=> \E i \in 1 .. a : x[i] = w
      /\ \A w : w \in ToSet(y) <=> \E i \in 1 .. n - b : y[i] = w
  <2>1. \A w : w \in ToSet(t) <=> \E i \in 1 .. n : t[i] = w
    BY <1>1, SetOf DEF n
  <2>2. \A w : w \in ToSet(x) <=> \E i \in 1 .. Len(x) : x[i] = w
    BY <1>2, SetOf
  <2>3. \A w : w \in ToSet(y) <=> \E i \in 1 .. Len(y) : y[i] = w
    BY <1>2, SetOf
  <2> QED
    BY <1>2, <2>1, <2>2, <2>3
<1>4. /\ \A i \in 1 .. a : i \in 1 .. n
      /\ \A i \in 1 .. n - b : b + i \in 1 .. n /\ a < b + i
  BY <1>1
<1>5. Neat(x, m)
  <2>1. \A i \in 1 .. a : x[i][1] = "paste" => x[i][2] \in 1 .. m
    BY <1>1, <1>2, <1>4
  <2>2. \A i, j \in 1 .. a : x[i] = x[j] /\ x[i][1] = "paste" => i = j
    BY <1>1, <1>2, <1>4, SMTT(30)
  <2> QED
    BY <1>2, <2>1, <2>2 DEF Neat
<1>6. Neat(y, m)
  <2>1. \A i \in 1 .. n - b : y[i][1] = "paste" => y[i][2] \in 1 .. m
    BY <1>1, <1>2, <1>4, SMTT(30)
  <2>2. ASSUME NEW i \in 1 .. n - b, NEW j \in 1 .. n - b, y[i] = y[j], y[i][1] = "paste" PROVE i = j
    <3>1. b + i \in 1 .. n /\ b + j \in 1 .. n /\ t[b + i] = t[b + j] /\ t[b + i][1] = "paste"
      BY <1>2, <1>4, <2>2
    <3>2. b + i = b + j
      BY <1>1, <3>1
    <3> QED
      BY <1>1, <3>2
  <2> QED
    BY <1>2, <2>1, <2>2 DEF Neat
<1>7. Disjoint(x, y)
  <2> SUFFICES ASSUME NEW w \in ToSet(x), w[1] = "paste", w \in ToSet(y) PROVE FALSE
    BY DEF Disjoint
  <2>1. PICK i \in 1 .. a : x[i] = w
    BY <1>3
  <2>2. PICK j \in 1 .. n - b : y[j] = w
    BY <1>3
  <2>3. i = b + j
    BY <1>1, <1>2, <1>4, <2>1, <2>2, SMTT(30)
  <2> QED
    BY <1>1, <1>4, <2>1, <2>2, <2>3
<1>8. ToSet(x) \subseteq ToSet(t) /\ ToSet(y) \subseteq ToSet(t)
  BY <1>2, <1>3, <1>4, SMTT(30)
<1>9. ASSUME a = b, NEW w \in ToSet(t) PROVE w \in ToSet(x) \cup ToSet(y)
  <2>1. PICK i \in 1 .. n : t[i] = w
    BY <1>3
  <2>2. i <= a => i \in 1 .. a
    BY <2>1
  <2>3. ~(i <= a) => i - b \in 1 .. n - b /\ b + (i - b) = i
    BY <1>1, <1>9, <2>1
  <2> QED
    BY <1>2, <1>3, <2>1, <2>2, <2>3
<1> QED
  BY <1>5, <1>6, <1>7, <1>8, <1>9 DEF x, y, n

\* A piece of a text is replaced.
Spliced(t, a, mid, b) == SubSeq(t, 1, a) \o mid \o SubSeq(t, b + 1, Len(t))

LEMMA NeatSplice ==
  ASSUME NEW m, NEW t, Neat(t, m), NEW a \in 0 .. Len(t), NEW b \in a .. Len(t),
         NEW mid, Neat(mid, m), Disjoint(mid, t)
  PROVE  /\ Neat(Spliced(t, a, mid, b), m)
         /\ ToSet(Spliced(t, a, mid, b)) \subseteq ToSet(t) \cup ToSet(mid)
         /\ ToSet(mid) \subseteq ToSet(Spliced(t, a, mid, b))
         /\ a = b => ToSet(t) \subseteq ToSet(Spliced(t, a, mid, b))
<1> DEFINE x == SubSeq(t, 1, a)
           y == SubSeq(t, b + 1, Len(t))
<1>1. /\ Neat(x, m) /\ Neat(y, m) /\ Disjoint(x, y) /\ ToSet(x) \subseteq ToSet(t)
      /\ ToSet(y) \subseteq ToSet(t) /\ (a = b => ToSet(t) = ToSet(x) \cup ToSet(y))
  BY NeatEnds
<1> HIDE DEF x, y
<1>2. Disjoint(x, mid) /\ Disjoint(mid, y)
  BY <1>1 DEF Disjoint
<1>3. Neat(x \o mid, m) /\ ToSet(x \o mid) = ToSet(x) \cup ToSet(mid)
  <2>1. Neat(x, m) /\ Neat(mid, m) /\ Disjoint(x, mid)
    BY <1>1, <1>2
  <2> QED
    BY <2>1, NeatJoin, ZenonT(60)
<1>4. Disjoint(x \o mid, y)
  BY <1>1, <1>2, <1>3 DEF Disjoint
<1>5. Neat((x \o mid) \o y, m) /\ ToSet((x \o mid) \o y) = ToSet(x) \cup ToSet(mid) \cup ToSet(y)
  BY <1>1, <1>3, <1>4, NeatJoin
<1>6. Spliced(t, a, mid, b) = (x \o mid) \o y
  BY DEF Spliced, x, y
<1> QED
  BY <1>1, <1>5, <1>6
\* A paste as the prompt holds it back.
Held(m) == {[number |-> n, content |-> Content(n)] : n \in 1 .. m}

LEMMA HeldIs ==
  ASSUME NEW m \in Nat, NEW p \in Held(m)
  PROVE  p.number \in 1 .. m /\ p.number \in Nat /\ p.content = Content(p.number)
<1>1. PICK n \in 1 .. m : p = [number |-> n, content |-> Content(n)]
  BY DEF Held
<1> QED
  BY <1>1

LEMMA ContentNeat ==
  ASSUME NEW n \in Nat, NEW m
  PROVE  Neat(Content(n), m) /\ \A w \in ToSet(Content(n)) : w[1] # "paste"
<1>1. Content(n) \in Seq(Words) /\ \A i \in 1 .. Len(Content(n)) : Content(n)[i][1] # "paste"
  BY ContentFacts
<1>2. \A w \in ToSet(Content(n)) : w[1] # "paste"
  BY <1>1, SetOf
<1> QED
  BY <1>1, <1>2 DEF Neat

\* Where the placeholder is, it is replaced; and nothing else is.
FirstOf(t, n) == CHOOSE i \in {k \in 1 .. Len(t) : t[k] = Placeholder(n)} :
                   \A j \in {k \in 1 .. Len(t) : t[k] = Placeholder(n)} : i <= j

LEMMA ReplacedIs ==
  ASSUME NEW t \in Seq(Words), NEW p
  PROVE  /\ Placeholder(p.number) \notin ToSet(t) => Replaced(t, p) = t
         /\ Placeholder(p.number) \in ToSet(t) =>
              /\ FirstOf(t, p.number) \in 1 .. Len(t)
              /\ t[FirstOf(t, p.number)] = Placeholder(p.number)
              /\ Replaced(t, p) = Spliced(t, FirstOf(t, p.number) - 1, p.content, FirstOf(t, p.number))
<1> DEFINE h == Placeholder(p.number)
           places == {k \in 1 .. Len(t) : t[k] = h}
           first == FirstOf(t, p.number)
<1>1. first = CHOOSE i \in places : \A j \in places : i <= j
  BY DEF FirstOf
<1>2. Replaced(t, p) = IF places = {} THEN t
                       ELSE SubSeq(t, 1, first - 1) \o p.content \o SubSeq(t, first + 1, Len(t))
  BY <1>1 DEF Replaced
<1>3. h \in ToSet(t) <=> places # {}
  BY SetOf
<1>4. ASSUME places # {} PROVE first \in places
  <2>1. places \in SUBSET Nat
    OBVIOUS
  <2> HIDE DEF places, first
  <2>2. \E i \in places : \A j \in places : i <= j
    BY <1>4, <2>1, LeastNumber
  <2> QED
    BY <1>1, <2>2
<1> HIDE DEF first
<1>5. places # {} => first \in 1 .. Len(t) /\ t[first] = h
  BY <1>4
<1> HIDE DEF places
<1> QED
  BY <1>2, <1>3, <1>5 DEF Spliced, first

LEMMA ReplacedNeat ==
  ASSUME NEW m \in Nat, NEW t, Neat(t, m), NEW p \in Held(m)
  PROVE  Neat(Replaced(t, p), m)
<1>1. t \in Seq(Words) /\ p.number \in Nat /\ p.content = Content(p.number)
  BY HeldIs DEF Neat
<1> DEFINE h == Placeholder(p.number)
           i == FirstOf(t, p.number)
<1>2. CASE h \notin ToSet(t)
  BY <1>1, <1>2, ReplacedIs
<1>3. CASE h \in ToSet(t)
  <2>1. i \in 1 .. Len(t) /\ Replaced(t, p) = Spliced(t, i - 1, p.content, i)
    BY <1>1, <1>3, ReplacedIs
  <2> HIDE DEF i
  <2>2. i - 1 \in 0 .. Len(t) /\ i \in (i - 1) .. Len(t)
    BY <1>1, <2>1
  <2>3. Neat(p.content, m) /\ Disjoint(p.content, t)
    BY <1>1, ContentNeat DEF Disjoint
  <2>4. Neat(Spliced(t, i - 1, p.content, i), m)
    BY <2>2, <2>3, NeatSplice
  <2> QED
    BY <2>1, <2>4
<1> QED
  BY <1>2, <1>3

\* A text around one of its words.
LEMMA WordBetween ==
  ASSUME NEW T, NEW t \in Seq(T), NEW j \in 1 .. Len(t)
  PROVE  t = (SubSeq(t, 1, j - 1) \o <<t[j]>>) \o SubSeq(t, j + 1, Len(t))
<1> DEFINE n == Len(t)
           a == SubSeq(t, 1, j - 1)
           b == SubSeq(t, j + 1, n)
           c == <<t[j]>>
<1>1. n \in Nat /\ j \in Nat /\ j >= 1 /\ j <= n /\ j - 1 \in 0 .. n /\ j \in 0 .. n /\ t[j] \in T
  OBVIOUS
<1>2. /\ a \in Seq(T) /\ Len(a) = j - 1 /\ \A i \in 1 .. j - 1 : a[i] = t[i]
      /\ b \in Seq(T) /\ Len(b) = n - j /\ \A i \in 1 .. n - j : b[i] = t[j + i]
  BY <1>1, EndsAre, ZenonT(30)
<1>3. c \in Seq(T) /\ Len(c) = 1 /\ c[1] = t[j]
  BY <1>1
<1> HIDE DEF a, b, c
<1> DEFINE u == a \o c
           v == u \o b
<1>4. /\ u \in Seq(T) /\ Len(u) = j
      /\ \A i \in 1 .. j - 1 : u[i] = t[i]
      /\ u[j] = t[j]
  <2>1. /\ u \in Seq(T) /\ Len(u) = Len(a) + Len(c)
        /\ \A i \in 1 .. Len(a) : u[i] = a[i]
        /\ \A i \in 1 .. Len(c) : u[Len(a) + i] = c[i]
    <3>1. a \in Seq(T) /\ c \in Seq(T)
      BY <1>2, <1>3
    <3> QED
      BY <3>1, Members
  <2> HIDE DEF u
  <2>2. (j - 1) + 1 = j /\ 1 \in 1 .. 1
    BY <1>1
  <2>3. u[(j - 1) + 1] = c[1]
    BY <1>2, <1>3, <2>1, <2>2
  <2> QED
    BY <1>1, <1>2, <1>3, <2>1, <2>2, <2>3
<1> HIDE DEF u
<1>5. /\ v \in Seq(T) /\ Len(v) = j + (n - j)
      /\ \A i \in 1 .. j : v[i] = u[i]
      /\ \A i \in 1 .. n - j : v[j + i] = b[i]
  <2>1. u \in Seq(T) /\ b \in Seq(T)
    BY <1>2, <1>4
  <2>2. /\ v \in Seq(T) /\ Len(v) = Len(u) + Len(b)
        /\ \A i \in 1 .. Len(u) : v[i] = u[i]
        /\ \A i \in 1 .. Len(b) : v[Len(u) + i] = b[i]
    BY <2>1, Members
  <2> HIDE DEF v, n
  <2> QED
    BY <1>2, <1>4, <2>2
<1> HIDE DEF v, n
<1>6. ASSUME NEW i \in 1 .. n PROVE v[i] = t[i]
  <2>1. CASE i < j
    <3>1. i \in 1 .. j /\ i \in 1 .. j - 1
      BY <1>1, <2>1
    <3>2. v[i] = u[i]
      BY <1>5, <3>1
    <3> QED
      BY <1>4, <3>1, <3>2
  <2>2. CASE i = j
    <3>1. j \in 1 .. j
      BY <1>1
    <3>2. v[j] = u[j]
      BY <1>5, <3>1
    <3> QED
      BY <1>4, <2>2, <3>2
  <2>3. CASE i > j
    <3>1. i - j \in 1 .. n - j /\ j + (i - j) = i
      BY <1>1, <2>3
    <3> QED
      BY <1>2, <1>5, <3>1
  <2> QED
    BY <1>1, <2>1, <2>2, <2>3
<1>7. Len(v) = n
  BY <1>1, <1>5
<1>8. t = v
  BY <1>5, <1>6, <1>7, SeqEqual DEF n
<1> QED
  BY <1>8 DEF v, u, a, b, c, n
LEMMA ReplacedOnce ==
  ASSUME NEW a \in Seq(Words), NEW b \in Seq(Words), NEW p, Placeholder(p.number) \in Words,
         Placeholder(p.number) \notin ToSet(a), Placeholder(p.number) \notin ToSet(b)
  PROVE  Replaced((a \o <<Placeholder(p.number)>>) \o b, p) = (a \o p.content) \o b
<1> DEFINE h == Placeholder(p.number)
           c == <<h>>
           u == (a \o c) \o b
           i == FirstOf(u, p.number)
           n == Len(a)
           k == Len(b)
<1>1. n \in Nat /\ k \in Nat /\ c \in Seq(Words) /\ Len(c) = 1 /\ c[1] = h
  OBVIOUS
<1>2. /\ \A x \in 1 .. n : a[x] # h
      /\ \A x \in 1 .. k : b[x] # h
  BY SetOf
<1> HIDE DEF h, c
<1>3. /\ a \o c \in Seq(Words) /\ Len(a \o c) = n + 1
      /\ \A x \in 1 .. n : (a \o c)[x] = a[x]
      /\ (a \o c)[n + 1] = h
  <2>1. /\ a \o c \in Seq(Words) /\ Len(a \o c) = Len(a) + Len(c)
        /\ \A x \in 1 .. Len(a) : (a \o c)[x] = a[x]
        /\ \A x \in 1 .. Len(c) : (a \o c)[Len(a) + x] = c[x]
    <3>1. c \in Seq(Words)
      BY <1>1
    <3> QED
      BY <3>1, Members
  <2>2. 1 \in 1 .. Len(c)
    BY <1>1
  <2> QED
    BY <1>1, <2>1, <2>2
<1>4. /\ u \in Seq(Words) /\ Len(u) = (n + 1) + k
      /\ \A x \in 1 .. n + 1 : u[x] = (a \o c)[x]
      /\ \A x \in 1 .. k : u[(n + 1) + x] = b[x]
  <2> DEFINE d == a \o c
  <2>1. d \in Seq(Words) /\ Len(d) = n + 1
    BY <1>3
  <2> HIDE DEF d
  <2>2. /\ d \o b \in Seq(Words) /\ Len(d \o b) = Len(d) + Len(b)
        /\ \A x \in 1 .. Len(d) : (d \o b)[x] = d[x]
        /\ \A x \in 1 .. Len(b) : (d \o b)[Len(d) + x] = b[x]
    <3>1. d \in Seq(Words)
      BY <2>1
    <3> QED
      BY <3>1, Members
  <2> QED
    BY <2>1, <2>2 DEF d
<1>5. n + 1 \in 1 .. Len(u) /\ u[n + 1] = h
  BY <1>1, <1>3, <1>4
<1> HIDE DEF i
<1>6. i \in 1 .. Len(u) /\ u[i] = h /\ Replaced(u, p) = Spliced(u, i - 1, p.content, i)
  <2> HIDE DEF u
  <2>1. h \in ToSet(u)
    BY <1>4, <1>5, SetOf
  <2> QED
    BY <1>4, <2>1, ReplacedIs DEF h, i
<1> HIDE DEF u, n, k
<1>7. i = n + 1
  <2>1. ~(i <= n)
    <3> SUFFICES ASSUME i <= n PROVE FALSE
      OBVIOUS
    <3>1. i \in 1 .. n /\ i \in 1 .. n + 1
      BY <1>1, <1>4, <1>6
    <3>2. u[i] = a[i]
      BY <1>3, <1>4, <3>1
    <3> QED
      BY <1>2, <1>6, <3>1, <3>2
  <2>2. ~(i > n + 1)
    <3> SUFFICES ASSUME i > n + 1 PROVE FALSE
      OBVIOUS
    <3>1. i - (n + 1) \in 1 .. k /\ (n + 1) + (i - (n + 1)) = i
      BY <1>1, <1>4, <1>6
    <3>2. u[i] = b[i - (n + 1)]
      BY <1>4, <3>1
    <3> QED
      BY <1>2, <1>6, <3>1, <3>2
  <2> QED
    BY <1>1, <1>4, <1>6, <2>1, <2>2
<1>8. SubSeq(u, 1, n) = a
  <2> DEFINE e == SubSeq(u, 1, n)
  <2>1. n \in 0 .. Len(u)
    BY <1>1, <1>4
  <2>2. e \in Seq(Words) /\ Len(e) = n /\ \A x \in 1 .. n : e[x] = u[x]
    BY <1>4, <2>1, EndsAre
  <2> HIDE DEF e
  <2>3. \A x \in 1 .. n : x \in 1 .. n + 1
    BY <1>1
  <2>4. \A x \in 1 .. n : e[x] = a[x]
    BY <1>3, <1>4, <2>2, <2>3
  <2> QED
    BY <2>2, <2>4, SeqEqual DEF e, n
<1>9. SubSeq(u, (n + 1) + 1, Len(u)) = b
  <2> DEFINE e == SubSeq(u, (n + 1) + 1, Len(u))
  <2>1. n + 1 \in 0 .. Len(u) /\ Len(u) - (n + 1) = k
    BY <1>1, <1>4
  <2>2. /\ e \in Seq(Words) /\ Len(e) = Len(u) - (n + 1)
        /\ \A x \in 1 .. Len(u) - (n + 1) : e[x] = u[(n + 1) + x]
    <3> DEFINE v == n + 1
    <3>1. v \in 0 .. Len(u)
      BY <2>1
    <3> HIDE DEF v
    <3>2. /\ SubSeq(u, v + 1, Len(u)) \in Seq(Words) /\ Len(SubSeq(u, v + 1, Len(u))) = Len(u) - v
          /\ \A x \in 1 .. Len(u) - v : SubSeq(u, v + 1, Len(u))[x] = u[v + x]
      BY <1>4, <3>1, EndsAre
    <3> QED
      BY <3>2 DEF v
  <2> HIDE DEF e
  <2>3. \A x \in 1 .. k : e[x] = b[x]
    BY <1>4, <2>1, <2>2
  <2> QED
    BY <2>1, <2>2, <2>3, SeqEqual DEF e, k
<1>10. (n + 1) - 1 = n
  BY <1>1
<1> QED
  BY <1>6, <1>7, <1>8, <1>9, <1>10 DEF Spliced, u, c, h
\* Replacing the placeholder in the meaning is to mean its content: the text has it only once.
LEMMA ReplaceMeaning ==
  ASSUME NEW m \in Nat, NEW t, Neat(t, m), NEW K, NEW p \in Held(m)
  PROVE  Replaced(Meaning(t, K), p) = Meaning(t, K \cup {p.number})
<1> DEFINE n == p.number
           h == Placeholder(n)
           L == K \cup {n}
           u == Meaning(t, K)
<1>1. /\ t \in Seq(Words) /\ n \in Nat /\ p.content = Content(n) /\ u \in Seq(Words)
      /\ h \in Words /\ h[1] = "paste" /\ h[2] = n
      /\ \A i, j \in 1 .. Len(t) : t[i] = t[j] /\ t[i][1] = "paste" => i = j
  BY HeldIs, MeansIs, WordFacts DEF Neat
<1> HIDE DEF n, h
<1>2. CASE n \in K \/ h \notin ToSet(t)
  <2>1. h \notin ToSet(u)
    BY <1>1, <1>2, MeaningHas DEF h
  <2>2. Replaced(u, p) = u
    BY <1>1, <2>1, ReplacedIs DEF h, n
  <2>3. \A i \in 1 .. Len(t) : t[i][1] = "paste" => (t[i][2] \in K <=> t[i][2] \in L)
    <3> SUFFICES ASSUME NEW i \in 1 .. Len(t), t[i][1] = "paste", t[i][2] = n, n \notin K PROVE FALSE
      OBVIOUS
    <3>1. t[i] \in Words
      BY <1>1
    <3>2. t[i] = h
      BY <3>1, WordFacts DEF h
    <3> QED
      BY <1>1, <1>2, <3>2, SetOf
  <2>4. u = Meaning(t, L)
    BY <1>1, <2>3, MeaningSame
  <2> QED
    BY <2>2, <2>4 DEF n
<1>3. CASE n \notin K /\ h \in ToSet(t)
  <2>1. PICK j \in 1 .. Len(t) : t[j] = h
    BY <1>1, <1>3, SetOf
  <2> DEFINE a == SubSeq(t, 1, j - 1)
             b == SubSeq(t, j + 1, Len(t))
             c == <<h>>
  <2>2. t = (a \o c) \o b
    BY <1>1, <2>1, WordBetween
  <2>3. a \in Seq(Words) /\ b \in Seq(Words) /\ h \notin ToSet(a) /\ h \notin ToSet(b)
    <3>1. Len(t) \in Nat /\ j - 1 \in 0 .. Len(t) /\ j \in 0 .. Len(t)
      BY <1>1
    <3>2. /\ a \in Seq(Words) /\ Len(a) = j - 1 /\ \A i \in 1 .. j - 1 : a[i] = t[i]
          /\ b \in Seq(Words) /\ Len(b) = Len(t) - j /\ \A i \in 1 .. Len(t) - j : b[i] = t[j + i]
      BY <1>1, <3>1, EndsAre
    <3> HIDE DEF a, b
    <3>3. \A i \in 1 .. Len(t) : t[i] = h => i = j
      BY <1>1, <2>1
    <3>4. ASSUME NEW i \in 1 .. j - 1, a[i] = h PROVE FALSE
      BY <3>1, <3>2, <3>3, <3>4
    <3>5. ASSUME NEW i \in 1 .. Len(t) - j, b[i] = h PROVE FALSE
      <4>1. j + i \in 1 .. Len(t) /\ t[j + i] = h
        BY <3>1, <3>2, <3>5
      <4>2. j + i = j
        BY <3>3, <4>1
      <4> QED
        BY <4>2
    <3> QED
      BY <3>2, <3>4, <3>5, SetOf
  <2>4. c \in Seq(Words)
    BY <1>1
  <2> HIDE DEF a, b, c
  <2> DEFINE A == Meaning(a, K)
             B == Meaning(b, K)
  <2>5. A \in Seq(Words) /\ B \in Seq(Words) /\ h \notin ToSet(A) /\ h \notin ToSet(B)
    BY <1>1, <2>3, MeansIs, MeaningHas DEF h
  <2>6. ASSUME NEW M PROVE Meaning(t, M) = (Meaning(a, M) \o Meaning(c, M)) \o Meaning(b, M)
    <3>1. a \o c \in Seq(Words)
      BY <2>3, <2>4, Members
    <3>2. Meaning((a \o c) \o b, M) = Meaning(a \o c, M) \o Meaning(b, M)
      BY <2>3, <3>1, MeaningConcat, ZenonT(30)
    <3>3. Meaning(a \o c, M) = Meaning(a, M) \o Meaning(c, M)
      BY <2>3, <2>4, MeaningConcat, SMTT(30)
    <3> QED
      BY <2>2, <3>2, <3>3
  <2>7. Meaning(c, K) = c /\ Meaning(c, L) = Content(n)
    <3>1. \A M : Meaning(c, M) = Meant(h, M)
      BY <1>1, MeaningOne DEF c
    <3> QED
      BY <1>1, <1>3, <3>1 DEF Meant, c
  <2>8. ASSUME NEW x \in Seq(Words), h \notin ToSet(x) PROVE Meaning(x, K) = Meaning(x, L)
    <3>1. \A i \in 1 .. Len(x) : x[i][1] = "paste" => (x[i][2] \in K <=> x[i][2] \in L)
      <4> SUFFICES ASSUME NEW i \in 1 .. Len(x), x[i][1] = "paste", x[i][2] = n PROVE FALSE
        OBVIOUS
      <4>1. x[i] \in Words
        OBVIOUS
      <4>2. x[i] = h
        BY <4>1, WordFacts DEF h
      <4> QED
        BY <2>8, <4>2, SetOf
    <3> QED
      BY <3>1, MeaningSame
  <2>9. u = (A \o c) \o B
    BY <2>6, <2>7
  <2>10. Meaning(t, L) = (A \o Content(n)) \o B
    BY <2>3, <2>6, <2>7, <2>8
  <2> HIDE DEF A, B, u, L
  <2>11. Replaced(u, p) = (A \o Content(n)) \o B
    <3>1. A \in Seq(Words) /\ B \in Seq(Words) /\ Placeholder(p.number) \in Words
          /\ Placeholder(p.number) \notin ToSet(A) /\ Placeholder(p.number) \notin ToSet(B)
      BY <1>1, <2>5 DEF h, n
    <3>2. Replaced((A \o <<Placeholder(p.number)>>) \o B, p) = (A \o p.content) \o B
      BY <3>1, ReplacedOnce
    <3>3. u = (A \o <<Placeholder(p.number)>>) \o B
      BY <2>9 DEF h, n, c
    <3> QED
      BY <1>1, <3>2, <3>3
  <2> QED
    BY <2>10, <2>11 DEF u, L, n
<1> QED
  BY <1>2, <1>3
LEMMA MeaningNone ==
  ASSUME NEW t \in Seq(Words)
  PROVE  Meaning(t, {}) = t
<1> DEFINE n == Len(t)
           ss == Means(t, {})
           g == [k \in 0 .. n |-> SubSeq(t, 1, k)]
<1>1. n \in Nat /\ t \in [1 .. n -> Words] /\ n \in 0 .. n /\ 0 \in 0 .. n
  OBVIOUS
<1>2. /\ ss \in Seq(Seq(Words)) /\ Len(ss) = n /\ Meaning(t, {}) = FlattenSeq(ss)
      /\ \A i \in 1 .. n : ss[i] = <<t[i]>>
  <2>1. /\ ss \in Seq(Seq(Words)) /\ Len(ss) = n /\ Meaning(t, {}) = FlattenSeq(ss)
        /\ \A i \in 1 .. n : ss[i] = Meant(t[i], {})
    BY MeansIs
  <2>2. \A w : Meant(w, {}) = <<w>>
    BY DEF Meant
  <2> QED
    BY <2>1, <2>2
<1> HIDE DEF ss
<1>3. g[0] = <<>>
  BY <1>1
<1>4. g[n] = t
  <2> DEFINE e == SubSeq(t, 1, n)
  <2>1. e \in Seq(Words) /\ Len(e) = n /\ \A x \in 1 .. n : e[x] = t[x]
    BY <1>1, EndsAre
  <2> HIDE DEF e
  <2>2. e = t
    BY <2>1, SeqEqual
  <2> QED
    BY <1>1, <2>2 DEF e
<1>5. ASSUME NEW k \in 0 .. n - 1 PROVE g[k + 1] = g[k] \o ss[k + 1]
  <2>1. k \in 0 .. n /\ k + 1 \in 0 .. n /\ k + 1 \in 1 .. n /\ k \in Nat
    BY <1>1
  <2> DEFINE a == SubSeq(t, 1, k)
             b == SubSeq(t, 1, k + 1)
  <2>2. /\ a \in Seq(Words) /\ Len(a) = k /\ \A x \in 1 .. k : a[x] = t[x]
        /\ b \in Seq(Words) /\ Len(b) = k + 1 /\ \A x \in 1 .. k + 1 : b[x] = t[x]
    BY <2>1, EndsAre
  <2>3. g[k] = a /\ g[k + 1] = b /\ ss[k + 1] = <<t[k + 1]>> /\ t[k + 1] \in Words
    BY <1>1, <1>2, <2>1
  <2> HIDE DEF a, b, g
  <2>4. b = Append(a, t[k + 1])
    <3>1. b \in [1 .. k + 1 -> Words] /\ b[k + 1] = t[k + 1] /\ \A x \in 1 .. k : b[x] = a[x]
      BY <2>1, <2>2, LenProperties, SMTT(30)
    <3> QED
      BY <2>1, <2>2, <2>3, <3>1, AppendIs
  <2>5. Append(a, t[k + 1]) = a \o <<t[k + 1]>>
    BY <2>2, <2>3, AppendIsConcat
  <2> QED
    BY <2>3, <2>4, <2>5
<1> HIDE DEF g, n
<1>6. FlattenSeq(ss) = g[n]
  BY <1>2, <1>3, <1>5, FlattenIs
<1> QED
  BY <1>2, <1>4, <1>6
\* text_for_submission gives what the text means when every paste that is held back and has its
\* placeholder in the text is its content.
Expands(t, m, K) ==
  /\ Expanded(t) = Meaning(t, K) /\ Neat(Expanded(t), m) /\ K \subseteq 1 .. m
  /\ \A n \in K : Placeholder(n) \notin ToSet(Expanded(t))
  /\ \A p \in ToSet(pastes) : Placeholder(p.number) \in ToSet(t) => p.number \in K

LEMMA ExpandedIs ==
  ASSUME NEW m \in Nat, pastes \in Seq(Held(m)), NEW t, Neat(t, m)
  PROVE  \E K : Expands(t, m, K)
<1> DEFINE found == SyncedPastes(t)
           N == Len(found)
           V == {u \in Seq(Words) : Neat(u, m)}
           Is(f) == f = [k \in 0 .. N |-> IF k = 0 THEN t ELSE Replaced(f[k - 1], found[k])]
           after == CHOOSE f : Is(f)
           next == [x \in (1 .. N) \X V |-> Replaced(x[2], found[x[1]])]
           Nums(k) == {found[i].number : i \in 1 .. k}
<1>1. /\ found \in Seq(Held(m)) /\ t \in V
      /\ ToSet(found) = {p \in ToSet(pastes) : Placeholder(p.number) \in ToSet(t)}
  <2>1. t \in Seq(Words)
    BY DEF Neat
  <2> DEFINE S == {p \in ToSet(pastes) : Has(t, Placeholder(p.number))}
  <2>2. found = Among(pastes, S)
    BY DEF SyncedPastes
  <2> HIDE DEF S
  <2>3. found \in Seq(Held(m)) /\ ToSet(found) = ToSet(pastes) \cap S
    BY <2>2, AmongHas
  <2>4. S = {p \in ToSet(pastes) : Placeholder(p.number) \in ToSet(t)}
    BY <2>1, SetOf DEF S
  <2> QED
    BY <2>1, <2>3, <2>4
<1>2. Expanded(t) = after[N]
  BY DEF Expanded
<1> HIDE DEF found
<1>3. N \in Nat /\ \A i \in 1 .. N : found[i] \in Held(m)
  BY <1>1
<1> HIDE DEF N
<1>4. ASSUME NEW k \in 1 .. N, NEW v \in V PROVE Replaced(v, found[k]) \in V
  <2>1. Neat(Replaced(v, found[k]), m)
    BY <1>3, ReplacedNeat
  <2> QED
    BY <2>1 DEF Neat
<1> HIDE DEF V
<1>5. next \in [(1 .. N) \X V -> V]
  BY <1>4
<1>6. ASSUME NEW k \in 1 .. N, NEW v \in V PROVE next[<<k, v>>] = Replaced(v, found[k])
  OBVIOUS
<1> HIDE DEF next
<1>7. PICK f : IteratesTo(f, N, V, t, next)
  BY <1>1, <1>3, <1>5, FiniteRecursion
<1>8. Is(f)
  <2> DEFINE a == [k \in 0 .. N |-> IF k = 0 THEN t ELSE next[<<k, f[k - 1]>>]]
             b == [k \in 0 .. N |-> IF k = 0 THEN t ELSE Replaced(f[k - 1], found[k])]
  <2>1. ASSUME NEW k \in 0 .. N PROVE a[k] = b[k]
    <3>1. CASE k = 0
      BY <3>1
    <3>2. CASE k # 0
      <4>1. k \in 1 .. N /\ k - 1 \in 0 .. N
        BY <1>3, <3>2
      <4>2. f[k - 1] \in V
        BY <1>7, <4>1 DEF IteratesTo
      <4>3. next[<<k, f[k - 1]>>] = Replaced(f[k - 1], found[k])
        BY <1>6, <4>1, <4>2
      <4>4. a[k] = next[<<k, f[k - 1]>>] /\ b[k] = Replaced(f[k - 1], found[k])
        BY <3>2
      <4> QED
        BY <4>3, <4>4
    <3> QED
      BY <3>1, <3>2
  <2>2. a = [k \in 0 .. N |-> a[k]] /\ b = [k \in 0 .. N |-> b[k]]
    OBVIOUS
  <2>3. f = a
    BY <1>7 DEF IteratesTo
  <2> HIDE DEF a, b
  <2>4. f = b
    BY <2>1, <2>2, <2>3
  <2> QED
    BY <2>4 DEF b
<1>9. Is(after)
  BY <1>8
<1> HIDE DEF after
<1>10. after[0] = t /\ \A k \in 1 .. N : after[k] = Replaced(after[k - 1], found[k])
  <2>1. 0 \in 0 .. N /\ \A k \in 1 .. N : k \in 0 .. N /\ k # 0
    BY <1>3
  <2> QED
    BY <1>9, <2>1
<1> HIDE DEF Is
<1> DEFINE T == {k \in Nat : k <= N => after[k] \in V /\ after[k] = Meaning(t, Nums(k))}
<1>11. 0 \in T
  <2>1. Meaning(t, {}) = t
    BY <1>1, MeaningNone DEF V
  <2>2. Nums(0) = {}
    OBVIOUS
  <2> QED
    BY <1>1, <1>10, <2>1, <2>2
<1>12. ASSUME NEW k \in Nat, k \in T PROVE k + 1 \in T
  <2> SUFFICES ASSUME k + 1 <= N PROVE after[k + 1] \in V /\ after[k + 1] = Meaning(t, Nums(k + 1))
    OBVIOUS
  <2>1. k + 1 \in 1 .. N /\ (k + 1) - 1 = k /\ k <= N
    BY <1>3
  <2>2. after[k] \in V /\ after[k] = Meaning(t, Nums(k))
    BY <1>12, <2>1
  <2>3. after[k + 1] = Replaced(after[k], found[k + 1]) /\ found[k + 1] \in Held(m)
    BY <1>3, <1>10, <2>1
  <2>4. after[k + 1] \in V
    BY <1>4, <2>1, <2>2, <2>3
  <2>5. Nums(k + 1) = Nums(k) \cup {found[k + 1].number}
    BY <2>1
  <2> HIDE DEF Nums
  <2> DEFINE K == Nums(k)
             p == found[k + 1]
  <2>6. p \in Held(m)
    BY <2>3
  <2> HIDE DEF K, p
  <2>7. Replaced(Meaning(t, K), p) = Meaning(t, K \cup {p.number})
    BY <2>6, ReplaceMeaning
  <2> QED
    BY <2>2, <2>3, <2>4, <2>5, <2>7 DEF K, p
<1>13. \A k \in Nat : k \in T
  <2> HIDE DEF T
  <2> QED
    BY <1>11, <1>12, Induction
<1> DEFINE K == Nums(N)
<1>14. Expanded(t) = Meaning(t, K) /\ Neat(Expanded(t), m)
  <2>1. after[N] \in V /\ after[N] = Meaning(t, K)
    BY <1>3, <1>13
  <2> QED
    BY <1>2, <2>1 DEF V
<1>15. K \subseteq 1 .. m /\ K \subseteq Nat
  <2>1. \A i \in 1 .. N : found[i].number \in 1 .. m
    BY <1>3, HeldIs
  <2> QED
    BY <2>1
<1>16. \A p \in ToSet(pastes) : Placeholder(p.number) \in ToSet(t) => p.number \in K
  <2> SUFFICES ASSUME NEW p \in ToSet(pastes), Placeholder(p.number) \in ToSet(t) PROVE p.number \in K
    OBVIOUS
  <2>1. p \in ToSet(found)
    BY <1>1
  <2>2. PICK i \in 1 .. N : found[i] = p
    BY <1>1, <2>1, SetOf DEF N
  <2> QED
    BY <2>2
<1> HIDE DEF K
<1>17. \A n \in K : Placeholder(n) \notin ToSet(Expanded(t))
  BY <1>1, <1>14, <1>15, MeaningHas DEF Neat
<1> QED
  BY <1>14, <1>15, <1>16, <1>17 DEF Expands
-----------------------------------------------------------------------------
Texts(m) == {t \in Seq(Words) : Neat(t, m)}
Plain == {w \in Words : w[1] # "paste"}
Options == {o \in [word : Plain, start : Nat, end : Nat] : o.start <= o.end}

EditorType ==
  /\ pasted \in Nat /\ pastes \in Seq(Held(pasted))
  /\ text \in Texts(pasted) /\ before \in Texts(pasted) /\ history \in Texts(pasted)
  /\ queued \in [steer : Seq(Texts(pasted)), followUp : Seq(Texts(pasted))]
  /\ offer \in Seq(Options) /\ (offer # <<>> => selected \in 1 .. Len(offer))

\* A paste whose placeholder never left the screen is still held back.
KeptIsHeld ==
  \A n \in kept : /\ n \in 1 .. pasted /\ Placeholder(n) \in ToSet(text)
                  /\ \E p \in ToSet(pastes) : p.number = n

EditorInv == EditorType /\ KeptIsHeld /\ SentIsWhole

LEMMA EmptyText ==
  ASSUME NEW m
  PROVE  <<>> \in Texts(m) /\ ToSet(<<>>) = {} /\ \A K : Meaning(<<>>, K) = <<>>
<1>1. <<>> \in Seq(Words) /\ Len(<<>>) = 0 /\ 1 .. 0 = {}
  OBVIOUS
<1>2. ToSet(<<>>) = {}
  BY <1>1, SetOf
<1>3. ASSUME NEW K PROVE Meaning(<<>>, K) = <<>>
  <2>1. Meaning(<<>>, K) = Meaning(<<>>, {})
    BY <1>1, MeaningSame
  <2> QED
    BY <1>1, <2>1, MeaningNone
<1> QED
  BY <1>1, <1>2, <1>3 DEF Texts, Neat

LEMMA OneWord ==
  ASSUME NEW m, NEW w \in Words, w[1] = "paste" => w[2] \in 1 .. m
  PROVE  Neat(<<w>>, m) /\ ToSet(<<w>>) = {w}
<1>1. <<w>> \in Seq(Words) /\ Len(<<w>>) = 1 /\ <<w>>[1] = w
  OBVIOUS
<1>2. \A i \in 1 .. 1 : i = 1
  OBVIOUS
<1>3. ToSet(<<w>>) = {w}
  BY DEF ToSet
<1> QED
  BY <1>1, <1>2, <1>3 DEF Neat

\* More pastes may be made: what is neat stays so.
LEMMA Later ==
  ASSUME NEW m \in Nat
  PROVE  /\ \A t : Neat(t, m) => Neat(t, m + 1)
         /\ Texts(m) \subseteq Texts(m + 1) /\ Held(m) \subseteq Held(m + 1)
         /\ Seq(Texts(m)) \subseteq Seq(Texts(m + 1)) /\ Seq(Held(m)) \subseteq Seq(Held(m + 1))
<1>1. \A n \in 1 .. m : n \in 1 .. m + 1
  OBVIOUS
<1>2. \A t : Neat(t, m) => Neat(t, m + 1)
  BY <1>1 DEF Neat
<1>3. Texts(m) \subseteq Texts(m + 1)
  BY <1>2 DEF Texts
<1>4. Held(m) \subseteq Held(m + 1)
  BY <1>1 DEF Held
<1>5. Seq(Texts(m)) \subseteq Seq(Texts(m + 1))
  BY <1>3, Widen
<1>6. Seq(Held(m)) \subseteq Seq(Held(m + 1))
  BY <1>4, Widen
<1> QED
  BY <1>2, <1>3, <1>4, <1>5, <1>6

\* A word is put in.
LEMMA InsertIs ==
  ASSUME NEW m \in Nat, NEW t \in Texts(m), NEW ix \in 1 .. Len(t) + 1, NEW w \in Words,
         w[1] = "paste" => w[2] \in 1 .. m /\ w \notin ToSet(t)
  PROVE  InsertAt(t, ix, w) \in Texts(m) /\ ToSet(t) \cup {w} \subseteq ToSet(InsertAt(t, ix, w))
<1> DEFINE a == ix - 1
           mid == <<w>>
<1>1. t \in Seq(Words) /\ Neat(t, m) /\ Len(t) \in Nat
  BY DEF Texts
<1>2. a \in 0 .. Len(t) /\ a \in a .. Len(t) /\ a + 1 = ix
  BY <1>1
<1>3. Neat(mid, m) /\ ToSet(mid) = {w}
  BY OneWord
<1>4. Disjoint(mid, t)
  BY <1>3 DEF Disjoint
<1>5. InsertAt(t, ix, w) = Spliced(t, a, mid, a)
  BY <1>2 DEF InsertAt, Spliced
<1> HIDE DEF a, mid
<1>6. Neat(Spliced(t, a, mid, a), m)
      /\ ToSet(mid) \subseteq ToSet(Spliced(t, a, mid, a)) /\ ToSet(t) \subseteq ToSet(Spliced(t, a, mid, a))
  BY <1>1, <1>2, <1>3, <1>4, NeatSplice
<1> QED
  BY <1>3, <1>5, <1>6 DEF Texts, Neat

LEMMA RemoveIs ==
  ASSUME NEW m \in Nat, NEW t \in Texts(m), NEW ix \in 1 .. Len(t)
  PROVE  RemoveAt(t, ix) \in Texts(m)
<1> DEFINE a == ix - 1
           x == SubSeq(t, 1, a)
<1>1. t \in Seq(Words) /\ Neat(t, m) /\ Len(t) \in Nat
  BY DEF Texts
<1>2. a \in 0 .. Len(t) /\ ix \in a .. Len(t) /\ ix \in 0 .. Len(t)
  BY <1>1
<1>3. x \in Seq(Words)
  BY <1>1, <1>2, EndsAre
<1>4. RemoveAt(t, ix) = x \o SubSeq(t, ix + 1, Len(t))
  BY DEF RemoveAt
<1> HIDE DEF a, x
<1>5. x \o <<>> = x
  BY <1>3, ConcatEmptySeq
<1>6. RemoveAt(t, ix) = Spliced(t, a, <<>>, ix)
  BY <1>4, <1>5 DEF Spliced, x
<1>7. Neat(<<>>, m) /\ Disjoint(<<>>, t)
  BY EmptyText DEF Texts, Disjoint
<1>8. Neat(Spliced(t, a, <<>>, ix), m)
  BY <1>1, <1>2, <1>7, NeatSplice
<1> QED
  BY <1>6, <1>8 DEF Texts, Neat

LEMMA ApplyIs ==
  ASSUME NEW m \in Nat, NEW t \in Texts(m), NEW o \in Options
  PROVE  /\ Apply(o, t) \in Texts(m)
         /\ \A n \in Nat : Placeholder(n) \notin ToSet(t) => Placeholder(n) \notin ToSet(Apply(o, t))
<1> DEFINE l == Len(t)
           a == IF o.start > l THEN l ELSE o.start
           b == IF o.end > l THEN l ELSE o.end
           mid == <<o.word>>
<1>1. /\ t \in Seq(Words) /\ Neat(t, m) /\ l \in Nat
      /\ o.word \in Words /\ o.word[1] # "paste" /\ o.start \in Nat /\ o.end \in Nat /\ o.start <= o.end
  BY DEF Texts, Options, Plain
<1>2. a \in 0 .. l /\ b \in a .. l
  BY <1>1
<1>3. SubSeq(t, o.end + 1, l) = SubSeq(t, b + 1, l)
  <2>1. CASE o.end > l
    <3>1. SubSeq(t, o.end + 1, l) = <<>> /\ SubSeq(t, l + 1, l) = <<>>
      BY <1>1, <2>1
    <3> QED
      BY <2>1, <3>1
  <2>2. CASE ~(o.end > l)
    BY <2>2
  <2> QED
    BY <2>1, <2>2
<1>4. Apply(o, t) = Spliced(t, a, mid, b)
  BY <1>3 DEF Apply, Spliced
<1>5. Neat(mid, m) /\ ToSet(mid) = {o.word}
  BY <1>1, OneWord
<1>6. Disjoint(mid, t)
  BY <1>1, <1>5 DEF Disjoint
<1> HIDE DEF a, b, mid
<1>7. /\ Neat(Spliced(t, a, mid, b), m)
      /\ ToSet(Spliced(t, a, mid, b)) \subseteq ToSet(t) \cup ToSet(mid)
  BY <1>1, <1>2, <1>5, <1>6, NeatSplice
<1>8. \A n \in Nat : Placeholder(n) # o.word
  BY <1>1, WordFacts
<1> QED
  BY <1>4, <1>5, <1>7, <1>8 DEF Texts, Neat

LEMMA OffersAre ==
  ASSUME NEW t \in Seq(Words)
  PROVE  Completions(t) \in Seq(Options) /\ (Completions(t) # <<>> => 1 \in 1 .. Len(Completions(t)))
<1>1. ASSUME NEW kind \in {"file", "choice"}, NEW from \in Nat, NEW to \in Nat, from <= to
      PROVE  Offered(kind, from, to) \in Seq(Options)
  <2>1. <<kind, 1>> \in Plain /\ <<kind, 2>> \in Plain
    BY DEF Plain, Words, Sorts
  <2>2. Option(<<kind, 1>>, from, to) \in Options /\ Option(<<kind, 2>>, from, to) \in Options
    BY <1>1, <2>1 DEF Option, Options
  <2> QED
    BY <2>2 DEF Offered
<1>2. ASSUME NEW kind \in {"command", "skill"} PROVE Option(Word(kind), 0, 1) \in Options
  <2>1. Word(kind) \in Plain
    BY DEF Plain, Words, Sorts, Word
  <2> QED
    BY <2>1 DEF Option, Options
<1>3. <<>> \in Seq(Options) /\ Len(t) \in Nat
  OBVIOUS
<1>4. FileReferences(t) \in Seq(Options)
  <2>1. t # <<>> => Len(t) - 1 \in Nat /\ Len(t) - 1 <= Len(t)
    BY <1>3
  <2> QED
    BY <1>1, <1>3, <2>1 DEF FileReferences
<1>5. ShellPaths(t) \in Seq(Options)
  <2>1. Len(t) > 1 => Len(t) - 1 \in Nat /\ Len(t) - 1 <= Len(t)
    BY <1>3
  <2> QED
    BY <1>1, <1>3, <2>1 DEF ShellPaths
<1>6. CommandNames(t) \in Seq(Options) /\ SkillNames \in Seq(Options)
  BY <1>2 DEF CommandNames, SkillNames
<1>7. Arguments(t) \in Seq(Options)
  BY <1>1, <1>3 DEF Arguments
<1>8. Completions(t) \in Seq(Options)
  BY <1>3, <1>4, <1>5, <1>6, <1>7 DEF Completions
<1> DEFINE c == Completions(t)
<1> HIDE DEF c
<1>9. c \in Seq(Options) => (c # <<>> => 1 \in 1 .. Len(c))
  OBVIOUS
<1> QED
  BY <1>8, <1>9 DEF c
Queues(m) == [steer : Seq(Texts(m)), followUp : Seq(Texts(m))]

LEMMA EditorInitInv == EditorInit => EditorInv
<1> SUFFICES ASSUME EditorInit PROVE EditorInv
  OBVIOUS
<1>1. /\ text = <<>> /\ pastes = <<>> /\ pasted = 0 /\ offer = <<>> /\ history = <<>>
      /\ queued = [steer |-> <<>>, followUp |-> <<>>] /\ before = <<>> /\ kept = {}
      /\ handed = [sent |-> <<>>, screen |-> <<>>, kept |-> {}]
  BY DEF EditorInit
<1>2. <<>> \in Texts(0)
  BY EmptyText
<1>3. EditorType
  BY <1>1, <1>2 DEF EditorType
<1>4. KeptIsHeld
  BY <1>1 DEF KeptIsHeld
<1>5. SentIsWhole
  <2>1. <<>> = Meaning(<<>>, {})
    BY EmptyText
  <2>2. handed.kept = {} /\ handed.sent = <<>> /\ handed.screen = <<>>
    BY <1>1
  <2>3. {} \in SUBSET (1 .. pasted) /\ handed.kept \subseteq {} /\ handed.sent = Meaning(handed.screen, {})
    BY <2>1, <2>2
  <2> QED
    BY <2>3 DEF SentIsWhole
<1> QED
  BY <1>3, <1>4, <1>5 DEF EditorInv

\* What was handed over is not touched by a later paste.
LEMMA SameSent ==
  ASSUME EditorInv, handed' = handed, pasted' \in {pasted, pasted + 1}
  PROVE  SentIsWhole'
<1>1. pasted \in Nat /\ SentIsWhole
  BY DEF EditorInv, EditorType
<1>2. PICK K \in SUBSET (1 .. pasted) : handed.kept \subseteq K /\ handed.sent = Meaning(handed.screen, K)
  BY <1>1 DEF SentIsWhole
<1>3. 1 .. pasted \subseteq 1 .. pasted'
  BY <1>1
<1>4. K \in SUBSET (1 .. pasted')
  BY <1>3
<1> DEFINE M(x) == Meaning(x, K)
<1>5. handed'.kept \subseteq K /\ handed'.sent = M(handed'.screen)
  BY <1>2
<1> QED
  BY <1>4, <1>5 DEF SentIsWhole

\* The text changes and the pastes do not, or none that is held back has its placeholder in it.
LEMMA KeptStays ==
  ASSUME EditorInv, NEW t \in Texts(pasted), text' = t, pasted' = pasted,
         kept' = {n \in kept : Has(t, Placeholder(n))},
         pastes' = pastes \/ \A n \in kept : Placeholder(n) \notin ToSet(t)
  PROVE  KeptIsHeld'
<1>1. t \in Seq(Words)
  BY DEF Texts
<1>2. \A n : Has(t, Placeholder(n)) <=> Placeholder(n) \in ToSet(t)
  BY <1>1, SetOf
<1>3. \A n \in kept' : n \in kept /\ Placeholder(n) \in ToSet(t)
  BY <1>2
<1>4. CASE pastes' = pastes
  BY <1>3, <1>4 DEF EditorInv, KeptIsHeld
<1>5. CASE \A n \in kept : Placeholder(n) \notin ToSet(t)
  <2>1. kept' = {}
    BY <1>3, <1>5
  <2> QED
    BY <2>1 DEF KeptIsHeld
<1> QED
  BY <1>4, <1>5

LEMMA EditStep ==
  ASSUME EditorInv, NEW t \in Texts(pasted), Edit(t), StaysKept(t), UNCHANGED <<pastes, pasted>>
  PROVE  EditorInv'
<1>1. /\ text' = t /\ before' = text /\ kept' = {n \in kept : Has(t, Placeholder(n))}
      /\ UNCHANGED <<offer, selected, queued, history, handed, pastes, pasted>>
  BY DEF Edit, StaysKept
<1>2. KeptIsHeld'
  BY <1>1, KeptStays
<1>3. SentIsWhole'
  BY <1>1, SameSent
<1>4. EditorType'
  BY <1>1 DEF EditorInv, EditorType
<1> QED
  BY <1>2, <1>3, <1>4 DEF EditorInv

LEMMA LoadStep ==
  ASSUME EditorInv, NEW t \in Texts(pasted), Load(t), pasted' = pasted,
         pastes' \in Seq(Held(pasted)),
         pastes' = pastes \/ \A n \in kept : Placeholder(n) \notin ToSet(t),
         UNCHANGED <<offer, selected>> \/ OffersFor(t),
         history' \in Texts(pasted), queued' \in Queues(pasted), SentIsWhole'
  PROVE  EditorInv'
<1>1. text' = t /\ before' = t /\ kept' = {n \in kept : Has(t, Placeholder(n))}
  BY DEF Load, Shows
<1>2. KeptIsHeld'
  BY <1>1, KeptStays
<1>3. offer' \in Seq(Options) /\ (offer' # <<>> => selected' \in 1 .. Len(offer'))
  <2>1. CASE UNCHANGED <<offer, selected>>
    BY <2>1 DEF EditorInv, EditorType
  <2>2. CASE OffersFor(t)
    <3>1. t \in Seq(Words)
      BY DEF Texts
    <3> QED
      BY <2>2, <3>1, OffersAre DEF OffersFor
  <2> QED
    BY <2>1, <2>2
<1>4. EditorType'
  BY <1>1, <1>3 DEF EditorInv, EditorType, Queues
<1> QED
  BY <1>2, <1>4 DEF EditorInv

\* Typing, and pastes of all kinds.
LEMMA InsertStep ==
  ASSUME EditorInv, NEW i \in 1 .. Len(text) + 1, NEW w \in Plain, Insert(w, i)
  PROVE  EditorInv'
<1>1. w \in Words /\ w[1] # "paste" /\ text \in Texts(pasted) /\ pasted \in Nat
  BY DEF Plain, EditorInv, EditorType
<1>2. InsertAt(text, i, w) \in Texts(pasted)
  BY <1>1, InsertIs
<1> QED
  BY <1>2, EditStep DEF Insert

LEMMA PasteStep ==
  ASSUME EditorInv, NEW i \in 1 .. Len(text) + 1, PasteLarge(i)
  PROVE  EditorInv'
<1> DEFINE n == pasted + 1
           p == [number |-> n, content |-> Content(n)]
           w == Placeholder(n)
           t == InsertAt(text, i, w)
<1>1. /\ pasted' = n /\ pastes' = Append(pastes, p) /\ text' = t /\ before' = text
      /\ kept' = kept \cup {n} /\ UNCHANGED <<offer, selected, queued, history, handed>>
  BY DEF PasteLarge, Edit
<1>2. pasted \in Nat /\ n \in Nat /\ n \in 1 .. n /\ n \notin 1 .. pasted /\ 1 .. pasted \subseteq 1 .. n
  BY DEF EditorInv, EditorType
<1>3. /\ text \in Texts(pasted) /\ before \in Texts(pasted) /\ history \in Texts(pasted)
      /\ queued.steer \in Seq(Texts(pasted)) /\ queued.followUp \in Seq(Texts(pasted))
      /\ queued = [steer |-> queued.steer, followUp |-> queued.followUp]
      /\ pastes \in Seq(Held(pasted)) /\ offer \in Seq(Options)
      /\ (offer # <<>> => selected \in 1 .. Len(offer))
  BY DEF EditorInv, EditorType
<1>4. /\ text \in Texts(n) /\ before \in Texts(n) /\ history \in Texts(n)
      /\ queued.steer \in Seq(Texts(n)) /\ queued.followUp \in Seq(Texts(n))
      /\ pastes \in Seq(Held(n))
  BY <1>2, <1>3, Later
<1>5. w \in Words /\ w[1] = "paste" /\ w[2] = n
  BY <1>2, WordFacts
<1>6. w \notin ToSet(text)
  <2>1. text \in Seq(Words) /\ \A k \in 1 .. Len(text) : text[k][1] = "paste" => text[k][2] \in 1 .. pasted
    BY <1>3 DEF Texts, Neat
  <2>2. \A k \in 1 .. Len(text) : text[k] # w
    BY <1>2, <1>5, <2>1
  <2> QED
    BY <2>1, <2>2, SetOf
<1>7. p \in Held(n) /\ p.number = n
  BY <1>2 DEF Held
<1> HIDE DEF n, p, w
<1>8. t \in Texts(n) /\ ToSet(text) \cup {w} \subseteq ToSet(t)
  BY <1>2, <1>4, <1>5, <1>6, InsertIs
<1> HIDE DEF t
<1>9. pastes' \in Seq(Held(n)) /\ ToSet(pastes) \cup {p} \subseteq ToSet(pastes')
  <2> DEFINE q == Append(pastes, p)
  <2>1. /\ q \in Seq(Held(n)) /\ Len(q) = Len(pastes) + 1 /\ q[Len(pastes) + 1] = p
        /\ \A k \in 1 .. Len(pastes) : q[k] = pastes[k]
    BY <1>4, <1>7
  <2>2. Len(pastes) \in Nat
    BY <1>4
  <2> HIDE DEF q
  <2>3. \A x \in ToSet(pastes) : x \in ToSet(q)
    <3>1. TAKE x \in ToSet(pastes)
    <3>2. PICK k \in 1 .. Len(pastes) : pastes[k] = x
      BY <1>4, SetOf
    <3>3. k \in 1 .. Len(q) /\ q[k] = x
      BY <2>1, <2>2, <3>2
    <3> QED
      BY <2>1, <3>3, SetOf
  <2>4. p \in ToSet(q)
    <3>1. Len(pastes) + 1 \in 1 .. Len(q)
      BY <2>1, <2>2
    <3> QED
      BY <2>1, <3>1, SetOf
  <2> QED
    BY <1>1, <2>1, <2>3, <2>4 DEF q
<1>10. EditorType'
  BY <1>1, <1>2, <1>3, <1>4, <1>8, <1>9 DEF EditorType
<1>11. KeptIsHeld'
  <2>1. KeptIsHeld
    BY DEF EditorInv
  <2>2. SUFFICES ASSUME NEW k \in kept \cup {n}
                 PROVE  /\ k \in 1 .. n /\ Placeholder(k) \in ToSet(t)
                        /\ \E x \in ToSet(pastes') : x.number = k
    BY <1>1 DEF KeptIsHeld
  <2>3. CASE k \in kept
    BY <1>2, <1>8, <1>9, <2>1, <2>3 DEF KeptIsHeld
  <2>4. CASE k = n
    BY <1>2, <1>7, <1>8, <1>9, <2>4 DEF w
  <2> QED
    BY <2>3, <2>4
<1>12. SentIsWhole'
  BY <1>1, SameSent DEF n
<1> QED
  BY <1>10, <1>11, <1>12 DEF EditorInv
LEMMA DeleteStep ==
  ASSUME EditorInv, NEW i \in 1 .. Len(text), Delete(i)
  PROVE  EditorInv'
<1>1. text \in Texts(pasted) /\ pasted \in Nat
  BY DEF EditorInv, EditorType
<1>2. RemoveAt(text, i) \in Texts(pasted)
  BY <1>1, RemoveIs
<1> QED
  BY <1>2, EditStep DEF Delete

LEMMA UndoStep == EditorInv /\ Undo => EditorInv'
<1>1. EditorInv => before \in Texts(pasted)
  BY DEF EditorInv, EditorType
<1> QED
  BY <1>1, EditStep DEF Undo

LEMMA ChangedStep == EditorInv /\ Changed => EditorInv'
<1> SUFFICES ASSUME EditorInv, Changed PROVE EditorInv'
  OBVIOUS
<1>1. /\ pastes' = SyncedPastes(text) /\ offer' = Completions(text) /\ selected' = 1
      /\ UNCHANGED <<text, pasted, queued, history, handed, before, kept>>
  BY DEF Changed, OffersFor
<1>2. EditorType /\ KeptIsHeld /\ text \in Seq(Words) /\ pastes \in Seq(Held(pasted))
  BY DEF EditorInv, EditorType, Texts
<1>3. offer' \in Seq(Options) /\ (offer' # <<>> => selected' \in 1 .. Len(offer'))
  BY <1>1, <1>2, OffersAre
<1> DEFINE S == {p \in ToSet(pastes) : Has(text, Placeholder(p.number))}
<1>4. pastes' = Among(pastes, S)
  BY <1>1 DEF SyncedPastes
<1>5. pastes' \in Seq(Held(pasted)) /\ ToSet(pastes') = ToSet(pastes) \cap S
  BY <1>2, <1>4, AmongHas
<1>6. \A n : Has(text, Placeholder(n)) <=> Placeholder(n) \in ToSet(text)
  BY <1>2, SetOf
<1>7. KeptIsHeld'
  BY <1>1, <1>2, <1>5, <1>6 DEF KeptIsHeld
<1>8. EditorType'
  BY <1>1, <1>2, <1>3, <1>5 DEF EditorType
<1> QED
  BY <1>1, <1>7, <1>8, SameSent DEF EditorInv

LEMMA PutInStep ==
  ASSUME EditorInv, NEW w \in Plain, PutIn(<<w>>)
  PROVE  EditorInv'
<1>1. EditorType /\ pasted \in Nat
  BY DEF EditorInv, EditorType
<1>2. <<w>> \in Texts(pasted)
  <2>1. w \in Words /\ w[1] # "paste" /\ <<w>> \in Seq(Words)
    BY DEF Plain
  <2>2. Neat(<<w>>, pasted)
    BY <2>1, OneWord
  <2> QED
    BY <2>1, <2>2 DEF Texts
<1> DEFINE t == <<w>>
<1>3. Load(t) /\ OffersFor(t) /\ UNCHANGED <<pastes, pasted, queued, history, handed>>
  BY DEF PutIn
<1> HIDE DEF t
<1>4. history' \in Texts(pasted) /\ queued' \in Queues(pasted) /\ pastes' \in Seq(Held(pasted))
  BY <1>1, <1>3 DEF EditorType, Queues
<1> QED
  BY <1>2, <1>3, <1>4, LoadStep, SameSent DEF t

LEMMA ClearStep == EditorInv /\ ClearPrompt => EditorInv'
<1> SUFFICES ASSUME EditorInv, ClearPrompt PROVE EditorInv'
  OBVIOUS
<1>1. EditorType /\ <<>> \in Texts(pasted) /\ \A n : Placeholder(n) \notin ToSet(<<>>)
  BY EmptyText DEF EditorInv
<1>2. /\ Load(<<>>) /\ pastes' \in {pastes, <<>>}
      /\ UNCHANGED <<pasted, offer, selected, queued, history, handed>>
  BY DEF ClearPrompt
<1>3. history' \in Texts(pasted) /\ queued' \in Queues(pasted)
  BY <1>1, <1>2 DEF EditorType, Queues
<1>4. pastes' \in Seq(Held(pasted))
  <2>1. pastes \in Seq(Held(pasted)) /\ <<>> \in Seq(Held(pasted))
    BY <1>1 DEF EditorType
  <2> QED
    BY <1>2, <2>1
<1> QED
  BY <1>1, <1>2, <1>3, <1>4, LoadStep, SameSent

LEMMA SelectItemStep ==
  ASSUME EditorInv, Select
  PROVE  EditorInv'
<1>1. /\ offer # <<>> /\ selected' = (selected % Len(offer)) + 1
      /\ UNCHANGED <<text, pastes, pasted, offer, queued, history, handed, before, kept>>
  BY DEF Select
<1>2. EditorType /\ KeptIsHeld
  BY DEF EditorInv
<1>3. Len(offer) \in Nat /\ Len(offer) > 0 /\ selected \in 1 .. Len(offer)
  BY <1>1, <1>2 DEF EditorType
<1>4. selected' \in 1 .. Len(offer)
  BY <1>1, <1>3
<1>5. EditorType'
  BY <1>1, <1>2, <1>4 DEF EditorType
<1>6. KeptIsHeld'
  BY <1>1, <1>2 DEF KeptIsHeld
<1>7. SentIsWhole'
  BY <1>1, SameSent
<1> QED
  BY <1>5, <1>6, <1>7 DEF EditorInv

\* An item is applied.
LEMMA OfferedIs ==
  ASSUME EditorType, offer # <<>>, NEW t \in Texts(pasted)
  PROVE  /\ Apply(offer[selected], t) \in Texts(pasted)
         /\ \A n \in Nat : Placeholder(n) \notin ToSet(t)
                             => Placeholder(n) \notin ToSet(Apply(offer[selected], t))
<1>1. offer \in Seq(Options) /\ selected \in 1 .. Len(offer) /\ pasted \in Nat
  BY DEF EditorType
<1>2. offer[selected] \in Options
  BY <1>1
<1> QED
  BY <1>1, <1>2, ApplyIs

LEMMA AcceptStep == EditorInv /\ Accept => EditorInv'
<1> SUFFICES ASSUME EditorInv, Accept PROVE EditorInv'
  OBVIOUS
<1> DEFINE t == Apply(offer[selected], text)
<1>1. EditorType /\ text \in Texts(pasted)
  BY DEF EditorInv, EditorType
<1>2. /\ offer # <<>> /\ Load(t) /\ OffersFor(t)
      /\ UNCHANGED <<pastes, pasted, queued, history, handed>>
  BY DEF Accept
<1>3. t \in Texts(pasted)
  BY <1>1, <1>2, OfferedIs
<1> HIDE DEF t
<1>4. history' \in Texts(pasted) /\ queued' \in Queues(pasted) /\ pastes' \in Seq(Held(pasted))
  BY <1>1, <1>2 DEF EditorType, Queues
<1> QED
  BY <1>2, <1>3, <1>4, LoadStep, SameSent

\* Expanded, the text has the placeholder of no paste that has stayed.
LEMMA ExpandedHasNone ==
  ASSUME EditorInv
  PROVE  /\ Expanded(text) \in Texts(pasted)
         /\ \A n \in kept : n \in Nat /\ Placeholder(n) \notin ToSet(Expanded(text))
         /\ \E K \in SUBSET (1 .. pasted) : kept \subseteq K /\ Expanded(text) = Meaning(text, K)
<1>1. /\ pasted \in Nat /\ pastes \in Seq(Held(pasted)) /\ Neat(text, pasted) /\ KeptIsHeld
  BY DEF EditorInv, EditorType, Texts
<1>2. PICK K : Expands(text, pasted, K)
  BY <1>1, ExpandedIs
<1>3. /\ Expanded(text) = Meaning(text, K) /\ Neat(Expanded(text), pasted) /\ K \in SUBSET (1 .. pasted)
      /\ \A n \in K : Placeholder(n) \notin ToSet(Expanded(text))
      /\ \A p \in ToSet(pastes) : Placeholder(p.number) \in ToSet(text) => p.number \in K
  BY <1>2 DEF Expands
<1>4. \A n \in kept : n \in K /\ n \in Nat
  BY <1>1, <1>3 DEF KeptIsHeld
<1>5. Expanded(text) \in Texts(pasted)
  BY <1>3 DEF Texts, Neat
<1> QED
  BY <1>3, <1>4, <1>5
\* Enter, on a completion, during a compaction, and to hand the text over.
LEMMA CompletesStep == EditorInv /\ EnterCompletes => EditorInv'
<1> SUFFICES ASSUME EditorInv, EnterCompletes PROVE EditorInv'
  OBVIOUS
<1> DEFINE t == Apply(offer[selected], Expanded(text))
<1>1. /\ offer # <<>> /\ Load(t) /\ OffersFor(t) /\ pastes' = <<>>
      /\ UNCHANGED <<pasted, queued, history, handed>>
  BY DEF EnterCompletes
<1>2. EditorType
  BY DEF EditorInv
<1>3. t \in Texts(pasted) /\ \A n \in kept : Placeholder(n) \notin ToSet(t)
  BY <1>1, <1>2, ExpandedHasNone, OfferedIs
<1> HIDE DEF t
<1>4. history' \in Texts(pasted) /\ queued' \in Queues(pasted) /\ pastes' \in Seq(Held(pasted))
  BY <1>1, <1>2 DEF EditorType, Queues
<1> QED
  BY <1>1, <1>3, <1>4, LoadStep, SameSent

LEMMA WaitsStep == EditorInv /\ EnterWaits => EditorInv'
<1> SUFFICES ASSUME EditorInv, EnterWaits PROVE EditorInv'
  OBVIOUS
<1> DEFINE t == Expanded(text)
<1>1. /\ Load(t) /\ pastes' = SyncedPastes(text)
      /\ UNCHANGED <<pasted, offer, selected, queued, history, handed>>
  BY DEF EnterWaits
<1>2. EditorType
  BY DEF EditorInv
<1>3. t \in Texts(pasted) /\ \A n \in kept : Placeholder(n) \notin ToSet(t)
  BY ExpandedHasNone
<1> HIDE DEF t
<1>4. pastes' \in Seq(Held(pasted))
  BY <1>1, <1>2, AmongHas DEF EditorType, SyncedPastes
<1>5. history' \in Texts(pasted) /\ queued' \in Queues(pasted)
  BY <1>1, <1>2 DEF EditorType, Queues
<1> QED
  BY <1>1, <1>3, <1>4, <1>5, LoadStep, SameSent

LEMMA EnterStep ==
  ASSUME EditorInv, NEW which \in {"steer", "followUp"}, SubmitText(which)
  PROVE  EditorInv'
<1> DEFINE t == Expanded(text)
<1>1. /\ Load(<<>>) /\ pastes' = <<>> /\ offer' = <<>> /\ selected' = 1 /\ pasted' = pasted
      /\ handed' = [sent |-> t, screen |-> text, kept |-> kept]
  BY DEF SubmitText
<1>2. /\ history' \in {history, t}
      /\ queued' \in {queued, [queued EXCEPT ![which] = Append(@, t)]}
  BY DEF SubmitText
<1>3. EditorType
  BY DEF EditorInv
<1>4. t \in Texts(pasted) /\ \E K \in SUBSET (1 .. pasted) : kept \subseteq K /\ t = Meaning(text, K)
  BY ExpandedHasNone
<1> HIDE DEF t
<1>5. <<>> \in Texts(pasted) /\ \A n : Placeholder(n) \notin ToSet(<<>>)
  BY EmptyText
<1>6. history' \in Texts(pasted) /\ pastes' \in Seq(Held(pasted))
  BY <1>1, <1>2, <1>3, <1>4 DEF EditorType
<1>7. queued' \in Queues(pasted)
  <2> DEFINE T == Texts(pasted)
             q == queued[which]
  <2>1. queued \in [steer : Seq(T), followUp : Seq(T)]
    BY <1>3 DEF EditorType
  <2>2. q \in Seq(T) /\ t \in T
    BY <1>4, <2>1
  <2> HIDE DEF T
  <2>3. Append(q, t) \in Seq(T)
    BY <2>2
  <2>4. [queued EXCEPT ![which] = Append(q, t)] \in [steer : Seq(T), followUp : Seq(T)]
    BY <2>1, <2>3
  <2> QED
    BY <1>2, <2>1, <2>4 DEF Queues, T
<1>8. Completions(<<>>) = <<>>
  BY DEF Completions
<1>9. OffersFor(<<>>)
  BY <1>1, <1>8 DEF OffersFor
<1>10. SentIsWhole'
  <2>1. PICK K \in SUBSET (1 .. pasted) : kept \subseteq K /\ t = Meaning(text, K)
    BY <1>4
  <2> DEFINE M(x) == Meaning(x, K)
  <2>2. handed'.kept = kept /\ handed'.sent = t /\ handed'.screen = text
    BY <1>1
  <2>3. handed'.kept \subseteq K /\ handed'.sent = M(handed'.screen) /\ K \in SUBSET (1 .. pasted')
    BY <1>1, <2>1, <2>2
  <2> QED
    BY <2>3 DEF SentIsWhole
<1> QED
  BY <1>1, <1>5, <1>6, <1>7, <1>9, <1>10, LoadStep

\* A message is called back, or the last prompt recalled.
LEMMA CallBackStep == EditorInv /\ CallBack => EditorInv'
<1> SUFFICES ASSUME EditorInv, CallBack PROVE EditorInv'
  OBVIOUS
<1> DEFINE T == Texts(pasted)
           k == LatestQueue
           q == queued[k]
           t == Last(q)
<1>1. /\ q # <<>> /\ Load(t) /\ OffersFor(t) /\ queued' = [queued EXCEPT ![k] = Front(q)]
      /\ UNCHANGED <<pastes, pasted, history, handed>>
  BY DEF CallBack
<1>2. /\ k \in {"steer", "followUp"} /\ queued \in [steer : Seq(T), followUp : Seq(T)]
      /\ pastes \in Seq(Held(pasted)) /\ history \in T
  BY DEF LatestQueue, EditorInv, EditorType
<1> HIDE DEF T, k
<1>3. q \in Seq(T)
  BY <1>2
<1>4. t \in T /\ Front(q) \in Seq(T)
  BY <1>1, <1>3 DEF Last, Front
<1>5. queued' \in [steer : Seq(T), followUp : Seq(T)]
  BY <1>1, <1>2, <1>4
<1> HIDE DEF q, t
<1> QED
  BY <1>1, <1>2, <1>4, <1>5, LoadStep, SameSent DEF T, Queues

LEMMA RecallStep == EditorInv /\ Recall => EditorInv'
<1> SUFFICES ASSUME EditorInv, Recall PROVE EditorInv'
  OBVIOUS
<1>1. Load(history) /\ OffersFor(history) /\ UNCHANGED <<pastes, pasted, queued, history, handed>>
  BY DEF Recall
<1>2. history \in Texts(pasted) /\ pastes \in Seq(Held(pasted)) /\ queued \in Queues(pasted)
  BY DEF EditorInv, EditorType, Queues
<1> QED
  BY <1>1, <1>2, LoadStep, SameSent

LEMMA AroundStep == EditorInv /\ Around => EditorInv'
<1> SUFFICES ASSUME EditorInv, Around PROVE EditorInv'
  OBVIOUS
<1>1. /\ queued' \in {queued, [steer |-> <<>>, followUp |-> <<>>]}
      /\ UNCHANGED <<text, pastes, pasted, offer, selected, history, handed, before, kept>>
  BY DEF Around
<1>2. EditorType /\ KeptIsHeld
  BY DEF EditorInv
<1>3. queued' \in Queues(pasted)
  <2> DEFINE Q == Seq(Texts(pasted))
  <2>1. <<>> \in Q /\ queued \in [steer : Q, followUp : Q]
    BY <1>2 DEF EditorType
  <2> HIDE DEF Q
  <2>2. [steer |-> <<>>, followUp |-> <<>>] \in [steer : Q, followUp : Q]
    BY <2>1
  <2> QED
    BY <1>1, <2>1, <2>2 DEF Q, Queues
<1>4. EditorType'
  BY <1>1, <1>2, <1>3 DEF EditorType, Queues
<1>5. KeptIsHeld'
  BY <1>1, <1>2 DEF KeptIsHeld
<1> QED
  BY <1>1, <1>4, <1>5, SameSent DEF EditorInv

LEMMA RestStep == EditorInv /\ UNCHANGED editorVars => EditorInv'
<1> SUFFICES ASSUME EditorInv, UNCHANGED editorVars PROVE EditorInv'
  OBVIOUS
<1>1. UNCHANGED <<text, pastes, pasted, offer, selected, queued, history, handed, before, kept>>
  BY DEF editorVars
<1>2. EditorType' /\ KeptIsHeld'
  BY <1>1 DEF EditorInv, EditorType, KeptIsHeld
<1> QED
  BY <1>1, <1>2, SameSent DEF EditorInv

LEMMA PressStep == EditorInv /\ Press => EditorInv'
<1> SUFFICES ASSUME EditorInv, Press PROVE EditorInv'
  OBVIOUS
<1>1. \A kind \in Typed : Word(kind) \in Plain
  BY EditorAssumption DEF Plain, Words, Sorts, Word
<1>2. <<"file", 1>> \in Plain /\ Word("slash") \in Plain /\ Word("command") \in Plain
  BY DEF Plain, Words, Sorts, Word
<1>3. CASE \E i \in 1 .. Len(text) + 1 : \E kind \in Typed : Insert(Word(kind), i)
  BY <1>1, <1>3, InsertStep
<1>4. CASE \E i \in 1 .. Len(text) + 1 : PasteLarge(i)
  BY <1>4, PasteStep
<1>5. CASE \E i \in 1 .. Len(text) + 1 : Drop(i)
  BY <1>2, <1>5, InsertStep DEF Drop
<1>6. CASE \E i \in 1 .. Len(text) : Delete(i)
  BY <1>6, DeleteStep
<1>7. CASE \E kind \in {"slash", "command"} : PutIn(<<Word(kind)>>)
  BY <1>2, <1>7, PutInStep
<1>8. CASE \E which \in {"steer", "followUp"} : SubmitText(which)
  BY <1>8, EnterStep
<1>9. CASE Undo \/ ClearPrompt \/ Accept
  BY <1>9, UndoStep, ClearStep, AcceptStep
<1>10. CASE EnterCompletes \/ EnterWaits \/ CallBack \/ Recall
  BY <1>10, CompletesStep, WaitsStep, CallBackStep, RecallStep
<1>11. Press => \/ \E i \in 1 .. Len(text) + 1 : \E kind \in Typed : Insert(Word(kind), i)
                \/ \E i \in 1 .. Len(text) + 1 : PasteLarge(i) \/ Drop(i)
                \/ \E i \in 1 .. Len(text) : Delete(i)
                \/ \E kind \in {"slash", "command"} : PutIn(<<Word(kind)>>)
                \/ \E which \in {"steer", "followUp"} : SubmitText(which)
                \/ Undo \/ ClearPrompt \/ Accept \/ Select
                \/ EnterCompletes \/ EnterWaits \/ CallBack \/ Recall
  BY Zenon DEF Press
<1>12. CASE Select
  BY <1>12, SelectItemStep
<1> QED
  BY <1>3, <1>4, <1>5, <1>6, <1>7, <1>8, <1>9, <1>10, <1>11, <1>12

LEMMA EditorStepInv == EditorInv /\ [EditorNext]_editorVars => EditorInv'
BY PressStep, ChangedStep, AroundStep, RestStep DEF EditorNext
-----------------------------------------------------------------------------
(* Rows: what they say, and the last of them that matches *)

Kinds == {"assistant", "thinking"}
SpokenRoles == Kinds \cup {"user", "tool", "error"}
SilentRoles == {"status", "shell"}
Roles == SpokenRoles \cup SilentRoles
Counts == Nat \X Nat
Saying == [role : SpokenRoles, c : Counts]
Unnumbered == [role : Roles, c : Counts]
Items == [id : Nat, role : Roles, c : Counts]
Lines == Items \cup Unnumbered

Face(r) == IF r.role \in SilentRoles THEN <<>> ELSE <<Pair(r.role, r.c[1], r.c[2])>>
Faces(list) == [i \in DOMAIN list |-> Face(list[i])]

LEMMA ConversationFaces ==
  ASSUME NEW list
  PROVE  Conversation(list) = FlattenSeq(Faces(list))
BY DEF Conversation, Faces, Face, SilentRoles

LEMMA FaceIs ==
  ASSUME NEW r \in Lines
  PROVE  /\ r.role \in Roles /\ r.c \in Counts /\ r.c[1] \in Nat /\ r.c[2] \in Nat
         /\ Face(r) \in Seq(Saying)
         /\ r.role \notin SilentRoles => /\ r.role \in SpokenRoles
                                         /\ Pair(r.role, r.c[1], r.c[2]) \in Saying
                                         /\ Face(r) = <<Pair(r.role, r.c[1], r.c[2])>>
         /\ r.role \in SilentRoles => Face(r) = <<>>
<1>1. r.role \in Roles /\ r.c \in Counts
  BY DEF Lines, Items, Unnumbered
<1>2. r.c[1] \in Nat /\ r.c[2] \in Nat
  BY <1>1 DEF Counts
<1>3. r.role \notin SilentRoles => r.role \in SpokenRoles
  BY <1>1 DEF Roles
<1>4. r.role \notin SilentRoles => Pair(r.role, r.c[1], r.c[2]) \in Saying
  BY <1>2, <1>3 DEF Pair, Saying, Counts
<1> QED
  BY <1>1, <1>2, <1>3, <1>4 DEF Face

LEMMA FacesAre ==
  ASSUME NEW list \in Seq(Lines)
  PROVE  /\ Faces(list) \in Seq(Seq(Saying)) /\ Len(Faces(list)) = Len(list)
         /\ \A i \in 1 .. Len(list) : Faces(list)[i] = Face(list[i])
         /\ Conversation(list) \in Seq(Saying)
<1> DEFINE n == Len(list)
<1>1. n \in Nat /\ DOMAIN list = 1 .. n /\ \A i \in 1 .. n : list[i] \in Lines
  OBVIOUS
<1> HIDE DEF n
<1>2. Faces(list) = [i \in 1 .. n |-> Face(list[i])]
  BY <1>1 DEF Faces
<1>3. \A i \in 1 .. n : Face(list[i]) \in Seq(Saying)
  BY <1>1, FaceIs
<1>4. Faces(list) \in [1 .. n -> Seq(Saying)]
  BY <1>2, <1>3
<1>5. Faces(list) \in Seq(Seq(Saying)) /\ Len(Faces(list)) = n
  BY <1>1, <1>4
<1>6. Conversation(list) \in Seq(Saying)
  BY <1>5, ConversationFaces, FlattenPlaces
<1> QED
  BY <1>2, <1>5, <1>6 DEF n

\* What two lists of rows say, one after the other.
LEMMA ConversationConcat ==
  ASSUME NEW a \in Seq(Lines), NEW b \in Seq(Lines)
  PROVE  /\ Conversation(a \o b) = Conversation(a) \o Conversation(b)
         /\ a \o b \in Seq(Lines)
<1> DEFINE fa == Faces(a)
           fb == Faces(b)
           d == a \o b
           fd == Faces(d)
<1>1. /\ d \in Seq(Lines) /\ Len(d) = Len(a) + Len(b) /\ Len(a) \in Nat /\ Len(b) \in Nat
      /\ \A i \in 1 .. Len(a) : d[i] = a[i]
      /\ \A i \in 1 .. Len(b) : d[Len(a) + i] = b[i]
  BY Members
<1>2. /\ fa \in Seq(Seq(Saying)) /\ Len(fa) = Len(a) /\ \A i \in 1 .. Len(a) : fa[i] = Face(a[i])
      /\ fb \in Seq(Seq(Saying)) /\ Len(fb) = Len(b) /\ \A i \in 1 .. Len(b) : fb[i] = Face(b[i])
  BY FacesAre
<1>3. fd \in Seq(Seq(Saying)) /\ Len(fd) = Len(d) /\ \A i \in 1 .. Len(d) : fd[i] = Face(d[i])
  BY <1>1, FacesAre
<1> HIDE DEF fa, fb, d, fd
<1>4. /\ fa \o fb \in Seq(Seq(Saying)) /\ Len(fa \o fb) = Len(fa) + Len(fb)
      /\ \A i \in 1 .. Len(fa) : (fa \o fb)[i] = fa[i]
      /\ \A i \in 1 .. Len(fb) : (fa \o fb)[Len(fa) + i] = fb[i]
  <2>1. fa \in Seq(Seq(Saying)) /\ fb \in Seq(Seq(Saying))
    BY <1>2
  <2> QED
    BY <2>1, Members
<1> DEFINE both == fa \o fb
<1> HIDE DEF both
<1>5. ASSUME NEW i \in 1 .. Len(d) PROVE both[i] = fd[i]
  <2>1. CASE i <= Len(a)
    <3>1. i \in 1 .. Len(a)
      BY <1>1, <2>1
    <3> QED
      BY <1>1, <1>2, <1>3, <1>4, <3>1 DEF both
  <2>2. CASE ~(i <= Len(a))
    <3> DEFINE j == i - Len(a)
    <3>1. j \in 1 .. Len(b) /\ i = Len(a) + j
      BY <1>1, <2>2
    <3> HIDE DEF j
    <3>2. both[i] = fb[j]
      BY <1>2, <1>4, <3>1 DEF both
    <3>3. fd[i] = Face(b[j])
      BY <1>1, <1>3, <3>1
    <3> QED
      BY <1>2, <3>1, <3>2, <3>3
  <2> QED
    BY <2>1, <2>2
<1>6. both \in Seq(Seq(Saying)) /\ Len(both) = Len(fd)
  BY <1>1, <1>2, <1>3, <1>4 DEF both
<1>7. both = fd
  BY <1>1, <1>3, <1>5, <1>6, SeqEqual
<1>8. FlattenSeq(both) = FlattenSeq(fa) \o FlattenSeq(fb)
  BY <1>2, FlattenConcat DEF both
<1> QED
  BY <1>1, <1>7, <1>8, ConversationFaces DEF fa, fb, fd, d

LEMMA ConversationNone == Conversation(<<>>) = <<>>
<1>1. <<>> \in Seq(Lines)
  OBVIOUS
<1>2. Faces(<<>>) \in Seq(Seq(Saying)) /\ Len(Faces(<<>>)) = 0
  BY <1>1, FacesAre
<1>3. Faces(<<>>) = <<>>
  BY <1>2
<1>4. <<>> \in Seq(Seq(Saying)) /\ Len(<<>>) = 0
  OBVIOUS
<1> DEFINE g == [k \in {0} |-> <<>>]
<1>5. g[0] = <<>> /\ \A k \in 0 .. 0 - 1 : g[k + 1] = g[k] \o <<>>[k + 1]
  OBVIOUS
<1> HIDE DEF g
<1>6. PICK f : Builds(f, Saying, <<>>)
  BY <1>4, FlattenBuilds
<1> QED
  BY <1>3, <1>6, ConversationFaces DEF Builds

LEMMA ConversationOne ==
  ASSUME NEW r \in Lines
  PROVE  Conversation(<<r>>) = Face(r) /\ <<r>> \in Seq(Lines)
<1> DEFINE s == <<r>>
<1>1. s \in Seq(Lines) /\ Len(s) = 1 /\ s[1] = r
  OBVIOUS
<1>2. Faces(s) \in Seq(Seq(Saying)) /\ Len(Faces(s)) = 1 /\ Faces(s)[1] = Face(r)
  <2>1. /\ Faces(s) \in Seq(Seq(Saying)) /\ Len(Faces(s)) = Len(s)
        /\ \A i \in 1 .. Len(s) : Faces(s)[i] = Face(s[i])
    <3> HIDE DEF s
    <3> QED
      BY <1>1, FacesAre
  <2> HIDE DEF s
  <2> QED
    BY <1>1, <2>1
<1> DEFINE t == Faces(s)
<1> HIDE DEF t
<1>3. FlattenSeq(t) = t[1]
  <2> DEFINE p == 1
  <2>1. t \in Seq(Seq(Saying)) /\ p \in 1 .. Len(t) /\ \A q \in 1 .. Len(t) : q # p => t[q] = <<>>
    BY <1>2 DEF t
  <2> HIDE DEF p
  <2>2. FlattenSeq(t) = t[p]
    BY <2>1, FlattenOne
  <2> QED
    BY <2>2 DEF p
<1> QED
  BY <1>1, <1>2, <1>3, ConversationFaces DEF t

\* A list of spoken lines says itself.
LEMMA ConversationSame ==
  ASSUME NEW s \in Seq(Saying)
  PROVE  Conversation(s) = s /\ s \in Seq(Lines)
<1> DEFINE n == Len(s)
           fs == Faces(s)
<1>1. n \in Nat /\ \A i \in 1 .. n : s[i] \in Saying
  OBVIOUS
<1>2. Saying \subseteq Lines /\ \A r \in Saying : r.role \notin SilentRoles
  BY DEF Saying, Lines, Unnumbered, Roles, SilentRoles, SpokenRoles, Kinds
<1>3. \A r \in Saying : Face(r) = <<r>>
  <2> SUFFICES ASSUME NEW r \in Saying PROVE Face(r) = <<r>>
    OBVIOUS
  <2>1. r.role \in SpokenRoles /\ r.c \in Nat \X Nat /\ r = [role |-> r.role, c |-> r.c]
    BY DEF Saying, Counts
  <2>2. r.c = <<r.c[1], r.c[2]>>
    BY <2>1
  <2>3. Pair(r.role, r.c[1], r.c[2]) = r
    BY <2>1, <2>2 DEF Pair
  <2> QED
    BY <1>2, <2>3 DEF Face
<1>4. s \in Seq(Lines)
  BY <1>2
<1>5. fs \in Seq(Seq(Saying)) /\ Len(fs) = n /\ \A i \in 1 .. n : fs[i] = <<s[i]>>
  <2>1. fs \in Seq(Seq(Saying)) /\ Len(fs) = Len(s) /\ \A i \in 1 .. Len(s) : fs[i] = Face(s[i])
    BY <1>4, FacesAre
  <2> QED
    BY <1>1, <1>3, <2>1
<1> DEFINE g == [k \in 0 .. n |-> SubSeq(s, 1, k)]
<1> HIDE DEF fs
<1>6. g[0] = <<>> /\ g[n] = s
  BY <1>1
<1>7. \A k \in 0 .. Len(fs) - 1 : g[k + 1] = g[k] \o fs[k + 1]
  <2> SUFFICES ASSUME NEW k \in 0 .. Len(fs) - 1 PROVE g[k + 1] = g[k] \o fs[k + 1]
    OBVIOUS
  <2>1. k \in Nat /\ k + 1 \in 1 .. n /\ k + 1 \in 0 .. n /\ k \in 0 .. n
    BY <1>1, <1>5
  <2>2. g[k + 1] = SubSeq(s, 1, k + 1) /\ g[k] = SubSeq(s, 1, k)
    BY <2>1
  <2>3. SubSeq(s, 1, k + 1) = SubSeq(s, 1, k) \o <<s[k + 1]>>
    BY <2>1, <1>1
  <2> QED
    BY <1>5, <2>1, <2>2, <2>3
<1>8. FlattenSeq(fs) = g[Len(fs)]
  <2> HIDE DEF g
  <2> QED
    BY <1>5, <1>6, <1>7, FlattenIs
<1> QED
  BY <1>4, <1>5, <1>6, <1>8, ConversationFaces DEF fs

\* Rows that are added say what they were made of.
LEMMA RowsAdded ==
  ASSUME NEW list \in Seq(Items), NEW first \in Nat, NEW new \in Seq(Unnumbered)
  PROVE  /\ AddTo(list, first, new) \in Seq(Items)
         /\ Len(AddTo(list, first, new)) = Len(list) + Len(new)
         /\ \A i \in 1 .. Len(list) : AddTo(list, first, new)[i] = list[i]
         /\ \A i \in 1 .. Len(new) : AddTo(list, first, new)[Len(list) + i].role = new[i].role
         /\ Conversation(AddTo(list, first, new)) = Conversation(list) \o Conversation(new)
<1> DEFINE n == Len(new)
           tail == [i \in DOMAIN new |-> Row(first + i, new[i].role, new[i].c)]
<1>1. n \in Nat /\ DOMAIN new = 1 .. n /\ \A i \in 1 .. n : new[i] \in Unnumbered
  OBVIOUS
<1>2. \A i \in 1 .. n : Row(first + i, new[i].role, new[i].c) \in Items
  <2> SUFFICES ASSUME NEW i \in 1 .. n PROVE Row(first + i, new[i].role, new[i].c) \in Items
    OBVIOUS
  <2>1. new[i].role \in Roles /\ new[i].c \in Counts /\ first + i \in Nat
    BY <1>1 DEF Unnumbered
  <2> QED
    BY <2>1 DEF Row, Items
<1> HIDE DEF n
<1>3. tail \in [1 .. n -> Items]
  BY <1>1, <1>2
<1>4. tail \in Seq(Items) /\ Len(tail) = n
  BY <1>1, <1>3
<1>5. \A i \in 1 .. n : tail[i].role = new[i].role /\ tail[i].c = new[i].c
  BY <1>1 DEF Row
<1>6. AddTo(list, first, new) = list \o tail
  BY DEF AddTo
<1>7. Faces(tail) = Faces(new)
  <2>1. Faces(tail) = [i \in 1 .. n |-> Face(tail[i])]
    BY <1>1 DEF Faces
  <2>2. Faces(new) = [i \in 1 .. n |-> Face(new[i])]
    BY <1>1 DEF Faces
  <2> HIDE DEF tail
  <2>3. \A i \in 1 .. n : Face(tail[i]) = Face(new[i])
    BY <1>5 DEF Face
  <2> QED
    BY <2>1, <2>2, <2>3
<1>8. Conversation(tail) = Conversation(new)
  BY <1>7, ConversationFaces
<1> HIDE DEF tail
<1>9. list \in Seq(Lines) /\ tail \in Seq(Lines)
  <2>1. Items \subseteq Lines
    BY DEF Lines
  <2> QED
    BY <1>4, <2>1
<1>10. Conversation(list \o tail) = Conversation(list) \o Conversation(tail)
  BY <1>9, ConversationConcat
<1>11. /\ list \o tail \in Seq(Items) /\ Len(list \o tail) = Len(list) + Len(tail)
       /\ \A i \in 1 .. Len(list) : (list \o tail)[i] = list[i]
       /\ \A i \in 1 .. Len(tail) : (list \o tail)[Len(list) + i] = tail[i]
  BY <1>4, Members
<1> QED
  BY <1>4, <1>5, <1>6, <1>8, <1>10, <1>11 DEF n

\* Of a row only its content is ever changed.
Recounted(list, p, c) == [list EXCEPT ![p].c = c]

OfRows(L) == L = Items \/ L = Unnumbered

IsRecount(new, list, p, c) ==
  /\ Len(new) = Len(list)
  /\ \A i \in 1 .. Len(list) : i # p => new[i] = list[i]
  /\ \A i \in 1 .. Len(list) : new[i].role = list[i].role
  /\ new[p].c = c

LEMMA RecountedIs ==
  ASSUME NEW L, OfRows(L), NEW list \in Seq(L), NEW p \in 1 .. Len(list),
         NEW c \in Counts
  PROVE  Recounted(list, p, c) \in Seq(L) /\ IsRecount(Recounted(list, p, c), list, p, c)
<1> DEFINE n == Len(list)
<1>1. n \in Nat /\ list \in [1 .. n -> L] /\ p \in 1 .. n
  OBVIOUS
<1> HIDE DEF n
<1>2. [list[p] EXCEPT !.c = c] \in L /\ [list[p] EXCEPT !.c = c].role = list[p].role /\ [list[p] EXCEPT !.c = c].c = c
  <2>1. list[p] \in L
    BY <1>1
  <2>2. CASE L = Items
    BY <2>1, <2>2 DEF Items
  <2>3. CASE L = Unnumbered
    BY <2>1, <2>3 DEF Unnumbered
  <2> QED
    BY <2>2, <2>3 DEF OfRows
<1> DEFINE e == [list[p] EXCEPT !.c = c]
<1>3. Recounted(list, p, c) = [list EXCEPT ![p] = e]
  BY DEF Recounted
<1> HIDE DEF e
<1>4. [list EXCEPT ![p] = e] \in [1 .. n -> L]
  BY <1>1, <1>2 DEF e
<1>5. [list EXCEPT ![p] = e] \in Seq(L) /\ Len([list EXCEPT ![p] = e]) = n
  BY <1>1, <1>4
<1>6. [list EXCEPT ![p] = e][p] = e /\ \A i \in 1 .. n : i # p => [list EXCEPT ![p] = e][i] = list[i]
  BY <1>1
<1> QED
  BY <1>1, <1>2, <1>3, <1>5, <1>6 DEF n, e, IsRecount

\* Changing a silent row changes nothing of what is said.
LEMMA SilentChange ==
  ASSUME NEW list \in Seq(Items), NEW p \in 1 .. Len(list), NEW c \in Counts,
         list[p].role \in SilentRoles
  PROVE  Conversation(Recounted(list, p, c)) = Conversation(list)
<1> DEFINE new == Recounted(list, p, c)
<1>1. /\ new \in Seq(Items) /\ Len(new) = Len(list)
      /\ \A i \in 1 .. Len(list) : i # p => new[i] = list[i]
      /\ new[p].role = list[p].role
  <2> DEFINE L == Items
  <2>1. OfRows(L) /\ list \in Seq(L)
    BY DEF OfRows
  <2> HIDE DEF L
  <2>2. new \in Seq(L) /\ IsRecount(new, list, p, c)
    BY <2>1, RecountedIs
  <2> QED
    BY <2>2 DEF L, IsRecount
<1> HIDE DEF new
<1>2. DOMAIN new = 1 .. Len(list) /\ DOMAIN list = 1 .. Len(list)
  BY <1>1
<1>3. \A i \in 1 .. Len(list) : Face(new[i]) = Face(list[i])
  BY <1>1 DEF Face
<1>4. Faces(new) = Faces(list)
  BY <1>2, <1>3 DEF Faces
<1> QED
  BY <1>4, ConversationFaces DEF new
\* The last row of a role and a number, as the code looks for it.
Matches(r, role, n) == r.role = role /\ r.c[1] = n
LastOf(list, role, n) == SelectLastInSeq(list, LAMBDA r : r.role = role /\ r.c[1] = n)
Free(list, role, n) == \A i \in 1 .. Len(list) : ~Matches(list[i], role, n)
IsLast(list, role, n, p) ==
  /\ p \in 1 .. Len(list) /\ Matches(list[p], role, n)
  /\ \A i \in 1 .. Len(list) : i > p => ~Matches(list[i], role, n)

LEMMA LastOfIs ==
  ASSUME NEW L, NEW list \in Seq(L), NEW role, NEW n
  PROVE  /\ Free(list, role, n) => LastOf(list, role, n) = 0
         /\ ~Free(list, role, n) => IsLast(list, role, n, LastOf(list, role, n))
         /\ \A p : IsLast(list, role, n, p) => LastOf(list, role, n) = p
<1> DEFINE I == {i \in 1 .. Len(list) : Matches(list[i], role, n)}
           m == Len(list)
<1>1. m \in Nat /\ I \in SUBSET Nat /\ \A k \in I : k <= m
  OBVIOUS
<1>2. LastOf(list, role, n) = IF I # {} THEN CHOOSE x \in I : \A y \in I : x >= y ELSE 0
  BY DEF LastOf, SelectLastInSeq, Max, Matches
<1>3. Free(list, role, n) <=> I = {}
  BY DEF Free
<1>4. ASSUME I # {} PROVE IsLast(list, role, n, LastOf(list, role, n))
  <2> HIDE DEF I, m
  <2>1. PICK x \in I : \A k \in I : k <= x
    BY <1>1, <1>4, GreatestNumber
  <2>2. \A k \in I : x >= k
    BY <1>1, <2>1
  <2> DEFINE z == LastOf(list, role, n)
  <2>3. z \in I /\ \A y \in I : z >= y
    BY <1>2, <1>4, <2>2
  <2> HIDE DEF z
  <2>4. \A i \in 1 .. Len(list) : i > z => i \notin I
    BY <1>1, <2>3
  <2> QED
    BY <2>3, <2>4 DEF IsLast, I, z
<1>5. ASSUME NEW p, IsLast(list, role, n, p) PROVE LastOf(list, role, n) = p
  <2>1. p \in I
    BY <1>5 DEF IsLast
  <2> DEFINE z == LastOf(list, role, n)
  <2>2. z \in I /\ IsLast(list, role, n, z)
    BY <1>4, <2>1 DEF IsLast
  <2> HIDE DEF z
  <2>3. p \in Nat /\ z \in Nat /\ ~(z > p) /\ ~(p > z)
    BY <1>5, <2>1, <2>2 DEF IsLast
  <2> QED
    BY <2>3 DEF z
<1> QED
  BY <1>2, <1>3, <1>4, <1>5

\* What is free of a line says nothing of it.
LEMMA FreeSays ==
  ASSUME NEW list \in Seq(Lines), NEW role, NEW n, Free(list, role, n)
  PROVE  Free(Conversation(list), role, n)
<1> DEFINE S == {s \in Saying : ~Matches(s, role, n)}
           fs == Faces(list)
<1>1. fs \in Seq(Seq(Saying)) /\ Len(fs) = Len(list) /\ \A i \in 1 .. Len(list) : fs[i] = Face(list[i])
  BY FacesAre
<1>2. ASSUME NEW i \in 1 .. Len(list) PROVE Face(list[i]) \in Seq(S)
  <2> DEFINE r == list[i]
  <2>1. r \in Lines /\ ~Matches(r, role, n)
    BY DEF Free
  <2> HIDE DEF r
  <2> DEFINE e == Pair(r.role, r.c[1], r.c[2])
  <2>2. CASE r.role \in SilentRoles
    BY <2>1, <2>2, FaceIs DEF r
  <2>3. CASE r.role \notin SilentRoles
    <3>1. e \in Saying /\ Face(r) = <<e>>
      BY <2>1, <2>3, FaceIs
    <3>2. ~Matches(e, role, n)
      BY <2>1 DEF Matches, Pair
    <3> HIDE DEF e
    <3>3. e \in S
      BY <3>1, <3>2
    <3> HIDE DEF S
    <3> QED
      BY <3>1, <3>3 DEF r
  <2> QED
    BY <2>2, <2>3
<1>3. fs \in Seq(Seq(S))
  <2> DEFINE m == Len(list)
  <2>1. m \in Nat /\ fs \in [1 .. m -> Seq(Saying)]
    BY <1>1
  <2> HIDE DEF m, S, fs
  <2>2. fs \in [1 .. m -> Seq(S)]
    BY <1>1, <1>2, <2>1 DEF m
  <2> QED
    BY <2>1, <2>2
<1> HIDE DEF fs
<1> DEFINE t == Conversation(list)
<1>4. t \in Seq(S)
  <2> HIDE DEF S
  <2> QED
    BY <1>3, FlattenPlaces, ConversationFaces DEF fs
<1> HIDE DEF t
<1>5. \A i \in 1 .. Len(t) : t[i] \in S
  <2> HIDE DEF S
  <2> QED
    BY <1>4
<1> QED
  BY <1>5 DEF Free, t

\* Three parts of a list, of which the middle is one element.
Amid(a, e, b) == (a \o <<e>>) \o b

InParts(u, a, e, b) ==
  /\ Len(u) = Len(a) + 1 + Len(b)
  /\ \A i \in 1 .. Len(a) : u[i] = a[i]
  /\ u[Len(a) + 1] = e
  /\ \A i \in 1 .. Len(b) : u[Len(a) + 1 + i] = b[i]

LEMMA AmidIs ==
  ASSUME NEW T, NEW a \in Seq(T), NEW e \in T, NEW b \in Seq(T)
  PROVE  Amid(a, e, b) \in Seq(T) /\ InParts(Amid(a, e, b), a, e, b)
<1> DEFINE d == a \o <<e>>
           o == <<e>>
<1>1. o \in Seq(T) /\ Len(o) = 1 /\ o[1] = e
  OBVIOUS
<1> HIDE DEF o
<1>2. /\ d \in Seq(T) /\ Len(d) = Len(a) + 1
      /\ \A i \in 1 .. Len(a) : d[i] = a[i]
      /\ d[Len(a) + 1] = e
  <2>0. o \in Seq(T) /\ Len(a) \in Nat
    BY <1>1
  <2>1. /\ a \o o \in Seq(T) /\ Len(a \o o) = Len(a) + Len(o)
        /\ \A i \in 1 .. Len(a) : (a \o o)[i] = a[i]
        /\ \A i \in 1 .. Len(o) : (a \o o)[Len(a) + i] = o[i]
    BY <2>0, Members
  <2> QED
    BY <1>1, <2>1 DEF o
<1> HIDE DEF d
<1>3. /\ d \o b \in Seq(T) /\ Len(d \o b) = Len(d) + Len(b) /\ Len(a) \in Nat /\ Len(b) \in Nat
      /\ \A i \in 1 .. Len(d) : (d \o b)[i] = d[i]
      /\ \A i \in 1 .. Len(b) : (d \o b)[Len(d) + i] = b[i]
  <2>1. Len(a) \in Nat /\ Len(b) \in Nat /\ d \in Seq(T)
    BY <1>2
  <2> QED
    BY <2>1, Members
<1>4. Amid(a, e, b) = d \o b
  BY DEF Amid, d
<1> QED
  BY <1>2, <1>3, <1>4 DEF InParts

\* The last match is at one place only.
LEMMA LastUnique ==
  ASSUME NEW a \in Seq(Saying), NEW e \in Saying, NEW b \in Seq(Saying),
         NEW x \in Seq(Saying), NEW f \in Saying, NEW y \in Seq(Saying),
         Amid(a, e, b) = Amid(x, f, y), NEW role, NEW n,
         Matches(e, role, n), Matches(f, role, n), Free(b, role, n), Free(y, role, n)
  PROVE  a = x /\ b = y
<1> DEFINE u == Amid(a, e, b)
           v == Amid(x, f, y)
<1>1. /\ u \in Seq(Saying) /\ Len(u) = Len(a) + 1 + Len(b)
      /\ \A i \in 1 .. Len(a) : u[i] = a[i]
      /\ u[Len(a) + 1] = e
      /\ \A i \in 1 .. Len(b) : u[Len(a) + 1 + i] = b[i]
  <2>1. u \in Seq(Saying) /\ InParts(u, a, e, b)
    BY AmidIs
  <2> QED
    BY <2>1 DEF InParts
<1>2. /\ v \in Seq(Saying) /\ Len(v) = Len(x) + 1 + Len(y)
      /\ \A i \in 1 .. Len(x) : v[i] = x[i]
      /\ v[Len(x) + 1] = f
      /\ \A i \in 1 .. Len(y) : v[Len(x) + 1 + i] = y[i]
  <2>1. v \in Seq(Saying) /\ InParts(v, x, f, y)
    BY AmidIs
  <2> QED
    BY <2>1 DEF InParts
<1>3. u = v /\ Len(a) \in Nat /\ Len(b) \in Nat /\ Len(x) \in Nat /\ Len(y) \in Nat
  OBVIOUS
<1> HIDE DEF u, v
<1>4. ~(Len(a) < Len(x))
  <2> SUFFICES ASSUME Len(a) < Len(x) PROVE FALSE
    OBVIOUS
  <2> DEFINE i == Len(x) - Len(a)
  <2>1. i \in 1 .. Len(b) /\ Len(a) + 1 + i = Len(x) + 1
    BY <1>1, <1>2, <1>3
  <2> HIDE DEF i
  <2>2. b[i] = f
    BY <1>1, <1>2, <1>3, <2>1
  <2> QED
    BY <2>1, <2>2 DEF Free
<1>5. ~(Len(x) < Len(a))
  <2> SUFFICES ASSUME Len(x) < Len(a) PROVE FALSE
    OBVIOUS
  <2> DEFINE i == Len(a) - Len(x)
  <2>1. i \in 1 .. Len(y) /\ Len(x) + 1 + i = Len(a) + 1
    BY <1>1, <1>2, <1>3
  <2> HIDE DEF i
  <2>2. y[i] = e
    BY <1>1, <1>2, <1>3, <2>1
  <2> QED
    BY <2>1, <2>2 DEF Free
<1>6. Len(a) = Len(x) /\ Len(b) = Len(y)
  BY <1>1, <1>2, <1>3, <1>4, <1>5
<1>7. \A i \in 1 .. Len(a) : a[i] = x[i]
  BY <1>1, <1>2, <1>3, <1>6
<1>8. \A i \in 1 .. Len(b) : b[i] = y[i]
  BY <1>1, <1>2, <1>3, <1>6
<1> QED
  BY <1>6, <1>7, <1>8, SeqEqual
LEMMA PartsEqual ==
  ASSUME NEW T, NEW u \in Seq(T), NEW a \in Seq(T), NEW e \in T, NEW b \in Seq(T), InParts(u, a, e, b)
  PROVE  u = Amid(a, e, b)
<1> DEFINE v == Amid(a, e, b)
<1>1. v \in Seq(T) /\ InParts(v, a, e, b)
  BY AmidIs
<1> HIDE DEF v
<1>2. Len(u) = Len(v) /\ Len(u) = Len(a) + 1 + Len(b) /\ Len(a) \in Nat /\ Len(b) \in Nat
  BY <1>1 DEF InParts
<1>3. ASSUME NEW i \in 1 .. Len(u) PROVE u[i] = v[i]
  <2>1. CASE i \in 1 .. Len(a)
    BY <1>1, <2>1 DEF InParts
  <2>2. CASE i = Len(a) + 1
    BY <1>1, <2>2 DEF InParts
  <2>3. CASE i \notin 1 .. Len(a) /\ i # Len(a) + 1
    <3> DEFINE j == i - (Len(a) + 1)
    <3>1. j \in 1 .. Len(b) /\ i = Len(a) + 1 + j
      BY <1>2, <2>3
    <3> HIDE DEF j
    <3> QED
      BY <1>1, <3>1 DEF InParts
  <2> QED
    BY <2>1, <2>2, <2>3
<1> QED
  BY <1>1, <1>2, <1>3, SeqEqual DEF v

LEMMA SplitAt ==
  ASSUME NEW T, NEW list \in Seq(T), NEW p \in 1 .. Len(list)
  PROVE  \E a, b \in Seq(T) : /\ Len(a) = p - 1 /\ list = Amid(a, list[p], b)
                              /\ \A i \in 1 .. Len(b) : p + i \in 1 .. Len(list) /\ b[i] = list[p + i]
<1> DEFINE n == Len(list)
           a == SubSeq(list, 1, p - 1)
           b == SubSeq(list, p + 1, n)
<1>1. n \in Nat /\ p \in 1 .. n /\ \A i \in 1 .. n : list[i] \in T
  OBVIOUS
<1>2. a \in Seq(T) /\ Len(a) = p - 1 /\ \A i \in 1 .. p - 1 : a[i] = list[i]
  <2> HIDE DEF n
  <2>1. 1 .. p - 1 \subseteq 1 .. n
    BY <1>1
  <2>2. \A i \in 1 .. p - 1 : list[i] \in T
    BY <1>1, <2>1
  <2> QED
    BY <1>1, <2>2, SubSeqProperties DEF n
<1>3. b \in Seq(T) /\ Len(b) = n - p /\ \A i \in 1 .. n - p : b[i] = list[p + i]
  <2>1. p + 1 \in 1 .. n + 1
    BY <1>1
  <2>2. b \in Seq(T)
    BY <1>1, <2>1
  <2>3. Len(b) = n - p
    BY <1>1, <2>1
  <2>4. \A i \in 1 .. n - p : b[i] = list[p + i]
    BY <1>1, <2>1
  <2> QED
    BY <2>2, <2>3, <2>4
<1> HIDE DEF a, b
<1>4. \A i \in 1 .. Len(b) : p + i \in 1 .. n /\ b[i] = list[p + i]
  <2> HIDE DEF n
  <2> QED
    BY <1>1, <1>3
<1>5. InParts(list, a, list[p], b)
  <2>1. Len(list) = Len(a) + 1 + Len(b)
    <3> HIDE DEF n
    <3>1. n = (p - 1) + 1 + (n - p)
      BY <1>1
    <3> QED
      BY <1>2, <1>3, <3>1 DEF n
  <2>2. \A i \in 1 .. Len(a) : list[i] = a[i]
    BY <1>2
  <2>3. Len(a) + 1 = p
    BY <1>1, <1>2
  <2> QED
    BY <1>4, <2>1, <2>2, <2>3 DEF InParts
<1>6. list = Amid(a, list[p], b)
  <2>1. list[p] \in T
    BY <1>1
  <2> DEFINE e == list[p]
  <2> HIDE DEF e
  <2> QED
    BY <1>2, <1>3, <1>5, <2>1, PartsEqual DEF e
<1> QED
  BY <1>2, <1>3, <1>4, <1>6 DEF n

LEMMA RecountedAmid ==
  ASSUME NEW L, OfRows(L), NEW a \in Seq(L), NEW e \in L, NEW b \in Seq(L), NEW c \in Counts
  PROVE  \E f \in L : /\ f.role = e.role /\ f.c = c
                      /\ Recounted(Amid(a, e, b), Len(a) + 1, c) = Amid(a, f, b)
<1> DEFINE u == Amid(a, e, b)
           p == Len(a) + 1
           v == Recounted(u, p, c)
<1>1. u \in Seq(L) /\ InParts(u, a, e, b)
  BY AmidIs
<1> HIDE DEF u
<1>2. p \in 1 .. Len(u) /\ Len(a) \in Nat /\ Len(b) \in Nat /\ Len(u) = Len(a) + 1 + Len(b)
  BY <1>1 DEF InParts
<1> HIDE DEF p
<1>3. /\ v \in Seq(L) /\ Len(v) = Len(u)
      /\ \A i \in 1 .. Len(u) : i # p => v[i] = u[i]
      /\ \A i \in 1 .. Len(u) : v[i].role = u[i].role
      /\ v[p].c = c
  <2>1. v \in Seq(L) /\ IsRecount(v, u, p, c)
    BY <1>1, <1>2, RecountedIs
  <2> QED
    BY <2>1 DEF IsRecount
<1> HIDE DEF v
<1>4. v[p] \in L /\ v[p].role = e.role
  BY <1>1, <1>2, <1>3 DEF InParts, p
<1>5. InParts(v, a, v[p], b)
  <2>1. \A i \in 1 .. Len(a) : i \in 1 .. Len(u) /\ i # p
    BY <1>2 DEF p
  <2>2. \A i \in 1 .. Len(b) : p + i \in 1 .. Len(u) /\ p + i # p
    BY <1>2 DEF p
  <2> QED
    BY <1>1, <1>2, <1>3, <2>1, <2>2 DEF InParts, p
<1> DEFINE f == v[p]
<1> HIDE DEF f
<1>6. v = Amid(a, f, b)
  BY <1>3, <1>4, <1>5, PartsEqual DEF f
<1> QED
  BY <1>3, <1>4, <1>6 DEF f, u, p, v

LEMMA ConversationAmid ==
  ASSUME NEW a \in Seq(Lines), NEW r \in Lines, NEW b \in Seq(Lines), r.role \notin SilentRoles
  PROVE  Conversation(Amid(a, r, b)) = Amid(Conversation(a), Pair(r.role, r.c[1], r.c[2]), Conversation(b))
<1> DEFINE o == <<r>>
           d == a \o o
<1>1. o \in Seq(Lines) /\ Conversation(o) = <<Pair(r.role, r.c[1], r.c[2])>>
  <2>1. Conversation(<<r>>) = Face(r) /\ <<r>> \in Seq(Lines)
    BY ConversationOne
  <2> QED
    BY <2>1, FaceIs
<1> HIDE DEF o
<1>2. Conversation(d) = Conversation(a) \o Conversation(o) /\ d \in Seq(Lines)
  BY <1>1, ConversationConcat
<1> HIDE DEF d
<1>3. Conversation(d \o b) = Conversation(d) \o Conversation(b)
  BY <1>2, ConversationConcat
<1> QED
  BY <1>1, <1>2, <1>3 DEF Amid, d, o

\* Changing the last row that matches changes what is said there, and nothing else.
LEMMA LastChange ==
  ASSUME NEW list \in Seq(Items), NEW u \in Seq(Saying), NEW e \in Saying, NEW v \in Seq(Saying),
         Conversation(list) = Amid(u, e, v), NEW role \in SpokenRoles, NEW n \in Nat, NEW c \in Counts,
         Matches(e, role, n), Free(v, role, n)
  PROVE  /\ LastOf(list, role, n) \in 1 .. Len(list)
         /\ list[LastOf(list, role, n)].role = role
         /\ Conversation(Recounted(list, LastOf(list, role, n), c)) = Amid(u, Pair(role, c[1], c[2]), v)
<1>0. list \in Seq(Lines) /\ Items \subseteq Lines
  BY DEF Lines
<1>1. ~Free(list, role, n)
  <2> DEFINE w == Amid(u, e, v)
  <2>1. w \in Seq(Saying) /\ InParts(w, u, e, v)
    BY AmidIs
  <2>2. Free(list, role, n) => Free(w, role, n)
    BY <1>0, FreeSays
  <2> HIDE DEF w
  <2> DEFINE k == Len(u) + 1
  <2>3. w[k] = e /\ k \in 1 .. Len(w)
    BY <2>1 DEF InParts
  <2> HIDE DEF k
  <2>4. ~Free(w, role, n)
    BY <2>3 DEF Free
  <2> QED
    BY <2>2, <2>4
<1> DEFINE p == LastOf(list, role, n)
<1>2. IsLast(list, role, n, p)
  BY <1>1, LastOfIs
<1> HIDE DEF p
<1>3. p \in 1 .. Len(list) /\ Matches(list[p], role, n)
  BY <1>2 DEF IsLast
<1>4. PICK a \in Seq(Items), b \in Seq(Items) :
        /\ Len(a) = p - 1 /\ list = Amid(a, list[p], b)
        /\ \A i \in 1 .. Len(b) : p + i \in 1 .. Len(list) /\ b[i] = list[p + i]
  BY <1>3, SplitAt
<1> DEFINE r == list[p]
<1>5. r \in Items /\ r \in Lines /\ r.role = role /\ r.c[1] = n /\ r.role \notin SilentRoles
  <2>1. r \in Items
    BY <1>3
  <2> QED
    BY <1>0, <1>3, <2>1 DEF Matches, SpokenRoles, SilentRoles, Kinds
<1> HIDE DEF r
<1>6. list = Amid(a, r, b) /\ p = Len(a) + 1 /\ a \in Seq(Lines) /\ b \in Seq(Lines)
  BY <1>0, <1>3, <1>4 DEF r
<1>7. Free(b, role, n)
  <2> SUFFICES ASSUME NEW i \in 1 .. Len(b) PROVE ~Matches(b[i], role, n)
    BY DEF Free
  <2>1. p + i \in 1 .. Len(list) /\ b[i] = list[p + i] /\ p + i > p
    BY <1>3, <1>4
  <2> QED
    BY <1>2, <2>1 DEF IsLast
<1> DEFINE x == Conversation(a)
           y == Conversation(b)
           h == Pair(r.role, r.c[1], r.c[2])
<1>8. x \in Seq(Saying) /\ y \in Seq(Saying) /\ h \in Saying /\ Free(y, role, n)
  BY <1>5, <1>6, <1>7, FacesAre, FaceIs, FreeSays
<1>9. Conversation(list) = Amid(x, h, y)
  BY <1>5, <1>6, ConversationAmid
<1>10. Matches(h, role, n)
  BY <1>5 DEF Matches, Pair
<1> HIDE DEF x, y, h
<1>11. u = x /\ v = y
  <2>1. Amid(u, e, v) = Amid(x, h, y)
    BY <1>9
  <2> QED
    BY <1>8, <1>10, <2>1, LastUnique
<1>12. PICK f \in Items : /\ f.role = r.role /\ f.c = c
                          /\ Recounted(Amid(a, r, b), Len(a) + 1, c) = Amid(a, f, b)
  <2> DEFINE L == Items
  <2>1. OfRows(L) /\ a \in Seq(L) /\ r \in L /\ b \in Seq(L)
    BY <1>5 DEF OfRows
  <2> HIDE DEF L
  <2>2. \E f \in L : /\ f.role = r.role /\ f.c = c
                     /\ Recounted(Amid(a, r, b), Len(a) + 1, c) = Amid(a, f, b)
    BY <2>1, RecountedAmid
  <2> QED
    BY <2>2 DEF L
<1>13. Conversation(Amid(a, f, b)) = Amid(x, Pair(f.role, f.c[1], f.c[2]), y)
  <2>1. f \in Lines /\ f.role \notin SilentRoles
    BY <1>0, <1>5, <1>12
  <2> QED
    BY <1>6, <2>1, ConversationAmid DEF x, y
<1>14. Pair(f.role, f.c[1], f.c[2]) = Pair(role, c[1], c[2])
  BY <1>5, <1>12
<1> QED
  BY <1>3, <1>5, <1>6, <1>11, <1>12, <1>13, <1>14 DEF p, r
-----------------------------------------------------------------------------
(* The messages of a session, shown at once *)

Block == Kinds \X Nat
SessionMessage ==
  {m \in [kind : {"assistant", "user", "result"}, n : Nat, blocks : Seq(Block), calls : Nat,
          stop : {"stop", "error"}] : m.kind # "assistant" => m.calls = 0}

LEMMA PairSays ==
  ASSUME NEW role \in SpokenRoles, NEW i \in Nat, NEW j \in Nat
  PROVE  /\ Pair(role, i, j) \in Saying /\ Pair(role, i, j) \in Unnumbered
         /\ Pair(role, i, j).role = role /\ Pair(role, i, j).c = <<i, j>>
         /\ <<i, j>> \in Counts
BY DEF Pair, Saying, Unnumbered, Counts, Roles

LEMMA SayingRows == Saying \subseteq Unnumbered /\ OfRows(Unnumbered)
BY DEF Saying, Unnumbered, Roles, OfRows

LEMMA AnsweredLast ==
  ASSUME NEW list, NEW call
  PROVE  Answered(list, call) = IF LastOf(list, "tool", call) = 0 THEN Append(list, Pair("tool", call, 1))
                                ELSE Recounted(list, LastOf(list, "tool", call), <<call, 1>>)
BY DEF Answered, LastOf, Recounted

LEMMA AnsweredIs ==
  ASSUME NEW list \in Seq(Saying), NEW call \in Nat
  PROVE  Answered(list, call) \in Seq(Saying)
<1> DEFINE p == LastOf(list, "tool", call)
           t == "tool"
<1>1. t \in SpokenRoles /\ 1 \in Nat
  BY DEF SpokenRoles
<1>2. Pair(t, call, 1) \in Saying /\ <<call, 1>> \in Counts
  BY <1>1, PairSays
<1>3. CASE p = 0
  BY <1>2, <1>3, AnsweredLast
<1>4. CASE p # 0
  <2>1. p \in 1 .. Len(list)
    <3>1. ~Free(list, t, call)
      BY <1>4, LastOfIs
    <3>2. IsLast(list, t, call, p)
      BY <3>1, LastOfIs
    <3> QED
      BY <3>2 DEF IsLast
  <2> HIDE DEF p
  <2> DEFINE L == Unnumbered
             c == <<call, 1>>
             new == Recounted(list, p, c)
  <2>2. OfRows(L) /\ list \in Seq(L)
    BY SayingRows
  <2> HIDE DEF L
  <2>3. new \in Seq(L) /\ IsRecount(new, list, p, c)
    <3>1. c \in Counts
      BY <1>2
    <3> HIDE DEF c
    <3> QED
      BY <2>1, <2>2, <3>1, RecountedIs
  <2> HIDE DEF new
  <2>4. \A i \in 1 .. Len(new) : new[i] \in Saying
    <3> SUFFICES ASSUME NEW i \in 1 .. Len(new) PROVE new[i] \in Saying
      OBVIOUS
    <3>1. new[i] \in Unnumbered /\ i \in 1 .. Len(list) /\ new[i].role = list[i].role
      BY <2>3 DEF L, IsRecount
    <3>2. list[i] \in Saying
      BY <3>1
    <3>3. list[i].role \in SpokenRoles
      BY <3>2 DEF Saying
    <3> QED
      BY <3>1, <3>3 DEF Unnumbered, Saying
  <2>5. new \in Seq(Saying)
    <3> DEFINE m == Len(new)
    <3>1. m \in Nat /\ new \in [1 .. m -> L]
      BY <2>3
    <3> HIDE DEF m
    <3>2. new \in [1 .. m -> Saying]
      BY <2>4, <3>1 DEF m
    <3> QED
      BY <3>1, <3>2
  <2> QED
    BY <1>4, <2>5, AnsweredLast DEF new, c, p
<1> QED
  BY <1>3, <1>4

\* An answer changes the last row of its call.
LEMMA AnswersAt ==
  ASSUME NEW u \in Seq(Saying), NEW e \in Saying, NEW v \in Seq(Saying), NEW call \in Nat,
         Matches(e, "tool", call), Free(v, "tool", call)
  PROVE  Answered(Amid(u, e, v), call) = Amid(u, Pair("tool", call, 1), v)
<1> DEFINE t == "tool"
           w == Amid(u, e, v)
           p == Len(u) + 1
           c == <<call, 1>>
<1>1. c \in Counts
  BY DEF Counts
<1>2. w \in Seq(Saying) /\ InParts(w, u, e, v)
  BY AmidIs
<1> HIDE DEF w
<1>3. IsLast(w, t, call, p)
  <2>1. Len(u) \in Nat /\ Len(v) \in Nat /\ p \in 1 .. Len(w) /\ w[p] = e
    BY <1>2 DEF InParts
  <2>2. ASSUME NEW i \in 1 .. Len(w), i > p PROVE ~Matches(w[i], t, call)
    <3> DEFINE j == i - p
    <3>1. j \in 1 .. Len(v) /\ i = Len(u) + 1 + j
      BY <1>2, <2>1, <2>2 DEF InParts
    <3> HIDE DEF j
    <3>2. w[i] = v[j]
      BY <1>2, <3>1 DEF InParts
    <3> QED
      BY <3>1, <3>2 DEF Free
  <2> QED
    BY <2>1, <2>2 DEF IsLast
<1>4. LastOf(w, t, call) = p /\ p # 0
  <2>1. LastOf(w, t, call) = p
    BY <1>2, <1>3, LastOfIs
  <2> QED
    BY <1>3, <2>1 DEF IsLast
<1>5. Answered(w, call) = Recounted(w, p, c)
  BY <1>4, AnsweredLast
<1> HIDE DEF c
<1> DEFINE L == Unnumbered
<1>6. OfRows(L) /\ u \in Seq(L) /\ e \in L /\ v \in Seq(L)
  BY SayingRows
<1> HIDE DEF L
<1>7. PICK f \in L : /\ f.role = e.role /\ f.c = c
                     /\ Recounted(Amid(u, e, v), Len(u) + 1, c) = Amid(u, f, v)
  BY <1>1, <1>6, RecountedAmid
<1>8. f = Pair("tool", call, 1)
  <2>1. f.role = "tool" /\ f.c = <<call, 1>> /\ f = [role |-> f.role, c |-> f.c]
    BY <1>7 DEF Matches, L, Unnumbered, c
  <2> QED
    BY <2>1 DEF Pair
<1> QED
  BY <1>5, <1>7, <1>8 DEF w
LEMMA RowsOfBlocks ==
  ASSUME NEW blocks \in Seq(Block)
  PROVE  /\ BlockRows(blocks) \in Seq(Saying) /\ Len(BlockRows(blocks)) = Len(blocks)
         /\ ErrorRows(blocks) \in Seq(Saying)
<1> DEFINE m == Len(blocks)
<1>1. m \in Nat /\ DOMAIN blocks = 1 .. m /\ \A i \in 1 .. m : blocks[i] \in Block
  OBVIOUS
<1> HIDE DEF m
<1>2. \A i \in 1 .. m : Pair(blocks[i][1], blocks[i][2], 0) \in Saying
  <2> SUFFICES ASSUME NEW i \in 1 .. m PROVE Pair(blocks[i][1], blocks[i][2], 0) \in Saying
    OBVIOUS
  <2>1. blocks[i][1] \in SpokenRoles /\ blocks[i][2] \in Nat
    BY <1>1 DEF Block, SpokenRoles
  <2> QED
    BY <2>1, PairSays
<1>3. BlockRows(blocks) \in [1 .. m -> Saying]
  BY <1>1, <1>2 DEF BlockRows
<1>4. BlockRows(blocks) \in Seq(Saying) /\ Len(BlockRows(blocks)) = m
  BY <1>1, <1>3
<1>5. Pair("error", 0, 0) \in Saying
  BY PairSays DEF SpokenRoles
<1> QED
  BY <1>4, <1>5 DEF ErrorRows, m

LEMMA RowsOfCalls ==
  ASSUME NEW first \in Nat, NEW calls \in Nat
  PROVE  /\ CallRows(first, calls) \in Seq(Saying) /\ Len(CallRows(first, calls)) = calls
         /\ \A i \in 1 .. calls : CallRows(first, calls)[i] = Pair("tool", first + i, 0)
         /\ CallRows(first, 0) = <<>>
<1>1. \A i \in 1 .. calls : Pair("tool", first + i, 0) \in Saying
  <2> SUFFICES ASSUME NEW i \in 1 .. calls PROVE Pair("tool", first + i, 0) \in Saying
    OBVIOUS
  <2> DEFINE j == first + i
  <2>1. j \in Nat /\ "tool" \in SpokenRoles
    BY DEF SpokenRoles
  <2> HIDE DEF j
  <2> QED
    BY <2>1, PairSays DEF j
<1>2. CallRows(first, calls) \in [1 .. calls -> Saying]
  BY <1>1 DEF CallRows
<1> QED
  BY <1>2 DEF CallRows

\* What one message adds to the rows and to the number of calls.
Adding(a, m) ==
  IF m.kind = "user" THEN [a EXCEPT !.rows = Append(@, Pair("user", m.n, 0))]
  ELSE IF m.kind = "result" THEN [a EXCEPT !.rows = Answered(@, m.n)]
  ELSE IF m.stop # "stop"
    THEN [a EXCEPT !.rows = @ \o ErrorRows(m.blocks), !.calls = @ + m.calls]
    ELSE [rows |-> a.rows \o BlockRows(m.blocks) \o CallRows(a.calls, m.calls),
                 calls |-> a.calls + m.calls]
Replays == [rows : Seq(Saying), calls : Nat]
NoReplay == [rows |-> <<>>, calls |-> 0]

LEMMA AddingIs ==
  ASSUME NEW a \in Replays, NEW m \in SessionMessage
  PROVE  /\ Adding(a, m) \in Replays /\ Adding(a, m).calls = a.calls + m.calls
         /\ m.kind = "user" => Adding(a, m).rows = Append(a.rows, Pair("user", m.n, 0))
         /\ m.kind = "result" => Adding(a, m).rows = Answered(a.rows, m.n)
         /\ m.kind = "assistant" /\ m.stop = "error" => Adding(a, m).rows = a.rows \o ErrorRows(m.blocks)
         /\ m.kind = "assistant" /\ m.stop = "stop" =>
              Adding(a, m).rows = a.rows \o BlockRows(m.blocks) \o CallRows(a.calls, m.calls)
<1>1. /\ a.rows \in Seq(Saying) /\ a.calls \in Nat
      /\ m.kind \in {"assistant", "user", "result"} /\ m.n \in Nat /\ m.blocks \in Seq(Block)
      /\ m.calls \in Nat /\ m.stop \in {"stop", "error"}
      /\ m.kind # "assistant" => m.calls = 0
  BY DEF Replays, SessionMessage
<1>2. CASE m.kind = "user"
  <2>1. Pair("user", m.n, 0) \in Saying
    BY <1>1, PairSays DEF SpokenRoles
  <2>2. Append(a.rows, Pair("user", m.n, 0)) \in Seq(Saying)
    BY <1>1, <2>1
  <2> DEFINE r == Append(a.rows, Pair("user", m.n, 0))
  <2>3. Adding(a, m) = [a EXCEPT !.rows = r]
    BY <1>2 DEF Adding
  <2>4. r \in Seq(Saying)
    BY <2>2
  <2>5. m.kind # "result" /\ m.kind # "assistant"
    BY <1>2
  <2> HIDE DEF r
  <2>6. Adding(a, m) \in Replays /\ Adding(a, m).calls = a.calls /\ Adding(a, m).rows = r
    BY <2>3, <2>4 DEF Replays
  <2>7. Adding(a, m).calls = a.calls + m.calls
    BY <1>1, <2>5, <2>6
  <2>8. m.kind = "user" => Adding(a, m).rows = Append(a.rows, Pair("user", m.n, 0))
    BY <2>6 DEF r
  <2> QED
    BY <2>5, <2>6, <2>7, <2>8
<1>3. CASE m.kind = "result"
  <2>2. Answered(a.rows, m.n) \in Seq(Saying)
    BY <1>1, AnsweredIs
  <2> DEFINE r == Answered(a.rows, m.n)
  <2>3. Adding(a, m) = [a EXCEPT !.rows = r]
    BY <1>3 DEF Adding
  <2> HIDE DEF r
  <2>4. r \in Seq(Saying) /\ m.kind # "user" /\ m.kind # "assistant"
    BY <1>3, <2>2 DEF r
  <2>5. Adding(a, m) \in Replays /\ Adding(a, m).calls = a.calls /\ Adding(a, m).rows = r
    BY <1>1, <2>3, <2>4 DEF Replays
  <2>6. m.kind = "result" => Adding(a, m).rows = Answered(a.rows, m.n)
    BY <2>5 DEF r
  <2>7. Adding(a, m).calls = a.calls + m.calls
    BY <1>1, <2>4, <2>5
  <2>8. m.kind # "user" /\ m.kind # "assistant"
    BY <1>3
  <2>9. m.kind = "user" => Adding(a, m).rows = Append(a.rows, Pair("user", m.n, 0))
    BY <2>8
  <2>10. /\ m.kind = "assistant" /\ m.stop = "error" => Adding(a, m).rows = a.rows \o ErrorRows(m.blocks)
         /\ m.kind = "assistant" /\ m.stop = "stop" =>
              Adding(a, m).rows = a.rows \o BlockRows(m.blocks) \o CallRows(a.calls, m.calls)
    BY <2>8
  <2> HIDE DEF r
  <2> QED
    BY <2>5, <2>6, <2>7, <2>9, <2>10
<1>4. CASE m.kind = "assistant" /\ m.stop = "error"
  <2>1. ErrorRows(m.blocks) \in Seq(Saying)
    BY <1>1, RowsOfBlocks
  <2>2. a.rows \o ErrorRows(m.blocks) \in Seq(Saying)
    BY <1>1, <2>1, ConcatProperties
  <2> DEFINE r == a.rows \o ErrorRows(m.blocks)
             d == a.calls + m.calls
  <2>3. Adding(a, m) = [a EXCEPT !.rows = r, !.calls = d]
    BY <1>4 DEF Adding
  <2>4. r \in Seq(Saying) /\ d \in Nat
    BY <1>1, <2>2
  <2> HIDE DEF r, d
  <2>5. Adding(a, m) \in Replays /\ Adding(a, m).calls = d /\ Adding(a, m).rows = r
    BY <1>1, <2>3, <2>4 DEF Replays
  <2>6. m.kind = "assistant" /\ m.stop = "error" => Adding(a, m).rows = a.rows \o ErrorRows(m.blocks)
    BY <2>5 DEF r
  <2>7. Adding(a, m).calls = a.calls + m.calls
    BY <2>5 DEF d
  <2>8. m.kind # "user" /\ m.kind # "result" /\ m.stop # "stop"
    BY <1>4
  <2> HIDE DEF r
  <2> QED
    BY <2>5, <2>6, <2>7, <2>8
<1>5. CASE m.kind = "assistant" /\ m.stop = "stop"
  <2>1. BlockRows(m.blocks) \in Seq(Saying) /\ CallRows(a.calls, m.calls) \in Seq(Saying)
    BY <1>1, RowsOfBlocks, RowsOfCalls
  <2>2. a.rows \o BlockRows(m.blocks) \o CallRows(a.calls, m.calls) \in Seq(Saying)
    BY <1>1, <2>1, ConcatProperties
  <2>3. Adding(a, m) = [rows |-> a.rows \o BlockRows(m.blocks) \o CallRows(a.calls, m.calls),
                        calls |-> a.calls + m.calls]
    BY <1>5 DEF Adding
  <2> QED
    BY <1>1, <1>5, <2>2, <2>3, SMTT(30) DEF Replays
<1> QED
  BY <1>1, <1>2, <1>3, <1>4, <1>5

Adds(f, h) ==
  /\ f[0] = NoReplay
  /\ \A k \in 1 .. Len(h) : f[k] = Adding(f[k - 1], h[k])

LEMMA AddsExists ==
  ASSUME NEW h \in Seq(SessionMessage)
  PROVE  \E f \in [0 .. Len(h) -> Replays] :
           /\ Adds(f, h)
           /\ f = [n \in 0 .. Len(h) |-> IF n = 0 THEN NoReplay ELSE Adding(f[n - 1], h[n])]
<1> DEFINE n == Len(h)
           next == [x \in (1 .. n) \X Replays |-> Adding(x[2], h[x[1]])]
<1>1. n \in Nat /\ \A k \in 1 .. n : h[k] \in SessionMessage
  OBVIOUS
<1>2. next \in [(1 .. n) \X Replays -> Replays]
  <2> HIDE DEF n
  <2>1. ASSUME NEW x \in (1 .. n) \X Replays PROVE Adding(x[2], h[x[1]]) \in Replays
    <3>1. x[2] \in Replays /\ h[x[1]] \in SessionMessage
      BY <1>1
    <3> QED
      BY <3>1, AddingIs
  <2> QED
    BY <2>1
<1>3. NoReplay \in Replays
  BY DEF NoReplay, Replays
<1>4. PICK f : IteratesTo(f, n, Replays, NoReplay, next)
  <2> HIDE DEF n, next
  <2> QED
    BY <1>1, <1>2, <1>3, FiniteRecursion
<1>5. f \in [0 .. n -> Replays] /\ f = [i \in 0 .. n |-> IF i = 0 THEN NoReplay ELSE next[<<i, f[i - 1]>>]]
  <2> HIDE DEF n, next
  <2> QED
    BY <1>4 DEF IteratesTo
<1> HIDE DEF n
<1>6. \A k \in 1 .. n : k \in 0 .. n /\ k # 0 /\ k - 1 \in 0 .. n
  BY <1>1
<1>7. \A k \in 1 .. n : next[<<k, f[k - 1]>>] = Adding(f[k - 1], h[k])
  <2> SUFFICES ASSUME NEW k \in 1 .. n PROVE next[<<k, f[k - 1]>>] = Adding(f[k - 1], h[k])
    OBVIOUS
  <2>1. f[k - 1] \in Replays
    BY <1>5, <1>6
  <2>2. <<k, f[k - 1]>> \in (1 .. n) \X Replays
    BY <2>1
  <2> QED
    BY <2>2
<1> HIDE DEF next
<1>8. 0 \in 0 .. n
  BY <1>1
<1>9. f[0] = NoReplay /\ \A k \in 1 .. n : f[k] = Adding(f[k - 1], h[k])
  BY <1>5, <1>6, <1>7, <1>8
<1>10. f = [i \in 0 .. n |-> IF i = 0 THEN NoReplay ELSE Adding(f[i - 1], h[i])]
  <2>1. \A i \in 0 .. n : i # 0 => i \in 1 .. n
    BY <1>1
  <2>2. \A i \in 0 .. n : (IF i = 0 THEN NoReplay ELSE next[<<i, f[i - 1]>>])
                            = (IF i = 0 THEN NoReplay ELSE Adding(f[i - 1], h[i]))
    BY <1>7, <2>1
  <2>3. [i \in 0 .. n |-> IF i = 0 THEN NoReplay ELSE next[<<i, f[i - 1]>>]]
          = [i \in 0 .. n |-> IF i = 0 THEN NoReplay ELSE Adding(f[i - 1], h[i])]
    BY <2>2
  <2> QED
    BY <1>5, <2>3
<1> QED
  BY <1>5, <1>9, <1>10 DEF Adds, n

LEMMA SameAdds ==
  ASSUME NEW h \in Seq(SessionMessage), NEW f, NEW g, Adds(f, h), Adds(g, h)
  PROVE  \A k \in 0 .. Len(h) : f[k] = g[k]
<1> DEFINE n == Len(h)
           T == {k \in Nat : k <= n => f[k] = g[k]}
<1>1. n \in Nat
  OBVIOUS
<1>2. 0 \in T
  BY DEF Adds
<1>3. ASSUME NEW k \in Nat, k \in T PROVE k + 1 \in T
  <2> SUFFICES ASSUME k + 1 <= n PROVE f[k + 1] = g[k + 1]
    OBVIOUS
  <2>1. k + 1 \in 1 .. n /\ (k + 1) - 1 = k /\ f[k] = g[k]
    BY <1>1, <1>3
  <2> QED
    BY <2>1 DEF Adds
<1>4. \A k \in Nat : k \in T
  <2> HIDE DEF T
  <2> QED
    BY <1>2, <1>3, Induction
<1> QED
  BY <1>1, <1>4
\* load_messages and the numbering of calls, along one recursion.
LEMMA ReplayIs ==
  ASSUME NEW h \in Seq(SessionMessage), NEW f, f \in [0 .. Len(h) -> Replays], Adds(f, h)
  PROVE  Replayed(h) = f[Len(h)].rows /\ CallsOf(h) = f[Len(h)].calls
<1> DEFINE n == Len(h)
           Is(g) == g = [k \in 0 .. n |-> IF k = 0 THEN NoReplay ELSE Adding(g[k - 1], h[k])]
           after == CHOOSE g : Is(g)
<1>1. n \in Nat /\ n \in 0 .. n /\ 0 \in 0 .. n /\ \A k \in 1 .. n : h[k] \in SessionMessage
  OBVIOUS
<1>2. Replayed(h) = after[n].rows
  BY DEF Replayed, Adding, NoReplay
<1>3. Is(after)
  <2>1. \E g : Is(g)
    BY AddsExists
  <2> QED
    BY <2>1
<1> HIDE DEF after
<1>4. Adds(after, h)
  <2> HIDE DEF n
  <2>1. \A k \in 1 .. n : k \in 0 .. n /\ k # 0
    BY <1>1
  <2>2. after[0] = NoReplay /\ \A k \in 1 .. n : after[k] = Adding(after[k - 1], h[k])
    BY <1>1, <1>3, <2>1
  <2> QED
    BY <2>2 DEF Adds, n
<1>5. after[n] = f[n]
  <2> HIDE DEF n
  <2>1. \A k \in 0 .. n : after[k] = f[k]
    BY <1>4, SameAdds DEF n
  <2> QED
    BY <1>1, <2>1
<1> DEFINE Counting(g) == g = [k \in 0 .. n |-> IF k = 0 THEN 0 ELSE g[k - 1] + h[k].calls]
           calls == CHOOSE g : Counting(g)
           counts == [k \in 0 .. n |-> f[k].calls]
<1>6. CallsOf(h) = calls[n]
  BY DEF CallsOf
<1>7. \A k \in 1 .. n : f[k].calls = f[k - 1].calls + h[k].calls
  <2> SUFFICES ASSUME NEW k \in 1 .. n PROVE f[k].calls = f[k - 1].calls + h[k].calls
    OBVIOUS
  <2>1. k - 1 \in 0 .. n
    BY <1>1
  <2>2. f[k - 1] \in Replays /\ h[k] \in SessionMessage
    BY <1>1, <2>1
  <2>3. f[k] = Adding(f[k - 1], h[k])
    BY DEF Adds
  <2> QED
    BY <2>2, <2>3, AddingIs, SMTT(30)
<1>8. f[0].calls = 0
  BY DEF Adds, NoReplay
<1> HIDE DEF n
<1>9. \A k \in 1 .. n : k \in 0 .. n /\ k # 0 /\ k - 1 \in 0 .. n
  BY <1>1
<1>10. Counting(counts)
  <2>1. \A k \in 0 .. n : f[k].calls = IF k = 0 THEN 0 ELSE counts[k - 1] + h[k].calls
    <3> SUFFICES ASSUME NEW k \in 0 .. n PROVE f[k].calls = IF k = 0 THEN 0 ELSE counts[k - 1] + h[k].calls
      OBVIOUS
    <3>1. CASE k = 0
      BY <1>8, <3>1
    <3>2. CASE k # 0
      <4>1. k \in 1 .. n /\ k - 1 \in 0 .. n
        BY <1>1, <3>2
      <4> QED
        BY <1>7, <3>2, <4>1
    <3> QED
      BY <3>1, <3>2
  <2> QED
    BY <2>1
<1>11. Counting(calls)
  BY <1>10
<1> HIDE DEF calls
<1> DEFINE T == {k \in Nat : k <= n => calls[k] = f[k].calls}
<1>12. calls[0] = 0 /\ \A k \in 1 .. n : calls[k] = calls[k - 1] + h[k].calls
  BY <1>1, <1>9, <1>11
<1>13. 0 \in T
  BY <1>8, <1>12
<1>14. ASSUME NEW k \in Nat, k \in T PROVE k + 1 \in T
  <2> SUFFICES ASSUME k + 1 <= n PROVE calls[k + 1] = f[k + 1].calls
    OBVIOUS
  <2>1. k + 1 \in 1 .. n /\ (k + 1) - 1 = k /\ calls[k] = f[k].calls
    BY <1>1, <1>14
  <2> QED
    BY <1>7, <1>12, <2>1
<1>15. \A k \in Nat : k \in T
  <2> HIDE DEF T
  <2> QED
    BY <1>13, <1>14, Induction
<1>16. calls[n] = f[n].calls
  BY <1>1, <1>15
<1> QED
  BY <1>2, <1>5, <1>6, <1>16 DEF n

LEMMA ReplayNone == Replayed(<<>>) = <<>> /\ CallsOf(<<>>) = 0
<1> DEFINE h == <<>>
           f == [k \in {0} |-> NoReplay]
<1>1. h \in Seq(SessionMessage) /\ Len(h) = 0
  OBVIOUS
<1>2. f \in [0 .. Len(h) -> Replays] /\ Adds(f, h) /\ f[0] = NoReplay
  <2>1. 0 .. 0 = {0}
    OBVIOUS
  <2>2. NoReplay \in Replays
    BY DEF NoReplay, Replays
  <2>3. \A k \in 1 .. Len(h) : FALSE
    BY <1>1
  <2> QED
    BY <1>1, <2>1, <2>2, <2>3 DEF Adds
<1> HIDE DEF h, f
<1>3. Replayed(h) = f[0].rows /\ CallsOf(h) = f[0].calls
  <2>1. Replayed(h) = f[Len(h)].rows /\ CallsOf(h) = f[Len(h)].calls
    BY <1>1, <1>2, ReplayIs
  <2> QED
    BY <1>1, <2>1
<1> QED
  BY <1>2, <1>3 DEF h, NoReplay

\* The whole of what is shown of a session.
Replay(h) == [rows |-> Replayed(h), calls |-> CallsOf(h)]

LEMMA ReplayAppend ==
  ASSUME NEW h \in Seq(SessionMessage), NEW m \in SessionMessage
  PROVE  /\ Replay(h) \in Replays /\ Append(h, m) \in Seq(SessionMessage)
         /\ Replay(Append(h, m)) = Adding(Replay(h), m)
<1> DEFINE n == Len(h)
           s == Append(h, m)
<1>1. n \in Nat /\ s \in Seq(SessionMessage) /\ Len(s) = n + 1 /\ s[n + 1] = m /\ \A k \in 1 .. n : s[k] = h[k]
  OBVIOUS
<1>2. PICK g \in [0 .. n -> Replays] : Adds(g, h)
  BY AddsExists
<1> HIDE DEF n, s
<1>3. PICK f \in [0 .. n + 1 -> Replays] : Adds(f, s)
  <2>1. \E f \in [0 .. Len(s) -> Replays] : Adds(f, s)
    BY <1>1, AddsExists
  <2> QED
    BY <1>1, <2>1
<1>4. Replayed(h) = g[n].rows /\ CallsOf(h) = g[n].calls
  BY <1>2, ReplayIs DEF n
<1>5. Replayed(s) = f[n + 1].rows /\ CallsOf(s) = f[n + 1].calls
  <2>1. f \in [0 .. Len(s) -> Replays]
    BY <1>1, <1>3
  <2>2. Replayed(s) = f[Len(s)].rows /\ CallsOf(s) = f[Len(s)].calls
    BY <1>1, <1>3, <2>1, ReplayIs
  <2> QED
    BY <1>1, <2>2
<1>6. Adds(f, h)
  <2>1. \A k \in 1 .. n : k \in 1 .. n + 1
    BY <1>1
  <2> QED
    BY <1>1, <1>3, <2>1 DEF Adds, n
<1>7. f[n] = g[n]
  <2>1. \A k \in 0 .. n : f[k] = g[k]
    BY <1>2, <1>6, SameAdds DEF n
  <2> QED
    BY <1>1, <2>1
<1>8. f[n + 1] = Adding(f[n], m)
  <2>1. n + 1 \in 1 .. n + 1 /\ (n + 1) - 1 = n
    BY <1>1
  <2> QED
    BY <1>1, <1>3, <2>1 DEF Adds
<1>9. g[n] \in Replays /\ f[n + 1] \in Replays
  BY <1>1, <1>2, <1>3
<1>10. Replay(h) = g[n] /\ Replay(s) = f[n + 1]
  BY <1>4, <1>5, <1>9 DEF Replay, Replays
<1> QED
  BY <1>1, <1>7, <1>8, <1>9, <1>10 DEF s
LEMMA StoredMessages ==
  ASSUME NEW n \in Nat, NEW blocks \in Seq(Block), NEW calls \in Nat
  PROVE  /\ User(n) \in SessionMessage /\ Result(n) \in SessionMessage
         /\ ReplyStarts(blocks, calls, "stop") \in SessionMessage
         /\ ReplyStarts(blocks, calls, "error") \in SessionMessage
<1>1. <<>> \in Seq(Block)
  OBVIOUS
<1> QED
  BY <1>1 DEF User, Result, ReplyStarts, SessionMessage

LEMMA ReplayUser ==
  ASSUME NEW h \in Seq(SessionMessage), NEW n \in Nat
  PROVE  /\ Append(h, User(n)) \in Seq(SessionMessage)
         /\ Replayed(Append(h, User(n))) = Append(Replayed(h), Pair("user", n, 0))
         /\ CallsOf(Append(h, User(n))) = CallsOf(h)
<1> DEFINE m == User(n)
           s == Append(h, m)
<1>1. m \in SessionMessage /\ m.kind = "user" /\ m.n = n /\ m.calls = 0
  <2>1. <<>> \in Seq(Block)
    OBVIOUS
  <2> QED
    BY <2>1, StoredMessages DEF User
<1> HIDE DEF m
<1>2. Replay(h) \in Replays /\ s \in Seq(SessionMessage) /\ Replay(s) = Adding(Replay(h), m)
  BY <1>1, ReplayAppend
<1> HIDE DEF s
<1>3. /\ Adding(Replay(h), m).calls = Replay(h).calls + m.calls
      /\ Adding(Replay(h), m).rows = Append(Replay(h).rows, Pair("user", m.n, 0))
  BY <1>1, <1>2, AddingIs
<1>4. Replay(h).calls \in Nat /\ Replay(h).calls + 0 = Replay(h).calls
  BY <1>2 DEF Replays
<1>5. Replay(s).rows = Append(Replay(h).rows, Pair("user", n, 0)) /\ Replay(s).calls = Replay(h).calls
  BY <1>1, <1>2, <1>3, <1>4
<1> QED
  BY <1>2, <1>5 DEF Replay, m, s

LEMMA ReplayResult ==
  ASSUME NEW h \in Seq(SessionMessage), NEW n \in Nat
  PROVE  /\ Append(h, Result(n)) \in Seq(SessionMessage)
         /\ Replayed(Append(h, Result(n))) = Answered(Replayed(h), n)
<1> DEFINE m == Result(n)
           s == Append(h, m)
<1>1. m \in SessionMessage /\ m.kind = "result" /\ m.n = n
  <2>1. <<>> \in Seq(Block)
    OBVIOUS
  <2> QED
    BY <2>1, StoredMessages DEF Result
<1> HIDE DEF m
<1>2. Replay(h) \in Replays /\ s \in Seq(SessionMessage) /\ Replay(s) = Adding(Replay(h), m)
  BY <1>1, ReplayAppend
<1> HIDE DEF s
<1>3. Adding(Replay(h), m).rows = Answered(Replay(h).rows, m.n)
  BY <1>1, <1>2, AddingIs
<1> QED
  BY <1>1, <1>2, <1>3 DEF Replay, m, s

LEMMA ReplayReply ==
  ASSUME NEW h \in Seq(SessionMessage), NEW blocks \in Seq(Block), NEW calls \in Nat
  PROVE  /\ Append(h, ReplyStarts(blocks, calls, "stop")) \in Seq(SessionMessage)
         /\ Replayed(Append(h, ReplyStarts(blocks, calls, "stop")))
              = Replayed(h) \o BlockRows(blocks) \o CallRows(CallsOf(h), calls)
         /\ CallsOf(Append(h, ReplyStarts(blocks, calls, "stop"))) = CallsOf(h) + calls
<1> DEFINE m == ReplyStarts(blocks, calls, "stop")
           s == Append(h, m)
<1>1. /\ m \in SessionMessage /\ m.kind = "assistant" /\ m.stop = "stop" /\ m.blocks = blocks /\ m.calls = calls
  <2>1. 0 \in Nat
    OBVIOUS
  <2> QED
    BY <2>1, StoredMessages DEF ReplyStarts
<1> HIDE DEF m
<1>2. Replay(h) \in Replays /\ s \in Seq(SessionMessage) /\ Replay(s) = Adding(Replay(h), m)
  BY <1>1, ReplayAppend
<1> HIDE DEF s
<1> DEFINE a == Replay(h)
           b == Adding(a, m)
<1>3. b.calls = a.calls + m.calls /\ b.rows = a.rows \o BlockRows(m.blocks) \o CallRows(a.calls, m.calls)
  BY <1>1, <1>2, AddingIs
<1> HIDE DEF b
<1>4. a.rows = Replayed(h) /\ a.calls = CallsOf(h) /\ b.rows = Replayed(s) /\ b.calls = CallsOf(s)
  BY <1>2 DEF Replay, b
<1> HIDE DEF a
<1> QED
  BY <1>1, <1>2, <1>3, <1>4 DEF m, s

LEMMA ReplayFailed ==
  ASSUME NEW h \in Seq(SessionMessage), NEW blocks \in Seq(Block)
  PROVE  /\ Append(h, ReplyStarts(blocks, 0, "error")) \in Seq(SessionMessage)
         /\ Replayed(Append(h, ReplyStarts(blocks, 0, "error"))) = Replayed(h) \o ErrorRows(blocks)
<1> DEFINE m == ReplyStarts(blocks, 0, "error")
           s == Append(h, m)
<1>1. /\ m \in SessionMessage /\ m.kind = "assistant" /\ m.stop = "error" /\ m.blocks = blocks
  <2> DEFINE none == 0
  <2>1. none \in Nat
    OBVIOUS
  <2> HIDE DEF none
  <2>2. ReplyStarts(blocks, none, "error") \in SessionMessage
    BY <2>1, StoredMessages
  <2> QED
    BY <2>2 DEF ReplyStarts, none
<1> HIDE DEF m
<1>2. Replay(h) \in Replays /\ s \in Seq(SessionMessage) /\ Replay(s) = Adding(Replay(h), m)
  BY <1>1, ReplayAppend
<1> HIDE DEF s
<1> DEFINE a == Replay(h)
           b == Adding(a, m)
<1>3. b.rows = a.rows \o ErrorRows(m.blocks)
  BY <1>1, <1>2, AddingIs
<1> HIDE DEF b
<1>4. a.rows = Replayed(h) /\ b.rows = Replayed(s)
  BY <1>2 DEF Replay, b
<1> HIDE DEF a
<1> QED
  BY <1>1, <1>2, <1>3, <1>4 DEF m, s

LEMMA ReplayTyped ==
  ASSUME NEW h \in Seq(SessionMessage)
  PROVE  Replayed(h) \in Seq(Saying) /\ CallsOf(h) \in Nat
<1> DEFINE m == Result(0)
<1>1. m \in SessionMessage
  <2> DEFINE none == 0
  <2>1. none \in Nat /\ <<>> \in Seq(Block)
    OBVIOUS
  <2> HIDE DEF none
  <2>2. Result(none) \in SessionMessage
    BY <2>1, StoredMessages
  <2> QED
    BY <2>2 DEF none
<1> HIDE DEF m
<1>2. Replay(h) \in Replays
  BY <1>1, ReplayAppend
<1> QED
  BY <1>2 DEF Replay, Replays
\* The rows of n calls, of which some are still going on.
CallRow(first, i, going) == Pair("tool", first + i, IF first + i \in going THEN 0 ELSE 1)
CallsSaid(first, n, going) == [i \in 1 .. n |-> CallRow(first, i, going)]

LEMMA CallRowIs ==
  ASSUME NEW first \in Nat, NEW i \in Nat, NEW going
  PROVE  /\ CallRow(first, i, going) \in Saying
         /\ CallRow(first, i, going).role = "tool" /\ CallRow(first, i, going).c[1] = first + i
<1> DEFINE j == first + i
           k == IF first + i \in going THEN 0 ELSE 1
<1>1. j \in Nat /\ k \in Nat /\ "tool" \in SpokenRoles
  BY DEF SpokenRoles
<1>2. CallRow(first, i, going) = Pair("tool", j, k)
  BY DEF CallRow
<1> HIDE DEF j, k
<1>3. Pair("tool", j, k) \in Saying /\ Pair("tool", j, k).role = "tool" /\ Pair("tool", j, k).c = <<j, k>>
  BY <1>1, PairSays, ZenonT(30)
<1>4. CallRow(first, i, going).c[1] = j
  BY <1>2, <1>3
<1> QED
  BY <1>2, <1>3, <1>4 DEF j

LEMMA CallsSaidIs ==
  ASSUME NEW first \in Nat, NEW n \in Nat, NEW going
  PROVE  /\ CallsSaid(first, n, going) \in Seq(Saying) /\ Len(CallsSaid(first, n, going)) = n
         /\ \A i \in 1 .. n : CallsSaid(first, n, going)[i] = CallRow(first, i, going)
<1>1. \A i \in 1 .. n : CallRow(first, i, going) \in Saying
  BY CallRowIs
<1>2. CallsSaid(first, n, going) \in [1 .. n -> Saying]
  BY <1>1 DEF CallsSaid
<1> QED
  BY <1>2 DEF CallsSaid

\* The row of a call is the last of its number, and its end changes only it.
Settles(said, then, call) ==
  \E u, v \in Seq(Saying), e \in Saying :
    /\ said = Amid(u, e, v) /\ then = Amid(u, Pair("tool", call, 1), v)
    /\ Matches(e, "tool", call) /\ Free(v, "tool", call)

LEMMA CallSettles ==
  ASSUME NEW base \in Seq(Saying), NEW first \in Nat, NEW n \in Nat, NEW i \in 1 .. n, NEW going
  PROVE  Settles(base \o CallsSaid(first, n, going), base \o CallsSaid(first, n, going \ {first + i}), first + i)
<1> DEFINE call == first + i
           less == going \ {call}
           x == CallsSaid(first, n, going)
           y == CallsSaid(first, n, less)
           w == base \o x
           z == base \o y
           m == Len(base)
           p == m + i
           f == Pair("tool", call, 1)
<1>0. m \in Nat
  OBVIOUS
<1> HIDE DEF m
<1>1. x \in Seq(Saying) /\ Len(x) = n /\ \A k \in 1 .. n : x[k] = CallRow(first, k, going)
  BY CallsSaidIs
<1> HIDE DEF less
<1>2. y \in Seq(Saying) /\ Len(y) = n /\ \A k \in 1 .. n : y[k] = CallRow(first, k, less)
  BY CallsSaidIs
<1> HIDE DEF x, y
<1>3. /\ w \in Seq(Saying) /\ Len(w) = m + n
      /\ \A k \in 1 .. m : w[k] = base[k]
      /\ \A k \in 1 .. n : w[m + k] = x[k]
  <2>1. x \in Seq(Saying)
    BY <1>1
  <2>2. /\ w \in Seq(Saying) /\ Len(w) = Len(base) + Len(x)
        /\ \A k \in 1 .. Len(base) : w[k] = base[k]
        /\ \A k \in 1 .. Len(x) : w[Len(base) + k] = x[k]
    BY <2>1, Members
  <2> QED
    BY <1>1, <2>2 DEF m
<1>4. /\ z \in Seq(Saying) /\ Len(z) = m + n
      /\ \A k \in 1 .. m : z[k] = base[k]
      /\ \A k \in 1 .. n : z[m + k] = y[k]
  <2>1. y \in Seq(Saying)
    BY <1>2
  <2>2. /\ z \in Seq(Saying) /\ Len(z) = Len(base) + Len(y)
        /\ \A k \in 1 .. Len(base) : z[k] = base[k]
        /\ \A k \in 1 .. Len(y) : z[Len(base) + k] = y[k]
    BY <2>1, Members
  <2> QED
    BY <1>2, <2>2 DEF m
<1> HIDE DEF w, z, p
<1>5. p \in 1 .. Len(w) /\ w[p] = CallRow(first, i, going) /\ z[p] = CallRow(first, i, less)
  <2>1. p \in 1 .. Len(w)
    BY <1>0, <1>3 DEF p
  <2> QED
    BY <1>1, <1>2, <1>3, <1>4, <2>1 DEF p
<1>6. PICK u \in Seq(Saying), v \in Seq(Saying) :
        /\ Len(u) = p - 1 /\ w = Amid(u, w[p], v)
        /\ \A k \in 1 .. Len(v) : p + k \in 1 .. Len(w) /\ v[k] = w[p + k]
  <2> DEFINE T == Saying
  <2>1. w \in Seq(T) /\ p \in 1 .. Len(w)
    BY <1>3, <1>5
  <2> HIDE DEF T
  <2>2. \E u, v \in Seq(T) : /\ Len(u) = p - 1 /\ w = Amid(u, w[p], v)
                             /\ \A k \in 1 .. Len(v) : p + k \in 1 .. Len(w) /\ v[k] = w[p + k]
    BY <2>1, SplitAt
  <2> QED
    BY <2>2 DEF T
<1>7. call \in Nat /\ i \in Nat
  OBVIOUS
<1>8. z[p] = f
  <2>1. call \notin less
    BY DEF less
  <2> QED
    BY <1>5, <2>1 DEF CallRow
<1>9. f \in Saying
  <2>1. CallRow(first, i, less) \in Saying
    BY <1>7, CallRowIs
  <2> QED
    BY <1>5, <1>8, <2>1
<1>10. \A k \in 1 .. n : k # i => x[k] = y[k]
  <2> SUFFICES ASSUME NEW k \in 1 .. n, k # i PROVE x[k] = y[k]
    OBVIOUS
  <2>1. first + k \in going <=> first + k \in less
    BY DEF less
  <2> QED
    BY <1>1, <1>2, <2>1 DEF CallRow
<1> HIDE DEF f
<1>11. InParts(w, u, w[p], v)
  <2> DEFINE e == w[p]
  <2>1. e \in Saying
    BY <1>3, <1>5
  <2> HIDE DEF e
  <2>2. InParts(Amid(u, e, v), u, e, v)
    BY <2>1, AmidIs
  <2> QED
    BY <1>6, <2>2 DEF e
<1>12. \A k \in 1 .. m + n : k # p => z[k] = w[k]
  <2> SUFFICES ASSUME NEW k \in 1 .. m + n, k # p PROVE z[k] = w[k]
    OBVIOUS
  <2>1. CASE k <= m
    <3>1. k \in 1 .. m
      BY <1>0, <2>1
    <3> QED
      BY <1>3, <1>4, <3>1
  <2>2. CASE ~(k <= m)
    <3> DEFINE j == k - m
    <3>1. j \in 1 .. n /\ k = m + j /\ j # i
      BY <1>0, <2>2 DEF p
    <3> HIDE DEF j
    <3> QED
      BY <1>3, <1>4, <1>10, <3>1
  <2> QED
    BY <2>1, <2>2
<1>13. z = Amid(u, f, v)
  <2>1. p \in Nat /\ Len(u) \in Nat /\ Len(v) \in Nat /\ Len(w) = Len(u) + 1 + Len(v) /\ p = Len(u) + 1
    BY <1>5, <1>6, <1>11 DEF InParts
  <2>2. \A k \in 1 .. Len(u) : k \in 1 .. m + n /\ k # p
    BY <1>0, <1>3, <2>1
  <2>3. \A k \in 1 .. Len(v) : Len(u) + 1 + k \in 1 .. m + n /\ Len(u) + 1 + k # p
    BY <1>0, <1>3, <2>1
  <2>4. InParts(z, u, f, v)
    BY <1>3, <1>4, <1>8, <1>11, <1>12, <2>1, <2>2, <2>3 DEF InParts
  <2> QED
    BY <1>4, <1>9, <2>4, PartsEqual
<1>14. Matches(w[p], "tool", call) /\ w[p] \in Saying
  <2> DEFINE r == CallRow(first, i, going)
  <2>1. r \in Saying /\ r.role = "tool" /\ r.c[1] = first + i
    BY <1>7, CallRowIs
  <2> HIDE DEF r
  <2>2. w[p] = r
    BY <1>5 DEF r
  <2> QED
    BY <2>1, <2>2 DEF Matches
<1>15. Free(v, "tool", call)
  <2> SUFFICES ASSUME NEW k \in 1 .. Len(v) PROVE ~Matches(v[k], "tool", call)
    BY DEF Free
  <2>1. k \in Nat /\ p + k \in 1 .. m + n /\ v[k] = w[p + k]
    BY <1>3, <1>6
  <2> DEFINE j == i + k
  <2>2. j \in 1 .. n /\ p + k = m + j /\ j > i
    BY <1>0, <2>1, SMTT(30) DEF p
  <2> HIDE DEF j
  <2>3. v[k] = CallRow(first, j, going)
    BY <1>1, <1>3, <2>1, <2>2
  <2>4. v[k].c[1] = first + j
    <3> DEFINE r == CallRow(first, j, going)
    <3>1. j \in Nat
      BY <2>2
    <3>2. r.c[1] = first + j
      BY <3>1, CallRowIs
    <3> QED
      BY <2>3, <3>2
  <2>5. first + j # call
    BY <2>2
  <2> QED
    BY <2>4, <2>5 DEF Matches
<1>16. Settles(w, z, call)
  BY <1>6, <1>13, <1>14, <1>15 DEF Settles, f
<1> QED
  BY <1>16 DEF w, z, x, y, less
AnswerSettles(base, first, n, i, going) ==
  Answered(base \o CallsSaid(first, n, going), first + i) = base \o CallsSaid(first, n, going \ {first + i})

LEMMA CallSettled ==
  ASSUME NEW base \in Seq(Saying), NEW first \in Nat, NEW n \in Nat, NEW i \in 1 .. n, NEW going
  PROVE  AnswerSettles(base, first, n, i, going)
<1> DEFINE w == base \o CallsSaid(first, n, going)
           z == base \o CallsSaid(first, n, going \ {first + i})
           call == first + i
<1>1. Settles(w, z, call)
  BY CallSettles
<1> HIDE DEF w, z
<1>2. PICK u \in Seq(Saying), v \in Seq(Saying), e \in Saying :
        /\ w = Amid(u, e, v) /\ z = Amid(u, Pair("tool", call, 1), v)
        /\ Matches(e, "tool", call) /\ Free(v, "tool", call)
  BY <1>1 DEF Settles
<1>3. call \in Nat
  OBVIOUS
<1> HIDE DEF call
<1>4. Answered(Amid(u, e, v), call) = Amid(u, Pair("tool", call, 1), v)
  BY <1>2, <1>3, AnswersAt
<1> QED
  BY <1>2, <1>4 DEF w, z, call, AnswerSettles

LEMMA CallsAsked ==
  ASSUME NEW first \in Nat, NEW n \in Nat
  PROVE  CallRows(first, n) = CallsSaid(first, n, first + 1 .. first + n)
<1>1. \A i \in 1 .. n : CallRow(first, i, first + 1 .. first + n) = Pair("tool", first + i, 0)
  <2> SUFFICES ASSUME NEW i \in 1 .. n
               PROVE  CallRow(first, i, first + 1 .. first + n) = Pair("tool", first + i, 0)
    OBVIOUS
  <2>1. first + i \in first + 1 .. first + n
    OBVIOUS
  <2> QED
    BY <2>1 DEF CallRow
<1> QED
  BY <1>1 DEF CallsSaid, CallRows

LEMMA CallsMore ==
  ASSUME NEW first \in Nat, NEW n \in Nat, NEW going, going \subseteq first + 1 .. first + n
  PROVE  CallsSaid(first, n + 1, going \cup {first + n + 1})
           = Append(CallsSaid(first, n, going), Pair("tool", first + n + 1, 0))
<1> DEFINE call == first + n + 1
           more == going \cup {call}
           x == CallsSaid(first, n, going)
           y == CallsSaid(first, n + 1, more)
           e == Pair("tool", call, 0)
<1>1. x \in Seq(Saying) /\ Len(x) = n /\ \A k \in 1 .. n : x[k] = CallRow(first, k, going)
  BY CallsSaidIs
<1> HIDE DEF more
<1>2. y \in Seq(Saying) /\ Len(y) = n + 1 /\ \A k \in 1 .. n + 1 : y[k] = CallRow(first, k, more)
  <2> DEFINE m == n + 1
  <2>1. m \in Nat
    OBVIOUS
  <2> HIDE DEF m
  <2>2. /\ CallsSaid(first, m, more) \in Seq(Saying) /\ Len(CallsSaid(first, m, more)) = m
        /\ \A k \in 1 .. m : CallsSaid(first, m, more)[k] = CallRow(first, k, more)
    BY <2>1, CallsSaidIs
  <2> QED
    BY <2>2 DEF m
<1> HIDE DEF x, y
<1>3. y[n + 1] = e
  <2>1. first + (n + 1) = call /\ call \in more
    BY DEF more
  <2>2. y[n + 1] = CallRow(first, n + 1, more)
    BY <1>2
  <2> QED
    BY <2>1, <2>2 DEF CallRow
<1>4. \A k \in 1 .. n : y[k] = x[k]
  <2> SUFFICES ASSUME NEW k \in 1 .. n PROVE y[k] = x[k]
    OBVIOUS
  <2>1. first + k \in going <=> first + k \in more
    BY DEF more
  <2>2. y[k] = CallRow(first, k, more) /\ x[k] = CallRow(first, k, going)
    BY <1>1, <1>2
  <2> QED
    BY <2>1, <2>2 DEF CallRow
<1>5. e \in Saying
  <2>1. y[n + 1] \in Saying
    BY <1>2
  <2> QED
    BY <1>3, <2>1
<1> HIDE DEF e
<1>6. y \in [1 .. n + 1 -> Saying]
  BY <1>2
<1>7. y = Append(x, e)
  BY <1>1, <1>3, <1>4, <1>5, <1>6, AppendIs
<1> QED
  BY <1>7 DEF x, y, e, more

LEMMA ConcatAppend ==
  ASSUME NEW T, NEW a \in Seq(T), NEW b \in Seq(T), NEW e \in T
  PROVE  a \o Append(b, e) = Append(a \o b, e)
OBVIOUS

LEMMA ConcatNone ==
  ASSUME NEW T, NEW a \in Seq(T)
  PROVE  a \o <<>> = a /\ <<>> \o a = a
BY ConcatEmptySeq

\* The results of a reply, recorded in the order of its calls.
Outcomes(first, n) == [i \in 1 .. n |-> Result(first + i)]

LEMMA ReplayResults ==
  ASSUME NEW h \in Seq(SessionMessage), NEW base \in Seq(Saying), NEW first \in Nat, NEW n \in Nat,
         Replayed(h) = base \o CallRows(first, n)
  PROVE  /\ h \o Outcomes(first, n) \in Seq(SessionMessage)
         /\ Replayed(h \o Outcomes(first, n)) = base \o CallsSaid(first, n, {})
<1> DEFINE Rest(i) == first + i + 1 .. first + n
           Done(i) == /\ Outcomes(first, i) \in Seq(SessionMessage)
                      /\ h \o Outcomes(first, i) \in Seq(SessionMessage)
                      /\ Replayed(h \o Outcomes(first, i)) = base \o CallsSaid(first, n, Rest(i))
           T == {i \in Nat : i <= n => Done(i)}
<1>1. 0 \in T
  <2>1. Outcomes(first, 0) = <<>>
    BY DEF Outcomes
  <2>2. h \o <<>> = h
    BY ConcatNone
  <2>3. first + 0 + 1 = first + 1
    OBVIOUS
  <2>4. Rest(0) = first + 1 .. first + n
    BY <2>3
  <2>5. <<>> \in Seq(SessionMessage) /\ CallRows(first, n) = CallsSaid(first, n, first + 1 .. first + n)
    BY CallsAsked
  <2> HIDE DEF Rest
  <2>6. Replayed(h \o Outcomes(first, 0)) = base \o CallsSaid(first, n, Rest(0))
    BY <2>1, <2>2, <2>4, <2>5
  <2>7. Done(0)
    BY <2>1, <2>2, <2>5, <2>6
  <2> HIDE DEF Done
  <2> QED
    BY <2>7
<1>2. ASSUME NEW i \in Nat, i <= n => Done(i), i + 1 <= n PROVE Done(i + 1)
  <2> DEFINE call == first + (i + 1)
             s == Outcomes(first, i)
             m == Result(call)
  <2>1. i <= n /\ i + 1 \in 1 .. n /\ call \in Nat
    BY <1>2
  <2>2. /\ s \in Seq(SessionMessage) /\ h \o s \in Seq(SessionMessage)
        /\ Replayed(h \o s) = base \o CallsSaid(first, n, Rest(i))
    BY <1>2, <2>1
  <2>3. m \in SessionMessage
    <3>1. <<>> \in Seq(Block)
      OBVIOUS
    <3> HIDE DEF call
    <3> QED
      BY <2>1, <3>1, StoredMessages
  <2>4. Outcomes(first, i + 1) = Append(s, m)
    <3> DEFINE t == Outcomes(first, i + 1)
    <3>1. Len(s) = i /\ \A k \in 1 .. i : s[k] = Result(first + k)
      BY DEF Outcomes
    <3>2. t[i + 1] = m /\ \A k \in 1 .. i : t[k] = s[k]
      BY <3>1 DEF Outcomes
    <3>3. t \in [1 .. i + 1 -> SessionMessage]
      <4>1. \A k \in 1 .. i + 1 : k \in 1 .. i \/ k = i + 1
        OBVIOUS
      <4>2. \A k \in 1 .. i : s[k] \in SessionMessage
        BY <2>2, <3>1
      <4>3. \A k \in 1 .. i + 1 : t[k] \in SessionMessage
        BY <2>3, <3>2, <4>1, <4>2
      <4> QED
        BY <4>3 DEF Outcomes
    <3> HIDE DEF t, s, m
    <3> QED
      BY <2>2, <2>3, <3>1, <3>2, <3>3, AppendIs, SMTT(30) DEF t
  <2>5. h \o Append(s, m) = Append(h \o s, m)
    <3> HIDE DEF s, m
    <3> QED
      BY <2>2, <2>3, ConcatAppend, SMTT(30)
  <2> DEFINE g == h \o s
             t == Append(g, m)
  <2>6. t \in Seq(SessionMessage) /\ Replayed(t) = Answered(Replayed(g), call)
    <3> HIDE DEF s, g, call
    <3> QED
      BY <2>1, <2>2, ReplayResult DEF g
  <2>7. Answered(base \o CallsSaid(first, n, Rest(i)), call) = base \o CallsSaid(first, n, Rest(i) \ {call})
    <3> DEFINE j == i + 1
    <3>1. j \in 1 .. n
      BY <2>1
    <3> HIDE DEF j
    <3> DEFINE going == Rest(i)
    <3> HIDE DEF going
    <3>2. AnswerSettles(base, first, n, j, going)
      BY <3>1, CallSettled
    <3> QED
      BY <3>2 DEF j, going, AnswerSettles
  <2>8. Rest(i) \ {call} = Rest(i + 1)
    <3>1. ASSUME NEW x \in Rest(i), x # call PROVE x \in Rest(i + 1)
      BY <3>1
    <3>2. ASSUME NEW x \in Rest(i + 1) PROVE x \in Rest(i) /\ x # call
      BY <3>2
    <3> HIDE DEF Rest
    <3> QED
      BY <3>1, <3>2
  <2>9. Append(s, m) \in Seq(SessionMessage)
    BY <2>2, <2>3
  <2> HIDE DEF s, m, call
  <2> QED
    BY <2>2, <2>4, <2>5, <2>6, <2>7, <2>8, <2>9
<1>3. \A i \in Nat : i \in T => i + 1 \in T
  <2> HIDE DEF Done
  <2> SUFFICES ASSUME NEW i \in Nat, i <= n => Done(i), i + 1 <= n PROVE Done(i + 1)
    OBVIOUS
  <2> QED
    BY <1>2
<1>4. \A i \in Nat : i \in T
  <2> HIDE DEF T
  <2> QED
    BY <1>1, <1>3, Induction
<1>5. Done(n)
  <2>1. n \in T
    BY <1>4
  <2> QED
    BY <2>1
<1>6. Rest(n) = {}
  OBVIOUS
<1> QED
  BY <1>5, <1>6
\* The blocks of a message, however its fragments came.
Extended(bs, k) ==
  IF bs # <<>> /\ bs[Len(bs)][1] = k THEN [bs EXCEPT ![Len(bs)][2] = @ + 1] ELSE Append(bs, <<k, 1>>)

LEMMA ExtendedIs ==
  ASSUME NEW bs \in Seq(Block), NEW k \in Kinds
  PROVE  Extended(bs, k) \in Seq(Block)
<1>1. <<k, 1>> \in Block
  BY DEF Block
<1>2. CASE bs # <<>> /\ bs[Len(bs)][1] = k
  <2> DEFINE n == Len(bs)
             b == bs[n]
             e == [b EXCEPT ![2] = @ + 1]
  <2>1. n \in Nat /\ n \in 1 .. n /\ bs \in [1 .. n -> Block]
    BY <1>2
  <2>2. b \in Block
    BY <2>1
  <2>3. e \in Block
    BY <2>2, SMTT(30) DEF Block
  <2>4. Extended(bs, k) = [bs EXCEPT ![n] = e]
    BY <1>2 DEF Extended
  <2> HIDE DEF n, e
  <2>5. [bs EXCEPT ![n] = e] \in [1 .. n -> Block]
    BY <2>1, <2>3
  <2> QED
    BY <2>1, <2>4, <2>5
<1>3. CASE ~(bs # <<>> /\ bs[Len(bs)][1] = k)
  <2>1. Extended(bs, k) = Append(bs, <<k, 1>>)
    BY <1>3 DEF Extended
  <2> QED
    BY <1>1, <2>1
<1> QED
  BY <1>2, <1>3

LEMMA BlocksAre ==
  ASSUME NEW kinds \in Seq(Kinds)
  PROVE  Blocks(kinds) \in Seq(Block)
<1> DEFINE n == Len(kinds)
           next == [x \in (1 .. n) \X Seq(Block) |-> Extended(x[2], kinds[x[1]])]
           Is(g) == g = [k \in 0 .. n |-> IF k = 0 THEN <<>> ELSE Extended(g[k - 1], kinds[k])]
           blocks == CHOOSE g : Is(g)
<1>1. n \in Nat /\ \A k \in 1 .. n : kinds[k] \in Kinds
  OBVIOUS
<1>2. next \in [(1 .. n) \X Seq(Block) -> Seq(Block)]
  <2> HIDE DEF n
  <2>1. ASSUME NEW x \in (1 .. n) \X Seq(Block) PROVE Extended(x[2], kinds[x[1]]) \in Seq(Block)
    <3>1. x[2] \in Seq(Block) /\ kinds[x[1]] \in Kinds
      BY <1>1
    <3> QED
      BY <3>1, ExtendedIs
  <2> QED
    BY <2>1
<1>3. <<>> \in Seq(Block)
  OBVIOUS
<1>4. PICK f : IteratesTo(f, n, Seq(Block), <<>>, next)
  <2> HIDE DEF n, next
  <2> QED
    BY <1>1, <1>2, <1>3, FiniteRecursion
<1>5. /\ f \in [0 .. n -> Seq(Block)]
      /\ f = [i \in 0 .. n |-> IF i = 0 THEN <<>> ELSE next[<<i, f[i - 1]>>]]
  <2> HIDE DEF n, next
  <2> QED
    BY <1>4 DEF IteratesTo
<1>6. Blocks(kinds) = blocks[n]
  BY DEF Blocks, Extended
<1> HIDE DEF n
<1>7. \A k \in 0 .. n : (IF k = 0 THEN <<>> ELSE next[<<k, f[k - 1]>>])
                          = (IF k = 0 THEN <<>> ELSE Extended(f[k - 1], kinds[k]))
  <2> SUFFICES ASSUME NEW k \in 0 .. n, k # 0 PROVE next[<<k, f[k - 1]>>] = Extended(f[k - 1], kinds[k])
    OBVIOUS
  <2>1. k \in 1 .. n /\ k - 1 \in 0 .. n
    BY <1>1
  <2>2. <<k, f[k - 1]>> \in (1 .. n) \X Seq(Block)
    BY <1>5, <2>1
  <2> QED
    BY <2>2
<1> HIDE DEF next
<1>8. [k \in 0 .. n |-> IF k = 0 THEN <<>> ELSE next[<<k, f[k - 1]>>]]
        = [k \in 0 .. n |-> IF k = 0 THEN <<>> ELSE Extended(f[k - 1], kinds[k])]
  BY <1>7
<1>9. Is(f)
  BY <1>5, <1>8
<1>10. Is(blocks)
  BY <1>9
<1> HIDE DEF blocks
<1> DEFINE T == {k \in Nat : k <= n => blocks[k] \in Seq(Block)}
<1>11. blocks[0] = <<>> /\ \A k \in 1 .. n : blocks[k] = Extended(blocks[k - 1], kinds[k])
  <2>1. 0 \in 0 .. n /\ \A k \in 1 .. n : k \in 0 .. n /\ k # 0
    BY <1>1
  <2> QED
    BY <1>10, <2>1
<1>12. 0 \in T
  BY <1>3, <1>11
<1>13. ASSUME NEW k \in Nat, k \in T PROVE k + 1 \in T
  <2> SUFFICES ASSUME k + 1 <= n PROVE blocks[k + 1] \in Seq(Block)
    OBVIOUS
  <2>1. k + 1 \in 1 .. n /\ (k + 1) - 1 = k /\ blocks[k] \in Seq(Block)
    BY <1>1, <1>13
  <2>2. kinds[k + 1] \in Kinds
    BY <1>1, <2>1
  <2>3. blocks[k + 1] = Extended(blocks[k], kinds[k + 1])
    BY <1>11, <2>1
  <2> QED
    BY <2>1, <2>2, <2>3, ExtendedIs
<1>14. \A k \in Nat : k \in T
  <2> HIDE DEF T
  <2> QED
    BY <1>12, <1>13, Induction
<1> QED
  BY <1>1, <1>6, <1>14

LEMMA AmongTyped ==
  ASSUME NEW V, NEW list \in Seq(V), NEW S
  PROVE  Among(list, S) \in Seq(V)
<1> DEFINE K == {i \in DOMAIN list : list[i] \in S}
<1>1. [i \in DOMAIN list |-> IF list[i] \in S THEN <<list[i]>> ELSE <<>>] = Selecting(list, K)
  BY DEF Selecting
<1> QED
  BY <1>1, SelectedAre DEF Among

LEMMA FinalsAre ==
  ASSUME streamed \in Seq(Kinds)
  PROVE  \A blocks \in Finals : blocks \in Seq(Block)
<1>1. Among(streamed, {"thinking"}) \in Seq(Kinds) /\ Among(streamed, {"assistant"}) \in Seq(Kinds)
  BY AmongTyped
<1>2. Sorted(streamed) \in Seq(Kinds)
  <2> DEFINE a == Among(streamed, {"thinking"})
             b == Among(streamed, {"assistant"})
  <2> HIDE DEF a, b
  <2>1. a \in Seq(Kinds) /\ b \in Seq(Kinds)
    BY <1>1 DEF a, b
  <2>2. a \o b \in Seq(Kinds)
    BY <2>1, ConcatProperties
  <2> QED
    BY <2>2 DEF Sorted, a, b
<1> QED
  BY <1>2, BlocksAre DEF Finals
-----------------------------------------------------------------------------
(* The rows say what the messages say *)

TranscriptType ==
  /\ items \in Seq(Items) /\ made \in Nat /\ start \in Int /\ start >= -1 /\ pending \in {0, 1} /\ shell \in Nat
  /\ messages \in Seq(SessionMessage) /\ overflow \in SUBSET Seq(Block)
  /\ streamed \in Seq(Kinds) /\ todo \in Seq(Nat)
  /\ open \subseteq Nat /\ (phase # "tools" => open = {})
  /\ phase = "tools" => messages # <<>> /\ messages[Len(messages)].calls \in 0 .. CallsOf(messages)

\* No thinking that a new fragment would be added to.
Steady(list) == list # <<>> => list[Len(list)].role # "thinking"

\* While the tools of a reply run, n of its k calls have a row.
CallingAt(base, first, k, n) ==
  /\ messages # <<>> /\ messages[Len(messages)].calls = k /\ CallsOf(messages) = first + k
  /\ todo = [i \in 1 .. k - n |-> first + n + i] /\ open \subseteq first + 1 .. first + n
  /\ Replayed(messages) = base \o CallRows(first, k)
  /\ Conversation(items) = base \o CallsSaid(first, n, open)
  /\ n > 0 => Steady(items)

Resting == phase \in {"idle", "asked", "ended"} => Conversation(items) = Replayed(messages)
Sending ==
  phase = "sent" =>
    Conversation(items) = Replayed(messages) \o (IF pending = 0 THEN <<>> ELSE <<Pair("user", pending, 0)>>)
Ready == phase = "asked" \/ (phase = "sent" /\ pending # 0) => Steady(items)
Streams ==
  phase = "stream" => /\ start \in 0 .. Len(items) /\ Steady(SubSeq(items, 1, start))
                      /\ Conversation(SubSeq(items, 1, start)) = Replayed(messages)
Overflowed ==
  phase = "overflow" => \A blocks \in overflow : Conversation(items) \o ErrorRows(blocks) = Replayed(messages)
Calling ==
  phase = "tools" => \E base \in Seq(Saying), first \in Nat, k \in Nat \ {0} : \E n \in 0 .. k :
                       CallingAt(base, first, k, n)
ShellKept ==
  shell # 0 => /\ shell \in 1 .. Len(items) /\ items[shell].role = "shell"
               /\ phase = "stream" => shell <= start

Mirrored == Resting /\ Sending /\ Ready /\ Streams /\ Overflowed /\ Calling /\ ShellKept
TranscriptInv == TranscriptType /\ (~meddled => Mirrored)

\* One row more.
LEMMA RowAdded ==
  ASSUME items \in Seq(Items), made \in Nat, NEW role \in Roles, NEW i \in Nat, NEW j \in Nat,
         NewRows(<<Pair(role, i, j)>>)
  PROVE  /\ items' \in Seq(Items) /\ made' \in Nat /\ Len(items') = Len(items) + 1
         /\ \A k \in 1 .. Len(items) : items'[k] = items[k]
         /\ items'[Len(items')].role = role /\ items' # <<>>
         /\ role \in SilentRoles => Conversation(items') = Conversation(items)
         /\ role \notin SilentRoles => Conversation(items') = Append(Conversation(items), Pair(role, i, j))
<1> DEFINE r == Pair(role, i, j)
           new == <<r>>
<1>1. r \in Unnumbered /\ r.role = role /\ r.c = <<i, j>> /\ r \in Lines
  BY DEF Pair, Unnumbered, Counts, Lines
<1>2. /\ Conversation(new) = Face(r)
      /\ r.role \in SilentRoles => Face(r) = <<>>
      /\ r.role \notin SilentRoles => Face(r) = <<Pair(r.role, r.c[1], r.c[2])>>
  BY <1>1, ConversationOne, FaceIs
<1>3. Pair(r.role, r.c[1], r.c[2]) = r
  BY <1>1
<1> HIDE DEF r
<1>4. new \in Seq(Unnumbered) /\ Len(new) = 1 /\ new[1] = r
  BY <1>1
<1>5. items' = AddTo(items, made, new) /\ made' = made + Len(new)
  BY DEF NewRows, r
<1> HIDE DEF new
<1> DEFINE all == AddTo(items, made, new)
<1>6. /\ all \in Seq(Items) /\ Len(all) = Len(items) + Len(new)
      /\ \A k \in 1 .. Len(items) : all[k] = items[k]
      /\ \A k \in 1 .. Len(new) : all[Len(items) + k].role = new[k].role
      /\ Conversation(all) = Conversation(items) \o Conversation(new)
  BY <1>4, RowsAdded
<1> HIDE DEF all
<1>7. items' = all
  BY <1>5 DEF all
<1>8. Conversation(items) \in Seq(Saying)
  <2>1. items \in Seq(Lines)
    BY DEF Lines
  <2> QED
    BY <2>1, FacesAre
<1>9. /\ role \in SilentRoles => Conversation(items') = Conversation(items)
      /\ role \notin SilentRoles => Conversation(items') = Append(Conversation(items), r)
  <2> DEFINE s == Conversation(items)
  <2>1. s \in Seq(Saying) /\ Conversation(items') = s \o Conversation(new)
    BY <1>6, <1>7, <1>8
  <2> HIDE DEF s
  <2>2. CASE role \in SilentRoles
    <3>1. Conversation(items') = s \o <<>>
      BY <1>1, <1>2, <2>1, <2>2 DEF new
    <3>2. s \o <<>> = s
      BY <2>1, ConcatNone
    <3> QED
      BY <2>2, <3>1, <3>2 DEF s
  <2>3. CASE role \notin SilentRoles
    <3>1. Conversation(new) = <<r>> /\ r \in Saying
      <4>1. Conversation(new) = <<r>>
        BY <1>1, <1>2, <1>3, <2>3 DEF new
      <4>2. r \in Saying
        BY <1>1, <1>3, <2>3, FaceIs
      <4> QED
        BY <4>1, <4>2
    <3>2. s \o <<r>> = Append(s, r)
      BY <2>1, <3>1
    <3> QED
      BY <2>1, <2>3, <3>1, <3>2 DEF s
  <2> QED
    BY <2>2, <2>3
<1>10. Len(items') = Len(items) + 1 /\ made' \in Nat /\ items' \in Seq(Items) /\ Len(items) \in Nat
  BY <1>4, <1>5, <1>6, <1>7
<1>11. items'[Len(items')].role = role /\ items' # <<>>
  <2>1. all[Len(items) + 1].role = new[1].role
    BY <1>4, <1>6
  <2>2. items' # <<>>
    BY <1>10
  <2> QED
    BY <1>1, <1>4, <1>7, <1>10, <2>1, <2>2
<1> QED
  BY <1>6, <1>7, <1>9, <1>10, <1>11 DEF r

\* The beginning of a list that goes on differently.
LEMMA SameStart ==
  ASSUME NEW T, NEW a \in Seq(T), NEW b \in Seq(T), NEW s \in Nat, s <= Len(a), s <= Len(b),
         \A k \in 1 .. s : a[k] = b[k]
  PROVE  SubSeq(a, 1, s) = SubSeq(b, 1, s) /\ SubSeq(a, 1, s) \in Seq(T) /\ Len(SubSeq(a, 1, s)) = s
<1>1. \A k \in 1 .. s : a[k] \in T /\ b[k] \in T
  OBVIOUS
<1>2. /\ SubSeq(a, 1, s) \in Seq(T) /\ Len(SubSeq(a, 1, s)) = s
      /\ \A k \in 1 .. s : SubSeq(a, 1, s)[k] = a[k]
  BY <1>1
<1>3. /\ SubSeq(b, 1, s) \in Seq(T) /\ Len(SubSeq(b, 1, s)) = s
      /\ \A k \in 1 .. s : SubSeq(b, 1, s)[k] = b[k]
  BY <1>1
<1> DEFINE x == SubSeq(a, 1, s)
           y == SubSeq(b, 1, s)
<1> HIDE DEF x, y
<1>4. x = y
  BY <1>2, <1>3, SeqEqual DEF x, y
<1> QED
  BY <1>2, <1>4 DEF x, y

\* Rows with the same faces say the same.
LEMMA SameFaces ==
  ASSUME NEW a \in Seq(Lines), NEW b \in Seq(Lines), Len(a) = Len(b),
         \A k \in 1 .. Len(a) : Face(a[k]) = Face(b[k])
  PROVE  Conversation(a) = Conversation(b)
<1> DEFINE n == Len(a)
<1>1. DOMAIN a = 1 .. n /\ DOMAIN b = 1 .. n
  OBVIOUS
<1>2. Faces(a) = Faces(b)
  BY <1>1 DEF Faces
<1> QED
  BY <1>2, ConversationFaces

LEMMA MirrorKept ==
  ASSUME TranscriptInv, ~meddled, phase # "stream",
         UNCHANGED <<messages, phase, todo, open, pending, overflow>>,
         Conversation(items') = Conversation(items), Steady(items) => Steady(items'), ShellKept'
  PROVE  Mirrored'
<1>1. Mirrored
  BY DEF TranscriptInv
<1>2. Calling'
  <2> SUFFICES ASSUME phase = "tools"
               PROVE  \E base \in Seq(Saying), first \in Nat, k \in Nat \ {0} : \E n \in 0 .. k :
                        CallingAt(base, first, k, n)'
    BY DEF Calling
  <2>1. PICK base \in Seq(Saying), first \in Nat, k \in Nat \ {0} : \E n \in 0 .. k :
          CallingAt(base, first, k, n)
    BY <1>1 DEF Mirrored, Calling
  <2>2. PICK n \in 0 .. k : CallingAt(base, first, k, n)
    BY <2>1
  <2>3. CallingAt(base, first, k, n)'
    BY <2>2 DEF CallingAt
  <2> QED
    BY <2>3
<1>3. (Resting /\ Sending /\ Ready /\ Streams /\ Overflowed)'
  BY <1>1 DEF Mirrored, Resting, Sending, Ready, Streams, Overflowed
<1> QED
  BY <1>2, <1>3 DEF Mirrored

LEMMA AppendConcat ==
  ASSUME NEW T, NEW a \in Seq(T), NEW e \in T
  PROVE  a \o <<e>> = Append(a, e)
OBVIOUS

LEMMA TranscriptStarts == TranscriptInit => TranscriptInv
<1> SUFFICES ASSUME TranscriptInit PROVE TranscriptInv
  OBVIOUS
<1>1. TranscriptType
  BY DEF TranscriptInit, TranscriptType
<1>2. Conversation(items) = Replayed(messages)
  BY ReplayNone, ConversationNone DEF TranscriptInit
<1>3. Mirrored
  BY <1>2 DEF TranscriptInit, Mirrored, Resting, Sending, Ready, Streams, Overflowed, Calling, ShellKept
<1> QED
  BY <1>1, <1>3 DEF TranscriptInv

\* The row of a terminal command stays where it is.
LEMMA ShellStays ==
  ASSUME items \in Seq(Items), items' \in Seq(Items), ShellKept, Len(items) <= Len(items'),
         \A k \in 1 .. Len(items) : items'[k].role = items[k].role, shell' = shell, phase' # "stream"
  PROVE  ShellKept'
<1> DEFINE n == Len(items)
           m == Len(items')
<1>1. n \in Nat /\ m \in Nat /\ n <= m
  OBVIOUS
<1> HIDE DEF n, m
<1> QED
  BY <1>1 DEF ShellKept, n, m

LEMMA SubmitKept ==
  ASSUME TranscriptInv, NEW prompt \in PromptsMade, SubmitPrompt(prompt)
  PROVE  TranscriptInv'
<1>1. /\ TranscriptType /\ (~meddled => Mirrored)
      /\ phase = "idle" /\ phase' = "sent"
      /\ UNCHANGED <<start, overflow, messages, streamed, todo, open, shell, meddled>>
  BY DEF TranscriptInv, SubmitPrompt
<1>2. CASE prompt = 1
  <2>1. pending' = 1 /\ NewRows(<<Pair("user", 1, 0)>>)
    BY <1>2 DEF SubmitPrompt, UserRow
  <2>2. items \in Seq(Items) /\ made \in Nat /\ "user" \in Roles /\ "user" \notin SilentRoles
    BY <1>1 DEF TranscriptType, Roles, SpokenRoles, SilentRoles
  <2>3. /\ items' \in Seq(Items) /\ made' \in Nat /\ Len(items') = Len(items) + 1
        /\ \A k \in 1 .. Len(items) : items'[k] = items[k]
        /\ items'[Len(items')].role = "user" /\ items' # <<>>
        /\ Conversation(items') = Append(Conversation(items), Pair("user", 1, 0))
    BY <2>1, <2>2, RowAdded
  <2>4. TranscriptType'
    BY <1>1, <2>1, <2>3 DEF TranscriptType
  <2>5. ASSUME ~meddled PROVE Mirrored'
    <3>1. Conversation(items) = Replayed(messages) /\ ShellKept
      BY <1>1, <2>5 DEF Mirrored, Resting
    <3>2. Replayed(messages) \in Seq(Saying) /\ Pair("user", 1, 0) \in Saying
      BY <1>1, ReplayTyped, PairSays DEF TranscriptType, SpokenRoles
    <3>3. Conversation(items') = Replayed(messages) \o <<Pair("user", 1, 0)>>
      BY <2>3, <3>1, <3>2, AppendConcat
    <3>4. Sending'
      BY <1>1, <2>1, <3>3 DEF Sending
    <3>5. Ready'
      BY <1>1, <2>3 DEF Ready, Steady
    <3>6. ShellKept'
      BY <1>1, <2>2, <2>3, <3>1, ShellStays
    <3>7. (Resting /\ Streams /\ Overflowed /\ Calling)'
      BY <1>1 DEF Resting, Streams, Overflowed, Calling
    <3> QED
      BY <3>4, <3>5, <3>6, <3>7 DEF Mirrored
  <2> QED
    BY <1>1, <2>4, <2>5 DEF TranscriptInv
<1>3. CASE prompt # 1
  <2>1. pending' = 0 /\ UNCHANGED <<items, made>>
    BY <1>3 DEF SubmitPrompt
  <2>2. TranscriptType'
    BY <1>1, <2>1 DEF TranscriptType
  <2>3. ASSUME ~meddled PROVE Mirrored'
    <3>1. Conversation(items) = Replayed(messages) /\ ShellKept
      BY <1>1, <2>3 DEF Mirrored, Resting
    <3>2. Replayed(messages) \in Seq(Saying)
      BY <1>1, ReplayTyped DEF TranscriptType
    <3>3. Conversation(items) = Replayed(messages) \o <<>>
      BY <3>1, <3>2, ConcatNone
    <3>4. Sending'
      BY <1>1, <2>1, <3>3 DEF Sending
    <3>5. (Resting /\ Ready /\ Streams /\ Overflowed /\ Calling)'
      BY <1>1, <2>1 DEF Resting, Ready, Streams, Overflowed, Calling
    <3>6. ShellKept'
      BY <1>1, <2>1, <3>1 DEF ShellKept
    <3> QED
      BY <3>4, <3>5, <3>6 DEF Mirrored
  <2> QED
    BY <1>1, <2>2, <2>3 DEF TranscriptInv
<1> QED
  BY <1>2, <1>3

\* A user message that is confirmed: what is said goes on with it.
LEMMA UserSaid ==
  ASSUME TranscriptType, NEW n \in Nat, messages' = Append(messages, User(n)), phase' = "asked",
         Conversation(items') = Append(Replayed(messages), Pair("user", n, 0)), Steady(items'), ShellKept'
  PROVE  Mirrored'
<1>1. Replayed(messages') = Append(Replayed(messages), Pair("user", n, 0))
  BY ReplayUser DEF TranscriptType
<1> QED
  BY <1>1 DEF Mirrored, Resting, Sending, Ready, Streams, Overflowed, Calling

\* The transformed text of an optimistic message, rewritten where it stands.
LEMMA OptimisticReplaced ==
  ASSUME TranscriptType, NEW n \in Nat, pending = 1, ReplaceOptimistic(n)
  PROVE  /\ items' \in Seq(Items) /\ Len(items') = Len(items)
         /\ \A k \in 1 .. Len(items) : items'[k].role = items[k].role
         /\ Conversation(items) = Append(Replayed(messages), Pair("user", 1, 0)) =>
              Conversation(items') = Append(Replayed(messages), Pair("user", n, 0))
<1> DEFINE place == LastOf(items, "user", 1)
           c == <<n, 0>>
           L == Items
<1>1. items' = IF place = 0 THEN items ELSE Recounted(items, place, c)
  BY DEF ReplaceOptimistic, LastOf, Recounted
<1>2. items \in Seq(Items) /\ OfRows(Items)
  BY DEF TranscriptType, OfRows
<1>3. c \in Counts
  BY DEF Counts
<1> HIDE DEF c, L
<1>4. place = 0 \/ place \in 1 .. Len(items)
  <2>1. items \in Seq(L)
    BY <1>2 DEF L
  <2>2. /\ Free(items, "user", 1) => LastOf(items, "user", 1) = 0
        /\ ~Free(items, "user", 1) => IsLast(items, "user", 1, LastOf(items, "user", 1))
    BY <2>1, LastOfIs
  <2> QED
    BY <2>2 DEF IsLast
<1> HIDE DEF place
<1>5. CASE place = 0
  <2>1. /\ items' = items /\ items' \in Seq(Items) /\ Len(items') = Len(items)
        /\ \A k \in 1 .. Len(items) : items'[k].role = items[k].role
    BY <1>1, <1>2, <1>5
  <2>2. ASSUME Conversation(items) = Append(Replayed(messages), Pair("user", 1, 0))
        PROVE  FALSE
    <3> DEFINE u == Replayed(messages)
               e == Pair("user", 1, 0)
               v == <<>>
    <3>1. u \in Seq(Saying) /\ e \in Saying /\ v \in Seq(Saying) /\ "user" \in SpokenRoles
      <4>1. u \in Seq(Saying)
        BY ReplayTyped DEF TranscriptType
      <4>2. e \in Saying /\ "user" \in SpokenRoles
        BY PairSays DEF SpokenRoles
      <4> QED
        BY <4>1, <4>2
    <3>2. Matches(e, "user", 1) /\ Free(v, "user", 1)
      BY DEF Matches, Free, Pair
    <3>3. Conversation(items) = Append(u, e)
      BY <2>2
    <3> HIDE DEF u, e
    <3>4. Conversation(items) = Amid(u, e, v)
      BY <3>1, <3>3 DEF Amid
    <3> HIDE DEF v
    <3>5. LastOf(items, "user", 1) \in 1 .. Len(items)
      BY <1>2, <1>3, <3>1, <3>2, <3>4, LastChange
    <3> QED
      BY <1>2, <1>5, <3>5 DEF place
  <2> QED
    BY <2>1, <2>2
<1>6. CASE place # 0
  <2>1. place \in 1 .. Len(items) /\ items' = Recounted(items, place, c)
    BY <1>1, <1>4, <1>6
  <2>2. Recounted(items, place, c) \in Seq(L) /\ IsRecount(Recounted(items, place, c), items, place, c)
    BY <1>2, <1>3, <2>1, RecountedIs DEF L
  <2>3. /\ items' \in Seq(Items) /\ Len(items') = Len(items)
        /\ \A k \in 1 .. Len(items) : items'[k].role = items[k].role
    BY <2>1, <2>2 DEF L, IsRecount
  <2>4. ASSUME Conversation(items) = Append(Replayed(messages), Pair("user", 1, 0))
        PROVE  Conversation(items') = Append(Replayed(messages), Pair("user", n, 0))
    <3> DEFINE u == Replayed(messages)
               e == Pair("user", 1, 0)
               v == <<>>
               f == Pair("user", c[1], c[2])
    <3>1. u \in Seq(Saying) /\ e \in Saying /\ v \in Seq(Saying) /\ "user" \in SpokenRoles
      <4>1. u \in Seq(Saying)
        BY ReplayTyped DEF TranscriptType
      <4>2. e \in Saying /\ "user" \in SpokenRoles
        BY PairSays DEF SpokenRoles
      <4> QED
        BY <4>1, <4>2
    <3>2. Matches(e, "user", 1) /\ Free(v, "user", 1)
      BY DEF Matches, Free, Pair
    <3>3. Conversation(items) = Append(u, e)
      BY <2>4
    <3>4. f = Pair("user", n, 0) /\ f \in Saying
      BY <3>1, PairSays DEF c
    <3> HIDE DEF u, e, f
    <3>5. Conversation(items) = Amid(u, e, v)
      BY <3>1, <3>3 DEF Amid
    <3> HIDE DEF v
    <3>6. Conversation(Recounted(items, LastOf(items, "user", 1), c)) = Amid(u, Pair("user", c[1], c[2]), v)
      BY <1>2, <1>3, <3>1, <3>2, <3>5, LastChange
    <3>7. Amid(u, f, v) = Append(u, f)
      BY <3>1, <3>4 DEF Amid, v
    <3> QED
      BY <2>1, <3>4, <3>6, <3>7 DEF place, f, u
  <2> QED
    BY <2>3, <2>4
<1> QED
  BY <1>5, <1>6
LEMMA ConfirmKept ==
  ASSUME TranscriptInv, ConfirmPrompt
  PROVE  TranscriptInv'
<1>1. /\ TranscriptType /\ (~meddled => Mirrored)
      /\ phase = "sent" /\ phase' = "asked" /\ pending' = 0
      /\ UNCHANGED <<start, overflow, streamed, todo, open, shell, meddled>>
  BY DEF TranscriptInv, ConfirmPrompt
<1>2. PICK n \in {1, 2} :
        /\ messages' = Append(messages, User(n))
        /\ \/ n = pending /\ UNCHANGED <<items, made>>
           \/ n = 2 /\ pending = 1 /\ ReplaceOptimistic(n)
           \/ n = 2 /\ pending = 0 /\ NewRows(<<Pair("user", n, 0)>>)
  BY DEF ConfirmPrompt, UserRow
<1>3. n \in Nat /\ items \in Seq(Items) /\ made \in Nat /\ "user" \in Roles /\ "user" \notin SilentRoles
  BY <1>1 DEF TranscriptType, Roles, SpokenRoles, SilentRoles
<1>4. messages' \in Seq(SessionMessage)
  BY <1>1, <1>2, <1>3, ReplayUser DEF TranscriptType
<1>5. ASSUME items' \in Seq(Items), made' \in Nat PROVE TranscriptType'
  BY <1>1, <1>4, <1>5 DEF TranscriptType
<1>6. ASSUME ~meddled, items' \in Seq(Items), Len(items) <= Len(items'),
             \A k \in 1 .. Len(items) : items'[k].role = items[k].role, Steady(items'),
             Conversation(items') = Append(Replayed(messages), Pair("user", n, 0))
      PROVE  Mirrored'
  <2>1. ShellKept'
    <3>1. ShellKept
      BY <1>1, <1>6 DEF Mirrored
    <3> QED
      BY <1>1, <1>3, <1>6, <3>1, ShellStays
  <2> QED
    BY <1>1, <1>2, <1>3, <1>6, <2>1, UserSaid
<1>7. Replayed(messages) \in Seq(Saying)
  BY <1>1, ReplayTyped DEF TranscriptType
<1>8. ASSUME ~meddled, pending # 0
      PROVE  Steady(items) /\ Conversation(items) = Append(Replayed(messages), Pair("user", pending, 0))
  <2>1. Steady(items)
    BY <1>1, <1>8 DEF Mirrored, Ready
  <2>2. Conversation(items) = Replayed(messages) \o <<Pair("user", pending, 0)>>
    BY <1>1, <1>8 DEF Mirrored, Sending
  <2>3. pending \in Nat
    BY <1>1 DEF TranscriptType
  <2>4. Pair("user", pending, 0) \in Saying
    BY <2>3, PairSays DEF SpokenRoles
  <2> QED
    BY <1>7, <2>1, <2>2, <2>4, AppendConcat
<1>9. CASE n = pending /\ UNCHANGED <<items, made>>
  <2>1. items' \in Seq(Items) /\ made' \in Nat /\ Len(items) <= Len(items')
    BY <1>3, <1>9
  <2>2. ASSUME ~meddled PROVE Mirrored'
    <3>1. Steady(items') /\ Conversation(items') = Append(Replayed(messages), Pair("user", n, 0))
      BY <1>8, <1>9, <2>2 DEF Steady
    <3> QED
      BY <1>6, <1>9, <2>1, <2>2, <3>1
  <2> QED
    BY <1>1, <1>5, <2>1, <2>2 DEF TranscriptInv
<1>10. CASE n = 2 /\ pending = 1 /\ ReplaceOptimistic(n)
  <2>1. /\ items' \in Seq(Items) /\ Len(items') = Len(items)
        /\ \A k \in 1 .. Len(items) : items'[k].role = items[k].role
        /\ Conversation(items) = Append(Replayed(messages), Pair("user", 1, 0)) =>
             Conversation(items') = Append(Replayed(messages), Pair("user", n, 0))
    BY <1>1, <1>3, <1>10, OptimisticReplaced
  <2>2. made' \in Nat /\ Len(items) <= Len(items')
    BY <1>3, <1>10, <2>1 DEF ReplaceOptimistic
  <2>3. ASSUME ~meddled PROVE Mirrored'
    <3>1. Steady(items) /\ Conversation(items) = Append(Replayed(messages), Pair("user", pending, 0))
      BY <1>8, <1>10, <2>3
    <3>2. Steady(items')
      BY <1>3, <2>1, <3>1 DEF Steady
    <3> QED
      BY <1>6, <1>10, <2>1, <2>2, <2>3, <3>1, <3>2
  <2> QED
    BY <1>1, <1>5, <2>1, <2>2, <2>3 DEF TranscriptInv
<1>11. CASE n = 2 /\ pending = 0 /\ NewRows(<<Pair("user", n, 0)>>)
  <2>1. /\ items' \in Seq(Items) /\ made' \in Nat /\ Len(items') = Len(items) + 1
        /\ \A k \in 1 .. Len(items) : items'[k] = items[k]
        /\ items'[Len(items')].role = "user" /\ items' # <<>>
        /\ Conversation(items') = Append(Conversation(items), Pair("user", n, 0))
    BY <1>3, <1>11, RowAdded
  <2>2. Len(items) <= Len(items') /\ Steady(items')
    BY <1>3, <2>1 DEF Steady
  <2>3. ASSUME ~meddled PROVE Mirrored'
    <3>1. Conversation(items) = Replayed(messages) \o <<>>
      BY <1>1, <1>11, <2>3 DEF Mirrored, Sending
    <3>2. Conversation(items) = Replayed(messages)
      BY <1>7, <3>1, ConcatNone
    <3> QED
      BY <1>6, <2>1, <2>2, <2>3, <3>2
  <2> QED
    BY <1>1, <1>5, <2>1, <2>3 DEF TranscriptInv
<1> QED
  BY <1>2, <1>9, <1>10, <1>11

LEMMA SteerKept ==
  ASSUME TranscriptInv, Steer
  PROVE  TranscriptInv'
<1>1. /\ TranscriptType /\ (~meddled => Mirrored)
      /\ phase = "asked" /\ phase' = "asked" /\ messages' = Append(messages, User(1))
      /\ NewRows(<<Pair("user", 1, 0)>>)
      /\ UNCHANGED <<start, overflow, pending, streamed, todo, open, shell, meddled>>
  BY DEF TranscriptInv, Steer, UserRow
<1>2. items \in Seq(Items) /\ made \in Nat /\ "user" \in Roles /\ "user" \notin SilentRoles
  BY <1>1 DEF TranscriptType, Roles, SpokenRoles, SilentRoles
<1>3. /\ items' \in Seq(Items) /\ made' \in Nat /\ Len(items') = Len(items) + 1
      /\ \A k \in 1 .. Len(items) : items'[k] = items[k]
      /\ items'[Len(items')].role = "user" /\ items' # <<>>
      /\ Conversation(items') = Append(Conversation(items), Pair("user", 1, 0))
  BY <1>1, <1>2, RowAdded
<1>4. messages' \in Seq(SessionMessage)
  BY <1>1, ReplayUser DEF TranscriptType
<1>5. TranscriptType'
  BY <1>1, <1>3, <1>4 DEF TranscriptType
<1>6. ASSUME ~meddled PROVE Mirrored'
  <2>1. Conversation(items) = Replayed(messages) /\ ShellKept
    BY <1>1, <1>6 DEF Mirrored, Resting
  <2>2. Steady(items') /\ Len(items) <= Len(items')
    BY <1>2, <1>3 DEF Steady
  <2>3. ShellKept'
    BY <1>1, <1>2, <1>3, <2>1, <2>2, ShellStays
  <2> DEFINE n == 1
  <2>4. n \in Nat /\ messages' = Append(messages, User(n))
        /\ Conversation(items') = Append(Replayed(messages), Pair("user", n, 0))
    BY <1>1, <1>3, <2>1
  <2> HIDE DEF n
  <2> QED
    BY <1>1, <2>2, <2>3, <2>4, UserSaid
<1> QED
  BY <1>1, <1>5, <1>6 DEF TranscriptInv

LEMMA WholeSequence ==
  ASSUME NEW T, NEW a \in Seq(T)
  PROVE  SubSeq(a, 1, Len(a)) = a
OBVIOUS

LEMMA MessageStartKept ==
  ASSUME TranscriptInv, MessageStart
  PROVE  TranscriptInv'
<1>1. /\ TranscriptType /\ (~meddled => Mirrored)
      /\ phase = "asked" /\ phase' = "stream" /\ streamed' = <<>> /\ start' = Len(items)
      /\ UNCHANGED <<items, made, overflow, pending, messages, todo, open, shell, meddled>>
  BY DEF TranscriptInv, MessageStart
<1>2. TranscriptType'
  BY <1>1 DEF TranscriptType
<1>3. ASSUME ~meddled PROVE Mirrored'
  <2>1. Conversation(items) = Replayed(messages) /\ Steady(items) /\ ShellKept
    BY <1>1, <1>3 DEF Mirrored, Resting, Ready
  <2>2. items \in Seq(Items) /\ Len(items) \in Nat
    BY <1>1 DEF TranscriptType
  <2>3. SubSeq(items', 1, start') = items
    BY <1>1, <2>2, WholeSequence
  <2>4. Streams'
    <3>1. Steady(SubSeq(items', 1, start'))
      BY <2>1, <2>3
    <3>2. Conversation(SubSeq(items', 1, start')) = Replayed(messages')
      BY <1>1, <2>1, <2>3
    <3>3. start' \in 0 .. Len(items')
      BY <1>1, <2>2
    <3> QED
      BY <3>1, <3>2, <3>3 DEF Streams
  <2>5. ShellKept'
    BY <1>1, <2>1, <2>2 DEF ShellKept
  <2> QED
    BY <1>1, <2>4, <2>5 DEF Mirrored, Resting, Sending, Ready, Overflowed, Calling
<1> QED
  BY <1>1, <1>2, <1>3 DEF TranscriptInv

LEMMA TextDeltaKept ==
  ASSUME TranscriptInv, TextDelta
  PROVE  TranscriptInv'
<1>1. /\ TranscriptType /\ (~meddled => Mirrored) /\ phase = "stream"
      /\ streamed' = Append(streamed, "assistant")
      /\ UNCHANGED <<items, made, start, overflow, pending, messages, phase, todo, open, shell, meddled>>
  BY DEF TranscriptInv, TextDelta
<1>2. TranscriptType'
  BY <1>1 DEF TranscriptType, Kinds
<1>3. ASSUME ~meddled PROVE Mirrored'
  BY <1>1, <1>3 DEF Mirrored, Resting, Sending, Ready, Streams, Overflowed, Calling, ShellKept
<1> QED
  BY <1>1, <1>2, <1>3 DEF TranscriptInv
\* While a message streams the rows before it say what they said.
LEMMA StreamStays ==
  ASSUME items \in Seq(Items), items' \in Seq(Items), Streams, ShellKept, phase = "stream",
         UNCHANGED <<messages, phase, start>>, shell' \in {shell, 0}, start <= Len(items'),
         \A k \in 1 .. start : items'[k].role = items[k].role /\ Face(items'[k]) = Face(items[k])
  PROVE  Mirrored'
<1> DEFINE a == SubSeq(items, 1, start)
           b == SubSeq(items', 1, start)
<1>1. start \in Nat /\ start <= Len(items) /\ Steady(a) /\ Conversation(a) = Replayed(messages)
  BY DEF Streams
<1>2. /\ a \in Seq(Items) /\ Len(a) = start
      /\ \A k \in 1 .. start : a[k] = items[k]
  BY <1>1
<1>3. /\ b \in Seq(Items) /\ Len(b) = start
      /\ \A k \in 1 .. start : b[k] = items'[k]
  BY <1>1
<1> HIDE DEF a, b
<1>4. a \in Seq(Lines) /\ b \in Seq(Lines)
  BY <1>2, <1>3 DEF Lines
<1>5. \A k \in 1 .. Len(a) : Face(a[k]) = Face(b[k])
  BY <1>2, <1>3
<1>6. Conversation(a) = Conversation(b)
  BY <1>2, <1>3, <1>4, <1>5, SameFaces
<1>7. Steady(b)
  BY <1>1, <1>2, <1>3 DEF Steady
<1>8. Streams'
  <2>1. SubSeq(items', 1, start') = b
    BY DEF b
  <2>2. Conversation(SubSeq(items', 1, start')) = Replayed(messages') /\ Steady(SubSeq(items', 1, start'))
    BY <1>1, <1>6, <1>7, <2>1
  <2> QED
    BY <1>1, <2>2 DEF Streams
<1>9. ShellKept'
  BY <1>1 DEF ShellKept
<1> QED
  BY <1>8, <1>9 DEF Mirrored, Resting, Sending, Ready, Overflowed, Calling

\* A fragment of thinking that goes to the row that is there.
LEMMA ThinkingGrows ==
  ASSUME NEW list \in Seq(Items), list # <<>>
  PROVE  LET then == [list EXCEPT ![Len(list)].c[1] = @ + 1] IN
           /\ then \in Seq(Items) /\ Len(then) = Len(list)
           /\ \A k \in 1 .. Len(list) - 1 : then[k] = list[k]
<1> DEFINE n == Len(list)
           c == [list[n].c EXCEPT ![1] = @ + 1]
           r == [list[n] EXCEPT !.c = c]
           then == [list EXCEPT ![n] = r]
<1>1. n \in 1 .. Len(list)
  OBVIOUS
<1>2. list[n] \in Items
  BY <1>1
<1>3. c \in Counts
  <2>1. list[n].c \in Nat \X Nat
    BY <1>2 DEF Items, Counts
  <2> QED
    BY <2>1, SMTT(30) DEF Counts
<1> HIDE DEF c
<1>4. r \in Items
  BY <1>2, <1>3 DEF Items
<1> HIDE DEF r
<1>5. /\ then \in Seq(Items) /\ Len(then) = Len(list)
      /\ \A k \in 1 .. Len(list) - 1 : then[k] = list[k]
  BY <1>1, <1>4
<1> QED
  BY <1>5 DEF then, r, c

LEMMA ThinkingDeltaKept ==
  ASSUME TranscriptInv, ThinkingDelta
  PROVE  TranscriptInv'
<1>1. /\ TranscriptType /\ (~meddled => Mirrored) /\ phase = "stream"
      /\ streamed' = Append(streamed, "thinking")
      /\ UNCHANGED <<start, overflow, pending, messages, phase, todo, open, shell, meddled>>
  BY DEF TranscriptInv, ThinkingDelta
<1>2. items \in Seq(Items) /\ made \in Nat /\ "thinking" \in Roles
  BY <1>1 DEF TranscriptType, Roles, SpokenRoles, Kinds
<1>3. ASSUME items' \in Seq(Items), made' \in Nat PROVE TranscriptType'
  BY <1>1, <1>3 DEF TranscriptType, Kinds
<1>4. ASSUME ~meddled, items' \in Seq(Items), Len(items) <= Len(items'), \A k \in 1 .. start : items'[k] = items[k]
      PROVE  Mirrored'
  <2>1. Streams /\ ShellKept /\ start \in 0 .. Len(items)
    BY <1>1, <1>4 DEF Mirrored, Streams
  <2>2. start <= Len(items')
    BY <1>2, <1>4, <2>1
  <2>3. \A k \in 1 .. start : items'[k].role = items[k].role /\ Face(items'[k]) = Face(items[k])
    BY <1>4
  <2> QED
    BY <1>1, <1>2, <1>4, <2>1, <2>2, <2>3, StreamStays
<1>5. CASE items # <<>> /\ items[Len(items)].role = "thinking"
  <2>1. items' = [items EXCEPT ![Len(items)].c[1] = @ + 1] /\ made' = made
    BY <1>5 DEF ThinkingDelta
  <2>2. /\ items' \in Seq(Items) /\ Len(items') = Len(items)
        /\ \A k \in 1 .. Len(items) - 1 : items'[k] = items[k]
    BY <1>2, <1>5, <2>1, ThinkingGrows
  <2>3. ASSUME ~meddled PROVE Mirrored'
    <3>1. start \in 0 .. Len(items) /\ Steady(SubSeq(items, 1, start))
      BY <1>1, <2>3 DEF Mirrored, Streams
    <3>2. start # Len(items)
      <4>1. SUFFICES ASSUME start = Len(items) PROVE FALSE
        OBVIOUS
      <4>2. SubSeq(items, 1, start) = items
        BY <1>2, <4>1, WholeSequence
      <4>3. Steady(items)
        BY <3>1, <4>2
      <4> QED
        BY <1>5, <4>3 DEF Steady
    <3>3. \A k \in 1 .. start : items'[k] = items[k]
      BY <1>2, <2>2, <3>1, <3>2
    <3> QED
      BY <1>2, <1>4, <2>2, <2>3, <3>3
  <2> QED
    BY <1>1, <1>2, <1>3, <2>1, <2>2, <2>3 DEF TranscriptInv
<1>6. CASE ~(items # <<>> /\ items[Len(items)].role = "thinking")
  <2>1. NewRows(<<Pair("thinking", 1, 0)>>)
    BY <1>6 DEF ThinkingDelta
  <2>2. /\ items' \in Seq(Items) /\ made' \in Nat /\ Len(items') = Len(items) + 1
        /\ \A k \in 1 .. Len(items) : items'[k] = items[k]
    BY <1>2, <2>1, RowAdded
  <2>3. ASSUME ~meddled PROVE Mirrored'
    <3>1. start \in 0 .. Len(items)
      BY <1>1, <2>3 DEF Mirrored, Streams
    <3>2. \A k \in 1 .. start : items'[k] = items[k]
      BY <1>2, <2>2, <3>1
    <3> QED
      BY <1>2, <1>4, <2>2, <2>3, <3>2
  <2> QED
    BY <1>1, <1>3, <2>2, <2>3 DEF TranscriptInv
<1> QED
  BY <1>5, <1>6
\* The canonical blocks in the place of what was streamed.
LEMMA CanonicalIs ==
  ASSUME TranscriptType, NEW new \in Seq(Saying), Canonical(new)
  PROVE  /\ items' \in Seq(Items) /\ made' \in Nat
         /\ Streams /\ phase = "stream" =>
              /\ Conversation(items') = Replayed(messages) \o new
              /\ start \in 0 .. Len(items) /\ start <= Len(items')
              /\ \A k \in 1 .. start : items'[k] = items[k]
<1> DEFINE front == IF Streaming THEN SubSeq(items, 1, Least(start, Len(items))) ELSE items
           all == AddTo(front, made, new)
<1>1. items \in Seq(Items) /\ made \in Nat /\ start \in Int /\ start >= -1 /\ Len(items) \in Nat
  BY DEF TranscriptType
<1>2. items' = all /\ made' = made + Len(new)
  BY DEF Canonical
<1>3. new \in Seq(Unnumbered) /\ Len(new) \in Nat
  <2>1. Saying \subseteq Unnumbered
    BY SayingRows
  <2> QED
    BY <2>1
<1>4. front \in Seq(Items)
  <2>1. CASE Streaming
    <3>1. Least(start, Len(items)) \in Nat /\ Least(start, Len(items)) <= Len(items)
      BY <1>1, <2>1 DEF Streaming, Least
    <3> DEFINE s == Least(start, Len(items))
    <3>2. front = SubSeq(items, 1, s) /\ s \in Nat /\ s <= Len(items)
      BY <2>1, <3>1
    <3> HIDE DEF s, front
    <3>3. SubSeq(items, 1, s) \in Seq(Items)
      BY <1>1, <3>2
    <3> QED
      BY <3>2, <3>3
  <2>2. CASE ~Streaming
    BY <1>1, <2>2
  <2> QED
    BY <2>1, <2>2
<1> HIDE DEF front
<1>5. /\ all \in Seq(Items) /\ Len(all) = Len(front) + Len(new)
      /\ \A k \in 1 .. Len(front) : all[k] = front[k]
      /\ Conversation(all) = Conversation(front) \o Conversation(new)
  BY <1>1, <1>3, <1>4, RowsAdded
<1> HIDE DEF all
<1>6. Conversation(new) = new
  BY ConversationSame
<1>7. ASSUME Streams, phase = "stream"
      PROVE  /\ Conversation(items') = Replayed(messages) \o new
             /\ start \in 0 .. Len(items) /\ start <= Len(items')
             /\ \A k \in 1 .. start : items'[k] = items[k]
  <2>1. start \in 0 .. Len(items) /\ Conversation(SubSeq(items, 1, start)) = Replayed(messages)
    BY <1>7 DEF Streams
  <2>2. front = SubSeq(items, 1, start)
    BY <1>1, <2>1 DEF front, Streaming, Least
  <2>3. Len(front) = start /\ \A k \in 1 .. start : front[k] = items[k]
    BY <1>1, <2>1, <2>2
  <2>4. \A k \in 1 .. start : items'[k] = items[k]
    BY <1>2, <1>5, <2>3
  <2>5. start <= Len(items')
    BY <1>2, <1>3, <1>5, <2>1, <2>3
  <2> QED
    BY <1>2, <1>5, <1>6, <2>1, <2>2, <2>4, <2>5
<1>8. items' \in Seq(Items) /\ made' \in Nat
  BY <1>1, <1>2, <1>3, <1>5
<1> QED
  BY <1>7, <1>8

\* The row of a terminal command after the end of a message.
LEMMA ShellBefore ==
  ASSUME ShellKept, phase = "stream", start \in 0 .. Len(items), start <= Len(items'), items \in Seq(Items),
         items' \in Seq(Items), \A k \in 1 .. start : items'[k] = items[k], shell' = shell, phase' # "stream"
  PROVE  ShellKept'
BY DEF ShellKept

LEMMA LastAppended ==
  ASSUME NEW T, NEW a \in Seq(T), NEW e \in T
  PROVE  Append(a, e) # <<>> /\ Append(a, e)[Len(Append(a, e))] = e
OBVIOUS

LEMMA MessageEndKept ==
  ASSUME TranscriptInv, MessageEnd
  PROVE  TranscriptInv'
<1>1. /\ TranscriptType /\ (~meddled => Mirrored) /\ phase = "stream" /\ streamed' = <<>> /\ start' = -1
      /\ overflow' = {} /\ UNCHANGED <<pending, open, shell, meddled>>
  BY DEF TranscriptInv, MessageEnd, MessageOver
<1>2. PICK blocks \in Finals, calls \in 0 .. MaxCalls :
        /\ Canonical(BlockRows(blocks))
        /\ todo' = [i \in 1 .. calls |-> CallsOf(messages) + i]
        /\ messages' = Append(messages, ReplyStarts(blocks, calls, "stop"))
        /\ phase' = IF calls > 0 THEN "tools" ELSE "ended"
  BY DEF MessageEnd
<1>3. blocks \in Seq(Block) /\ calls \in Nat /\ messages \in Seq(SessionMessage) /\ open = {} /\ items \in Seq(Items)
  <2>1. blocks \in Seq(Block)
    BY <1>1, <1>2, FinalsAre DEF TranscriptType
  <2> QED
    BY <1>1, <2>1, TranscriptAssumption DEF TranscriptType
<1>4. CallsOf(messages) \in Nat /\ Replayed(messages) \in Seq(Saying)
  BY <1>3, ReplayTyped
<1>5. BlockRows(blocks) \in Seq(Saying)
  BY <1>3, RowsOfBlocks
<1>6a. Replayed(messages) \o BlockRows(blocks) \in Seq(Saying)
  BY <1>4, <1>5
<1>6b. PICK first \in Nat : first = CallsOf(messages)
  BY <1>4
<1>6. PICK base \in Seq(Saying) : base = Replayed(messages) \o BlockRows(blocks)
  BY <1>6a
<1>7. /\ messages' \in Seq(SessionMessage)
      /\ Replayed(messages') = base \o CallRows(first, calls)
      /\ CallsOf(messages') = first + calls
  BY <1>2, <1>3, <1>6, <1>6b, ReplayReply
<1>8. messages' # <<>> /\ messages'[Len(messages')].calls = calls
  <2> DEFINE m == ReplyStarts(blocks, calls, "stop")
  <2>1. m \in SessionMessage /\ m.calls = calls /\ messages' = Append(messages, m)
    <3>1. m \in SessionMessage
      BY <1>3, StoredMessages
    <3>2. m.calls = calls
      BY DEF ReplyStarts
    <3> QED
      BY <1>2, <3>1, <3>2
  <2> HIDE DEF m
  <2>2. Append(messages, m) # <<>> /\ Append(messages, m)[Len(Append(messages, m))] = m
    BY <1>3, <2>1, LastAppended
  <2> QED
    BY <2>1, <2>2
<1>9. /\ items' \in Seq(Items) /\ made' \in Nat
      /\ Streams => /\ Conversation(items') = base
                    /\ start \in 0 .. Len(items) /\ start <= Len(items')
                    /\ \A k \in 1 .. start : items'[k] = items[k]
  <2> DEFINE new == BlockRows(blocks)
  <2>1. new \in Seq(Saying) /\ Canonical(new)
    BY <1>2, <1>5
  <2> HIDE DEF new
  <2>2. /\ items' \in Seq(Items) /\ made' \in Nat
        /\ Streams /\ phase = "stream" =>
             /\ Conversation(items') = Replayed(messages) \o new
             /\ start \in 0 .. Len(items) /\ start <= Len(items')
             /\ \A k \in 1 .. start : items'[k] = items[k]
    BY <1>1, <2>1, CanonicalIs
  <2> QED
    BY <1>1, <1>6, <2>2 DEF new
<1>10. todo' = [i \in 1 .. calls |-> first + i] /\ todo' \in Seq(Nat)
  BY <1>2, <1>3, <1>6b, SMTT(30)
<1>11. TranscriptType'
  <2>1. messages'[Len(messages')].calls \in 0 .. CallsOf(messages')
    BY <1>3, <1>7, <1>8
  <2> QED
    BY <1>1, <1>2, <1>3, <1>7, <1>8, <1>9, <1>10, <2>1, SMTT(30) DEF TranscriptType
<1>12. ASSUME ~meddled PROVE Mirrored'
  <2>1. Streams /\ ShellKept
    BY <1>1, <1>12 DEF Mirrored
  <2>2. ShellKept'
    BY <1>1, <1>2, <1>3, <1>9, <2>1, ShellBefore
  <2>3. Resting'
    <3> SUFFICES ASSUME phase' \in {"idle", "asked", "ended"}
                 PROVE  Conversation(items') = Replayed(messages')
      BY DEF Resting
    <3>1. calls = 0
      BY <1>2, <1>3
    <3>2. CallRows(first, calls) = <<>>
      BY <3>1, RowsOfCalls
    <3>3. Replayed(messages') = base
      BY <1>6, <1>7, <3>2, ConcatNone
    <3> QED
      BY <1>9, <2>1, <3>3
  <2>4. Calling'
    <3> SUFFICES ASSUME phase' = "tools"
                 PROVE  \E n \in 0 .. calls : CallingAt(base, first, calls, n)'
      BY <1>2, <1>3 DEF Calling
    <3>1. PICK n \in 0 .. calls : n = 0 /\ calls - n = calls
      BY <1>3
    <3>2. CallsSaid(first, n, open') = <<>>
      BY <3>1 DEF CallsSaid
    <3>3. Conversation(items') = base \o CallsSaid(first, n, open')
      BY <1>6, <1>9, <2>1, <3>2, ConcatNone
    <3>4. todo' = [i \in 1 .. calls - n |-> first + n + i]
      BY <1>10, <3>1
    <3>5. open' \subseteq first + 1 .. first + n
      BY <1>1, <1>3
    <3>6. CallingAt(base, first, calls, n)'
      BY <1>7, <1>8, <3>1, <3>3, <3>4, <3>5 DEF CallingAt
    <3> QED
      BY <3>1, <3>6
  <2> QED
    BY <1>2, <2>2, <2>3, <2>4 DEF Mirrored, Sending, Ready, Streams, Overflowed
<1> QED
  BY <1>1, <1>11, <1>12 DEF TranscriptInv
LEMMA MessageFailedKept ==
  ASSUME TranscriptInv, MessageFailed
  PROVE  TranscriptInv'
<1>1. /\ TranscriptType /\ (~meddled => Mirrored) /\ phase = "stream" /\ streamed' = <<>> /\ start' = -1
      /\ overflow' = {} /\ phase' = "ended" /\ UNCHANGED <<pending, todo, open, shell, meddled>>
  BY DEF TranscriptInv, MessageFailed, MessageOver
<1>2. PICK blocks \in Finals :
        /\ Canonical(ErrorRows(blocks))
        /\ messages' = Append(messages, ReplyStarts(blocks, 0, "error"))
  BY DEF MessageFailed
<1>3. blocks \in Seq(Block) /\ messages \in Seq(SessionMessage) /\ items \in Seq(Items)
  BY <1>1, <1>2, FinalsAre DEF TranscriptType
<1> DEFINE new == ErrorRows(blocks)
<1>4. new \in Seq(Saying) /\ Canonical(new)
  BY <1>2, <1>3, RowsOfBlocks
<1>5. messages' \in Seq(SessionMessage) /\ Replayed(messages') = Replayed(messages) \o new
  BY <1>2, <1>3, ReplayFailed
<1> HIDE DEF new
<1>6. /\ items' \in Seq(Items) /\ made' \in Nat
      /\ Streams => /\ Conversation(items') = Replayed(messages) \o new
                    /\ start \in 0 .. Len(items) /\ start <= Len(items')
                    /\ \A k \in 1 .. start : items'[k] = items[k]
  BY <1>1, <1>4, CanonicalIs
<1>7. TranscriptType'
  BY <1>1, <1>5, <1>6 DEF TranscriptType
<1>8. ASSUME ~meddled PROVE Mirrored'
  <2>1. Streams /\ ShellKept
    BY <1>1, <1>8 DEF Mirrored
  <2>2. ShellKept'
    BY <1>1, <1>3, <1>6, <2>1, ShellBefore
  <2>3. Conversation(items') = Replayed(messages')
    BY <1>5, <1>6, <2>1
  <2> QED
    BY <1>1, <2>2, <2>3 DEF Mirrored, Resting, Sending, Ready, Streams, Overflowed, Calling
<1> QED
  BY <1>1, <1>7, <1>8 DEF TranscriptInv

LEMMA MessageOverflowedKept ==
  ASSUME TranscriptInv, MessageOverflowed
  PROVE  TranscriptInv'
<1>1. /\ TranscriptType /\ (~meddled => Mirrored) /\ phase = "stream" /\ streamed' = <<>> /\ start' = -1
      /\ phase' = "overflow" /\ UNCHANGED <<pending, todo, open, shell, meddled>>
  BY DEF TranscriptInv, MessageOverflowed, MessageOver
<1>2. PICK blocks \in Finals :
        /\ Canonical(<<>>) /\ overflow' = {blocks}
        /\ messages' = Append(messages, ReplyStarts(blocks, 0, "error"))
  BY DEF MessageOverflowed
<1>3. blocks \in Seq(Block) /\ messages \in Seq(SessionMessage) /\ items \in Seq(Items)
  BY <1>1, <1>2, FinalsAre DEF TranscriptType
<1>4. messages' \in Seq(SessionMessage) /\ Replayed(messages') = Replayed(messages) \o ErrorRows(blocks)
  BY <1>2, <1>3, ReplayFailed
<1> DEFINE new == <<>>
<1>5. new \in Seq(Saying) /\ Canonical(new)
  BY <1>2
<1> HIDE DEF new
<1>6. /\ items' \in Seq(Items) /\ made' \in Nat
      /\ Streams => /\ Conversation(items') = Replayed(messages) \o new
                    /\ start \in 0 .. Len(items) /\ start <= Len(items')
                    /\ \A k \in 1 .. start : items'[k] = items[k]
  BY <1>1, <1>5, CanonicalIs
<1>7. TranscriptType'
  <2>1. overflow' \in SUBSET Seq(Block)
    BY <1>2, <1>3
  <2> QED
    BY <1>1, <1>4, <1>6, <2>1 DEF TranscriptType
<1>8. ASSUME ~meddled PROVE Mirrored'
  <2>1. Streams /\ ShellKept
    BY <1>1, <1>8 DEF Mirrored
  <2>2. ShellKept'
    BY <1>1, <1>3, <1>6, <2>1, ShellBefore
  <2>3. Replayed(messages) \o new = Replayed(messages)
    <3>1. Replayed(messages) \in Seq(Saying)
      BY <1>3, ReplayTyped
    <3> QED
      BY <3>1, ConcatNone DEF new
  <2>4. Conversation(items') \o ErrorRows(blocks) = Replayed(messages')
    BY <1>4, <1>6, <2>1, <2>3
  <2>5. Overflowed'
    <3>1. \A b \in overflow' : b = blocks
      BY <1>2
    <3> SUFFICES ASSUME NEW b \in overflow'
                 PROVE  Conversation(items') \o ErrorRows(b) = Replayed(messages')
      BY DEF Overflowed
    <3>2. b = blocks
      BY <3>1
    <3> QED
      BY <2>4, <3>2
  <2> QED
    BY <1>1, <2>2, <2>5 DEF Mirrored, Resting, Sending, Ready, Streams, Calling
<1> QED
  BY <1>1, <1>7, <1>8 DEF TranscriptInv

LEMMA OverflowStandsKept ==
  ASSUME TranscriptInv, OverflowStands
  PROVE  TranscriptInv'
<1>1. /\ TranscriptType /\ (~meddled => Mirrored) /\ phase = "overflow" /\ phase' = "ended" /\ overflow' = {}
      /\ UNCHANGED <<start, pending, messages, streamed, todo, open, shell, meddled>>
  BY DEF TranscriptInv, OverflowStands
<1>2. PICK blocks \in overflow : NewRows(<<Pair("status", 0, 0)>> \o ErrorRows(blocks))
  BY DEF OverflowStands
<1>3. blocks \in Seq(Block) /\ messages \in Seq(SessionMessage) /\ items \in Seq(Items) /\ made \in Nat
      /\ overflow \in SUBSET Seq(Block)
  BY <1>1, <1>2 DEF TranscriptType
<1> DEFINE r == Pair("status", 0, 0)
           said == ErrorRows(blocks)
           one == <<r>>
           new == one \o said
           all == AddTo(items, made, new)
<1>4. said \in Seq(Saying)
  BY <1>3, RowsOfBlocks
<1>5. r \in Unnumbered /\ r \in Lines /\ r.role \in SilentRoles
  BY DEF Pair, Unnumbered, Lines, Counts, SilentRoles, Roles
<1>6. items' = all /\ made' = made + Len(new)
  BY <1>2 DEF NewRows
<1> HIDE DEF said
<1>7. Conversation(one) = <<>> /\ one \in Seq(Lines)
  <2> HIDE DEF r
  <2>1. Face(r) = <<>>
    BY <1>5, FaceIs
  <2>2. Conversation(<<r>>) = Face(r) /\ <<r>> \in Seq(Lines)
    BY <1>5, ConversationOne
  <2> QED
    BY <2>1, <2>2
<1> HIDE DEF r
<1>8. Conversation(new) = said /\ new \in Seq(Unnumbered)
  <2>1. Conversation(said) = said /\ said \in Seq(Lines)
    BY <1>4, ConversationSame
  <2>2. one \in Seq(Unnumbered)
    BY <1>5
  <2>3. said \in Seq(Unnumbered)
    <3>1. Saying \subseteq Unnumbered
      BY SayingRows
    <3> QED
      BY <1>4, <3>1
  <2> HIDE DEF one
  <2>4. Conversation(one \o said) = Conversation(one) \o Conversation(said)
    BY <1>7, <2>1, ConversationConcat
  <2>5. <<>> \o said = said
    BY <1>4, ConcatNone
  <2>6. Conversation(new) = said
    BY <1>7, <2>1, <2>4, <2>5
  <2>7. new \in Seq(Unnumbered)
    BY <2>2, <2>3
  <2> QED
    BY <2>6, <2>7
<1> HIDE DEF new
<1>9. /\ all \in Seq(Items) /\ Len(all) = Len(items) + Len(new)
      /\ \A i \in 1 .. Len(items) : all[i] = items[i]
      /\ Conversation(all) = Conversation(items) \o Conversation(new)
  BY <1>3, <1>8, RowsAdded
<1> HIDE DEF all
<1>10. Len(new) \in Nat
  BY <1>8
<1>11. items' \in Seq(Items) /\ made' \in Nat /\ Len(items) <= Len(items')
  BY <1>3, <1>6, <1>9, <1>10
<1>12. TranscriptType'
  BY <1>1, <1>11 DEF TranscriptType
<1>13. ASSUME ~meddled PROVE Mirrored'
  <2>1. ShellKept /\ Overflowed
    BY <1>1, <1>13 DEF Mirrored
  <2>2. ShellKept'
    <3>1. \A k \in 1 .. Len(items) : items'[k].role = items[k].role
      BY <1>6, <1>9
    <3> QED
      BY <1>1, <1>3, <1>11, <2>1, <3>1, ShellStays
  <2>3. Conversation(items) \o said = Replayed(messages)
    BY <1>1, <1>2, <2>1 DEF Overflowed, said
  <2>4. Conversation(items') = Replayed(messages')
    BY <1>1, <1>6, <1>8, <1>9, <2>3
  <2> QED
    BY <1>1, <2>2, <2>4 DEF Mirrored, Resting, Sending, Ready, Streams, Overflowed, Calling
<1> QED
  BY <1>1, <1>12, <1>13 DEF TranscriptInv
LEMMA ToolStartKept ==
  ASSUME TranscriptInv, ToolStart
  PROVE  TranscriptInv'
<1>1. /\ TranscriptType /\ (~meddled => Mirrored) /\ phase = "tools" /\ todo # <<>>
      /\ todo' = Tail(todo) /\ open' = open \cup {Head(todo)} /\ NewRows(<<Pair("tool", Head(todo), 0)>>)
      /\ UNCHANGED <<start, overflow, pending, messages, phase, streamed, shell, meddled>>
  BY DEF TranscriptInv, ToolStart
<1>2. items \in Seq(Items) /\ made \in Nat /\ "tool" \in Roles /\ "tool" \notin SilentRoles /\ todo \in Seq(Nat)
      /\ open \subseteq Nat
  BY <1>1 DEF TranscriptType, Roles, SpokenRoles, SilentRoles
<1>3. PICK call \in Nat : call = Head(todo)
  BY <1>1, <1>2
<1>4. /\ items' \in Seq(Items) /\ made' \in Nat /\ Len(items') = Len(items) + 1
      /\ \A i \in 1 .. Len(items) : items'[i] = items[i]
      /\ items'[Len(items')].role = "tool" /\ items' # <<>>
      /\ Conversation(items') = Append(Conversation(items), Pair("tool", call, 0))
  BY <1>1, <1>2, <1>3, RowAdded
<1>5. TranscriptType'
  <2>1. todo' \in Seq(Nat)
    BY <1>1, <1>2
  <2>2. open' \subseteq Nat
    BY <1>1, <1>2, <1>3
  <2> QED
    BY <1>1, <1>4, <2>1, <2>2 DEF TranscriptType
<1>6. ASSUME ~meddled PROVE Mirrored'
  <2>1. ShellKept /\ Calling
    BY <1>1, <1>6 DEF Mirrored
  <2>2. ShellKept'
    <3>1. Len(items) <= Len(items') /\ \A i \in 1 .. Len(items) : items'[i].role = items[i].role
      BY <1>2, <1>4
    <3> QED
      BY <1>1, <1>2, <1>4, <2>1, <3>1, ShellStays
  <2>3. PICK base \in Seq(Saying), first \in Nat, k \in Nat \ {0} : \E n \in 0 .. k :
          CallingAt(base, first, k, n)
    BY <1>1, <2>1 DEF Calling
  <2>4. PICK n \in 0 .. k : CallingAt(base, first, k, n)
    BY <2>3
  <2>5. todo = [i \in 1 .. k - n |-> first + n + i] /\ open \subseteq first + 1 .. first + n
    BY <2>4 DEF CallingAt
  <2>6. n < k /\ call = first + n + 1
    BY <1>1, <1>3, <2>3, <2>4, <2>5
  <2>7. PICK m \in 1 .. k : m = n + 1
    BY <2>4, <2>6
  <2>8. todo' = [i \in 1 .. k - m |-> first + m + i]
    BY <1>1, <2>3, <2>4, <2>5, <2>6, <2>7, SMTT(30)
  <2>9. open' \subseteq first + 1 .. first + m /\ open' = open \cup {first + n + 1}
    <3>1. open' = open \cup {first + n + 1}
      BY <1>1, <1>3, <2>6
    <3>2. ASSUME NEW x \in open' PROVE x \in first + 1 .. first + m
      <4>1. x \in first + 1 .. first + n \/ x = first + n + 1
        BY <2>5, <3>1
      <4> QED
        BY <2>3, <2>4, <2>7, <4>1
    <3> QED
      BY <3>1, <3>2
  <2>10. Conversation(items') = base \o CallsSaid(first, m, open')
    <3>1. CallsSaid(first, m, open') = Append(CallsSaid(first, n, open), Pair("tool", call, 0))
      <4>1. CallsSaid(first, n + 1, open \cup {first + n + 1})
              = Append(CallsSaid(first, n, open), Pair("tool", first + n + 1, 0))
        <5>1. n \in Nat
          BY <2>4
        <5> QED
          BY <2>5, <5>1, CallsMore
      <4> QED
        BY <2>6, <2>7, <2>9, <4>1
    <3>2. Conversation(items) = base \o CallsSaid(first, n, open)
      BY <2>4 DEF CallingAt
    <3>3. CallsSaid(first, n, open) \in Seq(Saying) /\ Pair("tool", call, 0) \in Saying
      <4>1. CallsSaid(first, n, open) \in Seq(Saying)
        BY <2>4, CallsSaidIs
      <4>2. Pair("tool", call, 0) \in Saying
        BY PairSays DEF SpokenRoles
      <4> QED
        BY <4>1, <4>2
    <3> DEFINE s == CallsSaid(first, n, open)
               e == Pair("tool", call, 0)
    <3>4. s \in Seq(Saying) /\ e \in Saying
      BY <3>3
    <3> HIDE DEF s, e
    <3>5. base \o Append(s, e) = Append(base \o s, e)
      BY <3>4, ConcatAppend
    <3> QED
      BY <1>4, <3>1, <3>2, <3>5 DEF s, e
  <2>11. Steady(items')
    BY <1>4 DEF Steady
  <2>12. CallingAt(base, first, k, m)'
    BY <1>1, <2>4, <2>8, <2>9, <2>10, <2>11 DEF CallingAt
  <2>13. Calling'
    <3>1. m \in 0 .. k
      BY <2>7
    <3> QED
      BY <2>12, <3>1 DEF Calling
  <2> QED
    BY <1>1, <2>2, <2>13 DEF Mirrored, Resting, Sending, Ready, Streams, Overflowed
<1> QED
  BY <1>1, <1>5, <1>6 DEF TranscriptInv

LEMMA ToolEndKept ==
  ASSUME TranscriptInv, NEW call \in open, ToolEnd(call)
  PROVE  TranscriptInv'
<1> DEFINE place == LastOf(items, "tool", call)
           c == <<call, 1>>
           L == Items
<1>1. /\ TranscriptType /\ (~meddled => Mirrored) /\ phase = "tools" /\ open' = open \ {call}
      /\ UNCHANGED <<start, overflow, pending, messages, phase, streamed, todo, shell, meddled>>
  BY DEF TranscriptInv, ToolEnd
<1>2. IF place > 0 THEN items' = Recounted(items, place, c) /\ made' = made ELSE NewRows(<<Pair("tool", call, 1)>>)
  BY DEF ToolEnd, LastOf, Recounted
<1>3. items \in Seq(Items) /\ made \in Nat /\ "tool" \in Roles /\ "tool" \in SpokenRoles
      /\ open \subseteq Nat /\ call \in Nat
  BY <1>1 DEF TranscriptType, Roles, SpokenRoles
<1>4. c \in Counts /\ c[1] = call /\ c[2] = 1
  BY <1>3 DEF Counts
<1> HIDE DEF c, L
<1>5. place = 0 \/ place \in 1 .. Len(items)
  <2>1. items \in Seq(L)
    BY <1>3 DEF L
  <2>2. /\ Free(items, "tool", call) => LastOf(items, "tool", call) = 0
        /\ ~Free(items, "tool", call) => IsLast(items, "tool", call, LastOf(items, "tool", call))
    BY <2>1, LastOfIs
  <2> QED
    BY <2>2 DEF IsLast
<1> HIDE DEF place
<1>6. ASSUME place \in 1 .. Len(items)
      PROVE  /\ items' = Recounted(items, place, c) /\ made' = made /\ items' \in Seq(Items) /\ Len(items') = Len(items)
             /\ \A i \in 1 .. Len(items) : items'[i].role = items[i].role
  <2>1. items' = Recounted(items, place, c) /\ made' = made
    BY <1>2, <1>6
  <2>2. Recounted(items, place, c) \in Seq(L) /\ IsRecount(Recounted(items, place, c), items, place, c)
    BY <1>3, <1>4, <1>6, RecountedIs DEF L, OfRows
  <2> QED
    BY <2>1, <2>2 DEF L, IsRecount
<1>7. TranscriptType'
  <2>1. items' \in Seq(Items) /\ made' \in Nat
    <3>1. CASE place = 0
      <4>1. NewRows(<<Pair("tool", call, 1)>>)
        BY <1>2, <3>1
      <4> QED
        BY <1>3, <4>1, RowAdded
    <3>2. CASE place \in 1 .. Len(items)
      BY <1>3, <1>6, <3>2
    <3> QED
      BY <1>5, <3>1, <3>2
  <2> QED
    BY <1>1, <1>3, <2>1 DEF TranscriptType
<1>8. ASSUME ~meddled PROVE Mirrored'
  <2>1. ShellKept /\ Calling
    BY <1>1, <1>8 DEF Mirrored
  <2>2. PICK base \in Seq(Saying), first \in Nat, k \in Nat \ {0} : \E n \in 0 .. k :
          CallingAt(base, first, k, n)
    BY <1>1, <2>1 DEF Calling
  <2>3. PICK n \in 0 .. k : CallingAt(base, first, k, n)
    BY <2>2
  <2>4. open \subseteq first + 1 .. first + n /\ Conversation(items) = base \o CallsSaid(first, n, open)
    BY <2>3 DEF CallingAt
  <2>5. PICK i \in 1 .. n : call = first + i
    <3>1. call - first \in 1 .. n /\ call = first + (call - first)
      BY <1>3, <2>2, <2>3, <2>4
    <3> QED
      BY <3>1
  <2>6. Settles(base \o CallsSaid(first, n, open), base \o CallsSaid(first, n, open'), call)
    <3>1. n \in Nat
      BY <2>3
    <3>2. Settles(base \o CallsSaid(first, n, open), base \o CallsSaid(first, n, open \ {first + i}), first + i)
      BY <2>5, <3>1, CallSettles
    <3> QED
      BY <1>1, <2>5, <3>2
  <2>7. PICK u \in Seq(Saying), v \in Seq(Saying), e \in Saying :
          /\ Conversation(items) = Amid(u, e, v)
          /\ base \o CallsSaid(first, n, open') = Amid(u, Pair("tool", call, 1), v)
          /\ Matches(e, "tool", call) /\ Free(v, "tool", call)
    BY <2>4, <2>6 DEF Settles
  <2>8. /\ LastOf(items, "tool", call) \in 1 .. Len(items)
        /\ Conversation(Recounted(items, LastOf(items, "tool", call), c)) = Amid(u, Pair("tool", c[1], c[2]), v)
    BY <1>3, <1>4, <2>7, LastChange
  <2>9. place \in 1 .. Len(items) /\ Conversation(Recounted(items, place, c)) = Amid(u, Pair("tool", call, 1), v)
    BY <1>4, <2>8 DEF place
  <2>10. Conversation(items') = base \o CallsSaid(first, n, open')
    BY <1>6, <2>7, <2>9
  <2>11. ShellKept'
    <3>1. Len(items) <= Len(items')
      BY <1>3, <1>6, <2>9
    <3>2. items' \in Seq(Items) /\ \A j \in 1 .. Len(items) : items'[j].role = items[j].role
      BY <1>6, <2>9
    <3> QED
      BY <1>1, <1>3, <2>1, <3>1, <3>2, ShellStays
  <2>12. n > 0 => Steady(items')
    <3>1. n > 0 => Steady(items)
      BY <2>3 DEF CallingAt
    <3>2. Len(items') = Len(items) /\ items' \in Seq(Items) /\ \A j \in 1 .. Len(items) : items'[j].role = items[j].role
      BY <1>6, <2>9
    <3>3. Steady(items) => Steady(items')
      BY <1>3, <3>2 DEF Steady
    <3> QED
      BY <3>1, <3>3
  <2>13. CallingAt(base, first, k, n)'
    <3>1. open' \subseteq first + 1 .. first + n
      BY <1>1, <2>4
    <3> QED
      BY <1>1, <2>3, <2>10, <2>12, <3>1 DEF CallingAt
  <2>14. Calling'
    BY <2>13 DEF Calling
  <2> QED
    BY <1>1, <2>11, <2>14 DEF Mirrored, Resting, Sending, Ready, Streams, Overflowed
<1> QED
  BY <1>1, <1>7, <1>8 DEF TranscriptInv

LEMMA ToolsDoneKept ==
  ASSUME TranscriptInv, ToolsDone
  PROVE  TranscriptInv'
<1>1. /\ TranscriptType /\ (~meddled => Mirrored) /\ phase = "tools" /\ phase' = "asked" /\ todo = <<>> /\ open = {}
      /\ UNCHANGED <<items, made, start, overflow, pending, streamed, todo, open, shell, meddled>>
  BY DEF TranscriptInv, ToolsDone
<1> DEFINE calls == messages[Len(messages)].calls
           last == CallsOf(messages)
<1>2. messages \in Seq(SessionMessage) /\ calls \in 0 .. last
  BY <1>1 DEF TranscriptType
<1>3. last \in Nat
  BY <1>2, ReplayTyped
<1>4. PICK k \in Nat, first \in Nat : k = calls /\ last = first + k
  <2>1. calls \in Nat /\ last - calls \in Nat /\ last = (last - calls) + calls
    BY <1>2, <1>3
  <2> QED
    BY <2>1
<1>5. messages' = messages \o Outcomes(first, k)
  <2>1. messages' = messages \o [i \in 1 .. calls |-> Result(last - calls + i)]
    BY DEF ToolsDone
  <2>2. \A i \in 1 .. k : last - calls + i = first + i
    BY <1>3, <1>4, SMTT(30)
  <2> HIDE DEF last, calls
  <2>3. [i \in 1 .. calls |-> Result(last - calls + i)] = [i \in 1 .. k |-> Result(first + i)]
    BY <1>4, <2>2
  <2> QED
    BY <2>1, <2>3 DEF Outcomes
<1>6. messages' \in Seq(SessionMessage)
  <2>1. \A i \in 1 .. k : first + i \in Nat
    BY <1>4
  <2>2. \A i \in 1 .. k : Result(first + i) \in SessionMessage
    <3> SUFFICES ASSUME NEW i \in 1 .. k PROVE Result(first + i) \in SessionMessage
      OBVIOUS
    <3> DEFINE n == first + i
    <3>1. n \in Nat
      BY <2>1
    <3> HIDE DEF n
    <3>2. Result(n) \in SessionMessage
      BY <3>1 DEF Result, SessionMessage, Block
    <3> QED
      BY <3>2 DEF n
  <2>3. Outcomes(first, k) \in Seq(SessionMessage)
    BY <1>4, <2>2, SMTT(30) DEF Outcomes
  <2> QED
    BY <1>2, <1>5, <2>3
<1>7. TranscriptType'
  BY <1>1, <1>6 DEF TranscriptType
<1>8. ASSUME ~meddled PROVE Mirrored'
  <2>1. ShellKept /\ Calling
    BY <1>1, <1>8 DEF Mirrored
  <2>2. PICK base \in Seq(Saying), from \in Nat, asked \in Nat \ {0} : \E n \in 0 .. asked :
          CallingAt(base, from, asked, n)
    BY <1>1, <2>1 DEF Calling
  <2>3. PICK n \in 0 .. asked : CallingAt(base, from, asked, n)
    BY <2>2
  <2>4. /\ calls = asked /\ last = from + asked /\ todo = [i \in 1 .. asked - n |-> from + n + i]
        /\ Replayed(messages) = base \o CallRows(from, asked)
        /\ Conversation(items) = base \o CallsSaid(from, n, open)
        /\ n > 0 => Steady(items)
    BY <2>3 DEF CallingAt
  <2>5. asked = k /\ from = first
    BY <1>3, <1>4, <2>2, <2>4, SMTT(30)
  <2>6. n = k
    <3>1. Len(todo) = asked - n
      BY <2>2, <2>3, <2>4
    <3> QED
      BY <1>1, <2>2, <2>3, <2>5, <3>1
  <2>7. Replayed(messages) = base \o CallRows(first, k)
    BY <2>4, <2>5
  <2>8. Replayed(messages \o Outcomes(first, k)) = base \o CallsSaid(first, k, {})
    BY <1>2, <1>4, <2>2, <2>7, ReplayResults, ZenonT(60)
  <2>9. Conversation(items') = Replayed(messages')
    BY <1>1, <1>5, <2>4, <2>5, <2>6, <2>8
  <2>10. Steady(items')
    <3>1. Steady(items)
      BY <2>2, <2>4, <2>5, <2>6
    <3> QED
      BY <1>1, <3>1 DEF Steady
  <2>11. ShellKept'
    BY <1>1, <2>1 DEF ShellKept
  <2> QED
    BY <1>1, <2>9, <2>10, <2>11 DEF Mirrored, Resting, Sending, Ready, Streams, Overflowed, Calling
<1> QED
  BY <1>1, <1>7, <1>8 DEF TranscriptInv
LEMMA SettleKept ==
  ASSUME TranscriptInv, SettleRun
  PROVE  TranscriptInv'
<1>1. /\ TranscriptType /\ (~meddled => Mirrored) /\ phase \in {"ended", "asked"} /\ phase' = "idle" /\ pending' = 0
      /\ UNCHANGED <<items, made, start, overflow, messages, streamed, todo, open, shell, meddled>>
  BY DEF TranscriptInv, SettleRun
<1>2. TranscriptType'
  BY <1>1 DEF TranscriptType
<1>3. ASSUME ~meddled PROVE Mirrored'
  BY <1>1, <1>3 DEF Mirrored, Resting, Sending, Ready, Streams, Overflowed, Calling, ShellKept
<1> QED
  BY <1>1, <1>2, <1>3 DEF TranscriptInv

\* The rows of commands say nothing of the conversation.
LEMMA SilentRow ==
  ASSUME TranscriptInv, NEW role \in SilentRoles, NewRows(<<Pair(role, 0, 0)>>),
         UNCHANGED <<start, overflow, pending, messages, phase, streamed, todo, open>>,
         shell' = shell \/ (shell' = Len(items) + 1 /\ role = "shell"), meddled' = (meddled \/ Streaming)
  PROVE  TranscriptInv'
<1>1. TranscriptType /\ (~meddled => Mirrored)
  BY DEF TranscriptInv
<1>2. items \in Seq(Items) /\ made \in Nat /\ role \in Roles /\ shell \in Nat /\ Len(items) \in Nat
  BY <1>1 DEF TranscriptType, Roles
<1>3. /\ items' \in Seq(Items) /\ made' \in Nat /\ Len(items') = Len(items) + 1
      /\ \A k \in 1 .. Len(items) : items'[k] = items[k]
      /\ items'[Len(items')].role = role /\ items' # <<>>
      /\ Conversation(items') = Conversation(items)
  BY <1>2, RowAdded
<1>4. TranscriptType'
  BY <1>1, <1>2, <1>3 DEF TranscriptType
<1>5. ASSUME ~meddled' PROVE Mirrored'
  <2>1. ~meddled /\ ~Streaming /\ Mirrored
    BY <1>1, <1>5
  <2>2. phase # "stream"
    BY <2>1 DEF Mirrored, Streams, Streaming
  <2>3. Steady(items')
    BY <1>3 DEF Steady, SilentRoles
  <2>4. ShellKept'
    <3>1. CASE shell' = shell
      <4>1. Len(items) <= Len(items') /\ \A k \in 1 .. Len(items) : items'[k].role = items[k].role
        BY <1>2, <1>3
      <4>2. ShellKept
        BY <2>1 DEF Mirrored
      <4> QED
        BY <1>2, <1>3, <2>2, <3>1, <4>1, <4>2, ShellStays
    <3>2. CASE shell' = Len(items) + 1 /\ role = "shell"
      BY <1>2, <1>3, <2>2, <3>2 DEF ShellKept
    <3> QED
      BY <3>1, <3>2
  <2> QED
    BY <1>3, <2>1, <2>2, <2>3, <2>4, MirrorKept
<1> QED
  BY <1>4, <1>5 DEF TranscriptInv

LEMMA CommandRowKept ==
  ASSUME TranscriptInv, CommandRow
  PROVE  TranscriptInv'
<1>1. /\ NewRows(<<Pair("status", 0, 0)>>) /\ meddled' = (meddled \/ Streaming) /\ shell' = shell
      /\ UNCHANGED <<start, overflow, pending, messages, phase, streamed, todo, open>> /\ "status" \in SilentRoles
  BY DEF CommandRow, sessionVars, SilentRoles
<1> QED
  BY <1>1, SilentRow

LEMMA TerminalStartKept ==
  ASSUME TranscriptInv, TerminalStart
  PROVE  TranscriptInv'
<1> DEFINE role == "shell"
<1>1. /\ NewRows(<<Pair(role, 0, 0)>>) /\ meddled' = (meddled \/ Streaming) /\ shell' = Len(items) + 1
      /\ UNCHANGED <<start, overflow, pending, messages, phase, streamed, todo, open>> /\ role \in SilentRoles
      /\ role = "shell"
  BY DEF TerminalStart, sessionVars, SilentRoles
<1> HIDE DEF role
<1> QED
  BY <1>1, SilentRow

LEMMA TerminalEndKept ==
  ASSUME TranscriptInv, TerminalEnd
  PROVE  TranscriptInv'
<1> DEFINE c == <<0, 1>>
           L == Items
<1>1. /\ TranscriptType /\ (~meddled => Mirrored) /\ shell # 0 /\ shell' = 0
      /\ UNCHANGED <<made, start, overflow, pending, messages, phase, streamed, todo, open, meddled>>
      /\ IF shell <= Len(items) THEN items' = Recounted(items, shell, c) ELSE items' = items
  BY DEF TranscriptInv, TerminalEnd, sessionVars, Recounted
<1>2. items \in Seq(Items) /\ shell \in Nat /\ Len(items) \in Nat /\ c \in Counts
  BY <1>1 DEF TranscriptType, Counts
<1> HIDE DEF c, L
<1>3. ASSUME shell <= Len(items)
      PROVE  /\ items' \in Seq(Items) /\ Len(items') = Len(items) /\ shell \in 1 .. Len(items)
             /\ \A k \in 1 .. Len(items) : k # shell => items'[k] = items[k]
             /\ \A k \in 1 .. Len(items) : items'[k].role = items[k].role
  <2>1. shell \in 1 .. Len(items)
    BY <1>1, <1>2, <1>3
  <2>2. Recounted(items, shell, c) \in Seq(L) /\ IsRecount(Recounted(items, shell, c), items, shell, c)
    BY <1>2, <2>1, RecountedIs DEF L, OfRows
  <2> QED
    BY <1>1, <1>3, <2>1, <2>2 DEF L, IsRecount
<1>4. items' \in Seq(Items)
  BY <1>1, <1>2, <1>3
<1>5. TranscriptType'
  BY <1>1, <1>4 DEF TranscriptType
<1>6. ASSUME ~meddled PROVE Mirrored'
  <2>1. Mirrored /\ shell \in 1 .. Len(items) /\ items[shell].role = "shell"
        /\ (phase = "stream" => shell <= start) /\ "shell" \in SilentRoles
    BY <1>1, <1>6 DEF Mirrored, ShellKept, SilentRoles
  <2>2. /\ items' = Recounted(items, shell, c) /\ Len(items') = Len(items)
        /\ \A k \in 1 .. Len(items) : k # shell => items'[k] = items[k]
        /\ \A k \in 1 .. Len(items) : items'[k].role = items[k].role
    BY <1>1, <1>2, <1>3, <2>1
  <2>3. CASE phase = "stream"
    <3>1. Streams /\ ShellKept /\ start \in 0 .. Len(items) /\ start <= Len(items')
      BY <1>2, <2>1, <2>2, <2>3 DEF Mirrored, Streams
    <3>2. ASSUME NEW k \in 1 .. start
          PROVE  items'[k].role = items[k].role /\ Face(items'[k]) = Face(items[k])
      <4>1. k \in 1 .. Len(items)
        BY <1>2, <3>1
      <4>2. CASE k = shell
        BY <2>1, <2>2, <4>1, <4>2 DEF Face
      <4>3. CASE k # shell
        BY <2>2, <4>1, <4>3
      <4> QED
        BY <4>2, <4>3
    <3> QED
      BY <1>1, <1>2, <1>4, <2>3, <3>1, <3>2, StreamStays
  <2>4. CASE phase # "stream"
    <3>1. Conversation(items') = Conversation(items)
      BY <1>2, <2>1, <2>2, SilentChange
    <3>2. Steady(items) => Steady(items')
      BY <1>2, <1>4, <2>2 DEF Steady
    <3>3. ShellKept'
      BY <1>1 DEF ShellKept
    <3> QED
      BY <1>1, <1>6, <2>4, <3>1, <3>2, <3>3, MirrorKept
  <2> QED
    BY <2>3, <2>4
<1> QED
  BY <1>1, <1>5, <1>6 DEF TranscriptInv

LEMMA ClearKept ==
  ASSUME TranscriptInv, Clear
  PROVE  TranscriptInv'
<1>1. TranscriptType /\ items' = <<>> /\ meddled' = TRUE
      /\ UNCHANGED <<made, start, overflow, pending, shell, messages, phase, streamed, todo, open>>
  BY DEF TranscriptInv, Clear, sessionVars
<1>2. TranscriptType'
  BY <1>1 DEF TranscriptType
<1> QED
  BY <1>1, <1>2 DEF TranscriptInv

LEMMA EscapeKept ==
  ASSUME TranscriptInv, EscapeRun
  PROVE  TranscriptInv'
<1>1. TranscriptType /\ phase' = "idle" /\ meddled' = TRUE /\ pending' = 0 /\ streamed' = <<>> /\ todo' = <<>>
      /\ open' = {} /\ UNCHANGED <<items, made, start, overflow, messages, shell>>
  BY DEF TranscriptInv, EscapeRun
<1>2. TranscriptType'
  BY <1>1 DEF TranscriptType
<1> QED
  BY <1>1, <1>2 DEF TranscriptInv

LEMMA ReopenKept ==
  ASSUME TranscriptInv, Reopen
  PROVE  TranscriptInv'
<1> DEFINE replay == Replayed(messages)
           all == AddTo(<<>>, made, replay)
<1>1. /\ TranscriptType /\ phase = "idle" /\ made' = made + Len(replay) /\ items' = all /\ meddled' = (shell # 0)
      /\ UNCHANGED <<start, overflow, pending, shell, messages, phase, streamed, todo, open>>
  BY DEF TranscriptInv, Reopen, sessionVars
<1>2. replay \in Seq(Saying) /\ made \in Nat
  BY <1>1, ReplayTyped DEF TranscriptType
<1> HIDE DEF replay
<1>3. replay \in Seq(Unnumbered) /\ Len(replay) \in Nat
  <2>1. Saying \subseteq Unnumbered
    BY SayingRows
  <2> QED
    BY <1>2, <2>1
<1> DEFINE none == <<>>
<1>4. none \in Seq(Items) /\ Conversation(none) = <<>>
  BY ConversationNone
<1> HIDE DEF none
<1>5. /\ AddTo(none, made, replay) \in Seq(Items)
      /\ Conversation(AddTo(none, made, replay)) = Conversation(none) \o Conversation(replay)
  BY <1>2, <1>3, <1>4, RowsAdded
<1>6. all = AddTo(none, made, replay)
  BY DEF none
<1> HIDE DEF all
<1>7. items' \in Seq(Items) /\ made' \in Nat
  BY <1>1, <1>2, <1>3, <1>5, <1>6
<1>8. Conversation(items') = replay
  <2>1. Conversation(replay) = replay
    BY <1>2, ConversationSame
  <2>2. <<>> \o replay = replay
    BY <1>2, ConcatNone
  <2> QED
    BY <1>1, <1>4, <1>5, <1>6, <2>1, <2>2
<1>9. TranscriptType'
  BY <1>1, <1>7 DEF TranscriptType
<1>10. ASSUME ~meddled' PROVE Mirrored'
  <2>1. shell' = 0
    BY <1>1, <1>10
  <2>2. Conversation(items') = Replayed(messages')
    BY <1>1, <1>8 DEF replay
  <2> QED
    BY <1>1, <2>1, <2>2 DEF Mirrored, Resting, Sending, Ready, Streams, Overflowed, Calling, ShellKept
<1> QED
  BY <1>9, <1>10 DEF TranscriptInv

\* What the user sees of the rows changes none of them.
LEMMA WatchingKept ==
  ASSUME TranscriptInv,
         UNCHANGED <<items, made, start, overflow, pending, messages, phase, streamed, todo, open, shell, meddled>>
  PROVE  TranscriptInv'
<1>1. TranscriptType'
  BY DEF TranscriptInv, TranscriptType
<1>2. ASSUME ~meddled PROVE Mirrored'
  <2>1. Mirrored
    BY <1>2 DEF TranscriptInv
  <2>2. Calling'
    <3>1. \A base, first, k, n : CallingAt(base, first, k, n) => CallingAt(base, first, k, n)'
      BY DEF CallingAt
    <3> QED
      BY <2>1, <3>1 DEF Mirrored, Calling
  <2> QED
    BY <2>1, <2>2 DEF Mirrored, Resting, Sending, Ready, Streams, Overflowed, ShellKept
<1> QED
  BY <1>1, <1>2 DEF TranscriptInv

LEMMA TranscriptMoves ==
  ASSUME TranscriptInv, TranscriptNext
  PROVE  TranscriptInv'
<1>1. ASSUME NEW prompt \in PromptsMade, SubmitPrompt(prompt) PROVE TranscriptInv'
  BY <1>1, SubmitKept
<1>2. ASSUME ConfirmPrompt PROVE TranscriptInv'
  BY <1>2, ConfirmKept
<1>3. ASSUME Steer PROVE TranscriptInv'
  BY <1>3, SteerKept
<1>4. ASSUME MessageStart PROVE TranscriptInv'
  BY <1>4, MessageStartKept
<1>5. ASSUME TextDelta PROVE TranscriptInv'
  BY <1>5, TextDeltaKept
<1>6. ASSUME ThinkingDelta PROVE TranscriptInv'
  BY <1>6, ThinkingDeltaKept
<1>7. ASSUME MessageEnd PROVE TranscriptInv'
  BY <1>7, MessageEndKept
<1>8. ASSUME MessageFailed PROVE TranscriptInv'
  BY <1>8, MessageFailedKept
<1>9. ASSUME MessageOverflowed PROVE TranscriptInv'
  BY <1>9, MessageOverflowedKept
<1>10. ASSUME OverflowStands PROVE TranscriptInv'
  BY <1>10, OverflowStandsKept
<1>11. ASSUME ToolStart PROVE TranscriptInv'
  BY <1>11, ToolStartKept
<1>12. ASSUME NEW call \in open, ToolEnd(call) PROVE TranscriptInv'
  BY <1>12, ToolEndKept
<1>13. ASSUME ToolsDone PROVE TranscriptInv'
  BY <1>13, ToolsDoneKept
<1>14. ASSUME SettleRun PROVE TranscriptInv'
  BY <1>14, SettleKept
<1>15. ASSUME CommandRow PROVE TranscriptInv'
  BY <1>15, CommandRowKept
<1>16. ASSUME TerminalStart PROVE TranscriptInv'
  BY <1>16, TerminalStartKept
<1>17. ASSUME TerminalEnd PROVE TranscriptInv'
  BY <1>17, TerminalEndKept
<1>18. ASSUME Clear PROVE TranscriptInv'
  BY <1>18, ClearKept
<1>19. ASSUME EscapeRun PROVE TranscriptInv'
  BY <1>19, EscapeKept
<1>20. ASSUME Reopen PROVE TranscriptInv'
  BY <1>20, ReopenKept
<1>21. ASSUME ToggleThinking \/ Scroll \/ ShiftWindow PROVE TranscriptInv'
  <2>1. UNCHANGED <<items, made, start, overflow, pending, messages, phase, streamed, todo, open, shell, meddled>>
    BY <1>21 DEF ToggleThinking, Scroll, ShiftWindow, sessionVars
  <2> QED
    BY <2>1, WatchingKept
<1> QED
  BY <1>1, <1>2, <1>3, <1>4, <1>5, <1>6, <1>7, <1>8, <1>9, <1>10, <1>11, <1>12, <1>13, <1>14, <1>15, <1>16, <1>17,
     <1>18, <1>19, <1>20, <1>21 DEF TranscriptNext

LEMMA TranscriptRests ==
  ASSUME TranscriptInv, UNCHANGED transcriptVars
  PROVE  TranscriptInv'
<1>1. UNCHANGED <<items, made, start, overflow, pending, messages, phase, streamed, todo, open, shell, meddled>>
  BY DEF transcriptVars
<1> QED
  BY <1>1, WatchingKept

LEMMA TranscriptShows ==
  ASSUME TranscriptInv
  PROVE  LiveIsReplay
<1> SUFFICES ASSUME phase = "idle", ~meddled
             PROVE  Conversation(items) = Conversation(Replayed(messages))
  BY DEF LiveIsReplay
<1>1. Conversation(items) = Replayed(messages) /\ messages \in Seq(SessionMessage)
  BY DEF TranscriptInv, TranscriptType, Mirrored, Resting
<1>2. Replayed(messages) \in Seq(Saying)
  BY <1>1, ReplayTyped
<1> QED
  BY <1>1, <1>2, ConversationSame
-----------------------------------------------------------------------------
(* The parts together.                                                     *)

TerminalInv == CalmRunInv /\ TranscriptInv /\ EditorInv /\ LoginInv /\ WindowInv /\ PickerInv

\* A part whose variables stay keeps its invariant.
LEMMA RunRests == CalmRunInv /\ UNCHANGED runVars => CalmRunInv'
BY RunStepInv

LEMMA EditorRests == EditorInv /\ UNCHANGED editorVars => EditorInv'
BY EditorStepInv

LEMMA LoginRests == LoginInv /\ UNCHANGED loginVars => LoginInv'
BY LoginStepInv

LEMMA WindowRests == WindowInv /\ UNCHANGED windowVars => WindowInv'
BY WindowStepInv

LEMMA PickerRests == PickerInv /\ UNCHANGED pickerVars => PickerInv'
BY PickerStepInv

LEMMA TerminalStepInv == TerminalInv /\ [Next]_vars => TerminalInv'
<1> SUFFICES ASSUME TerminalInv, [Next]_vars PROVE TerminalInv'
  OBVIOUS
<1> USE RunRests, TranscriptRests, EditorRests, LoginRests, WindowRests, PickerRests DEF TerminalInv
<1>1. CASE RunNext /\ UNCHANGED <<transcriptVars, editorVars, windowVars, pickerVars, loginVars>>
  BY <1>1, RunStepInv
<1>2. CASE TranscriptNext /\ UNCHANGED <<runVars, editorVars, windowVars, pickerVars, loginVars>>
  BY <1>2, TranscriptMoves
<1>3. CASE EditorNext /\ UNCHANGED <<runVars, transcriptVars, windowVars, pickerVars, loginVars>>
  BY <1>3, EditorStepInv
<1>4. CASE WindowNext /\ UNCHANGED <<runVars, transcriptVars, editorVars, pickerVars, loginVars>>
  BY <1>4, WindowStepInv
<1>5. CASE PickerNext /\ UNCHANGED <<runVars, transcriptVars, editorVars, windowVars, loginVars>>
  BY <1>5, PickerStepInv
<1>6. CASE LoginNext /\ UNCHANGED <<runVars, transcriptVars, editorVars, windowVars, pickerVars>>
  BY <1>6, LoginStepInv
<1>7. CASE UNCHANGED <<runVars, transcriptVars, editorVars, windowVars, pickerVars, loginVars>>
  BY <1>7
<1>8. \/ RunNext /\ UNCHANGED <<transcriptVars, editorVars, windowVars, pickerVars, loginVars>>
      \/ TranscriptNext /\ UNCHANGED <<runVars, editorVars, windowVars, pickerVars, loginVars>>
      \/ EditorNext /\ UNCHANGED <<runVars, transcriptVars, windowVars, pickerVars, loginVars>>
      \/ WindowNext /\ UNCHANGED <<runVars, transcriptVars, editorVars, pickerVars, loginVars>>
      \/ PickerNext /\ UNCHANGED <<runVars, transcriptVars, editorVars, windowVars, loginVars>>
      \/ LoginNext /\ UNCHANGED <<runVars, transcriptVars, editorVars, windowVars, pickerVars>>
      \/ UNCHANGED <<runVars, transcriptVars, editorVars, windowVars, pickerVars, loginVars>>
  BY DEF Next, vars
<1> QED
  BY <1>1, <1>2, <1>3, <1>4, <1>5, <1>6, <1>7, <1>8

LEMMA TerminalHolds == Spec => []TerminalInv
<1>1. Init => TerminalInv
  BY RunInitInv, TranscriptStarts, EditorInitInv, LoginInitInv, WindowInitInv, PickerInitInv DEF Init, TerminalInv
<1> QED
  BY <1>1, TerminalStepInv, PTL DEF Spec

\* "Every final message is persisted as soon as it is confirmed": for any number of prompts,
\* queued, steered, interrupted and compacted around in any order, every message the loop has
\* confirmed is in the journal of its session, unless a session was opened under a prompt or a
\* prompt queued too late (persist_since and its callers in CodingSession.prompt, tui/app.py's
\* _run_prompt, cancel and compaction workers).
THEOREM ConfirmedIsPersisted == Spec => []KeptUnlessSwapped
<1>1. CalmRunInv => KeptUnlessSwapped
  BY DEF CalmRunInv, Calm, RunInv, KeptUnlessSwapped
<1> QED
  BY <1>1, TerminalHolds, PTL DEF TerminalInv

\* For any number of prompts, rewritten by hooks and steered, of replies with any blocks and calls,
\* streamed in any order of fragments, failed or overflowed, and with commands and terminal
\* commands beside them, the rows made event by event are at rest the rows that opening the session
\* again makes: no message twice, none missing, every result at its call, unless the rows were
\* cleared, the run was interrupted, or a row was put under a message that streamed
\* (TuiEventAdapter.apply in tui/adapter.py against TuiState.load_messages in tui/state.py, and
\* their callers in tui/app.py).
THEOREM LiveIsTheReplay == Spec => []LiveIsReplay
<1>1. TranscriptInv => LiveIsReplay
  BY TranscriptShows
<1> QED
  BY <1>1, TerminalHolds, PTL DEF TerminalInv

\* For any kinds of words, typed, pasted, dropped, completed, deleted, undone and tried to send in
\* any order, with any delay before the application hears of a change, Enter hands over what was on
\* the screen with every held back paste in the place of its placeholder, once
\* (PromptInput.text_for_submission and _submit_prompt_from_editor in tui/app.py).
THEOREM PastesAreWhole == Spec => []SentIsWhole
<1>1. EditorInv => SentIsWhole
  BY DEF EditorInv
<1> QED
  BY <1>1, TerminalHolds, PTL DEF TerminalInv

\* For any providers with any methods of login, any search, and a crash or a cancelled task after
\* any step, the settings and the session name a provider only when its credential is stored, and
\* a credential that is stored came from a dialog that was finished (the screens and the stores
\* after them in tui/app.py).
THEOREM LoginsAreWhole == Spec => []LoginIsWhole
<1>1. LoginInv => LoginIsWhole
  BY DEF LoginInv
<1> QED
  BY <1>1, TerminalHolds, PTL DEF TerminalInv

\* For any list of completions, with any categories and wrapped lines, in a box of any height, the
\* selected item is among those that are drawn and they fit; and for any session tree, listed with
\* and without tool calls, every entry is listed once, after the one it follows, and the entry
\* branched from is the one that was highlighted when it was chosen (_visible_completion_state,
\* _ordered_tree_entries, TreePickerScreen).
THEOREM ChoicesAreShown == Spec => []ListsAreShown
<1>1. WindowInv /\ PickerInv => ListsAreShown
  <2>1. WindowInv => SelectedIsShown
    BY DEF WindowInv
  <2>2. PickerInv => TreeIsListed
    BY TreesAreListed DEF PickerInv, PickerType
  <2>3. PickerInv => ChosenIsHighlighted
    BY DEF PickerInv
  <2> QED
    BY <2>1, <2>2, <2>3 DEF ListsAreShown, TreeIsOffered
<1> QED
  BY <1>1, TerminalHolds, PTL DEF TerminalInv
=============================================================================
