---------------------- MODULE StreamAndCommandsProofs ----------------------
(***************************************************************************)
(* Theorems about ProviderStream and about Commands.                       *)
(*                                                                         *)
(* ProviderStream: what the agent loop receives of a reply is what         *)
(* ReplyContract promises, and its content comes from one attempt, for any *)
(* set of adapters, any number of retries and tool calls and a reply of    *)
(* any length.  The argument is about the whole reply: the events the      *)
(* consumer took, followed by those that wait for it.  Every step of an    *)
(* adapter extends it by events the contract allows after what is there    *)
(* (Sound), and content is in it only while nothing can be retried any     *)
(* more (Settled).                                                         *)
(*                                                                         *)
(* Commands: for any tasks, evaluators, requests, trials and any amount of *)
(* work, and for any versions, settings, interval and number of starts.    *)
(*                                                                         *)
(* What a benchmark command leaves behind needs two strengthenings:        *)
(* Stopping follows a cancellation from where it is raised to where the    *)
(* command gives up, and Verdict says what the outcome of a trial that is  *)
(* about to be closed is worth, of which the recorded result is a          *)
(* consequence.                                                            *)
(*                                                                         *)
(* The notices need two more.  TellsLatest dates what each start has       *)
(* looked up, and what the cache says, by the time taken before the        *)
(* lookup.  TellsAll says up to where the notes have been told: up to the  *)
(* version on record and to every version that a start has taken from the  *)
(* record, counting what is to be shown only by starts that can no longer  *)
(* end without the loss being noticed.                                     *)
(***************************************************************************)
EXTENDS ProviderStream, Commands, SequenceLemmas, FiniteSetTheorems, SequenceTheorems, TLAPS

Kind == {"start", "open", "delta", "close"} \cup Terminal
Events == [kind : Kind, channel : Channel \cup {"none"}, from : Nat]

\* What an adapter hands to the canonicalizer.
ProviderEvents == {"start", "text", "thinking", "tool", "end", "error"}
EndEvents == {"end", "error"}

Canons == [started : BOOLEAN, active : Channel \cup {"none"}, terminal : BOOLEAN,
           out : Seq(Events)]
Parsers == [said : BOOLEAN, thought : BOOLEAN, args : BOOLEAN,
            building : SUBSET Index, calls : SUBSET Index]

Types ==
  /\ adapter \in {"chat", "responses", "codex", "mistral"}
  /\ pc \in {"connect", "stream", "backoff", "closed"}
  /\ attempt \in Nat
  /\ parser \in Parsers
  /\ IsFiniteSet(parser.building)
  /\ canon \in Canons
  /\ log \in Seq(Events)

Prefix(s, n) == [i \in 1 .. n |-> s[i]]

\* The events the contract allows after those of s.
Allowed(s, e) ==
  \/ e.kind = "start" /\ Phase(s) = "quiet"
  \/ e.kind = "open" /\ Phase(s) = "live" /\ OpenChannel(s) = "none" /\ e.channel \in Channel
  \/ e.kind = "delta" /\ Phase(s) = "live" /\ OpenChannel(s) \in {"text", "thinking"}
  \/ e.kind = "close" /\ Phase(s) = "live" /\ OpenChannel(s) # "none"
  \/ e.kind = "done" /\ Phase(s) = "live" /\ OpenChannel(s) = "none"
  \/ e.kind = "error" /\ Phase(s) = "live"
  \/ e.kind = "raised" /\ Phase(s) = "quiet"

Legal(s) == \A i \in 1 .. Len(s) : Allowed(Prefix(s, i - 1), s[i])

\* The canonicalizer knows what it yielded: s followed by what waits in c.
Sound(s, c) ==
  /\ Legal(s \o c.out)
  /\ c.active = OpenChannel(s \o c.out)
  /\ c.terminal <=> Phase(s \o c.out) \in Terminal
  /\ ~c.terminal => (c.started <=> Phase(s \o c.out) = "live")

\* Content an adapter counts as such.
Counts(e) ==
  /\ e.kind = "delta" \/ (e.kind = "open" /\ e.channel = "tool")
  /\ adapter = "codex" => e.channel # "thinking"

Says(s) == \E i \in DOMAIN s : Counts(s[i])
FromOne(s) == \A i \in DOMAIN s : Counts(s[i]) => s[i].from = attempt

\* What is received or waiting is of this attempt, which cannot be retried any more.
Settled(s) ==
  /\ FromOne(s)
  /\ Says(s) => pc = "closed" \/ (pc = "stream" /\ EmittedContent)

\* Before the first retry the first connection has not yielded anything.
Unstarted ==
  /\ pc = "backoff" => attempt > 0
  /\ pc = "connect" /\ attempt = 0 => ~canon.started

Inv ==
  /\ Types
  /\ Sound(log, canon)
  /\ canon.terminal => pc = "closed"
  /\ Settled(log \o canon.out)
  /\ Unstarted

------------------------------------------------------------------------------
(* The consumer's view after one more event *)

LEMMA PhaseAfter ==
  ASSUME NEW s \in Seq(Events), NEW e \in Events
  PROVE  Phase(Append(s, e)) = IF e.kind \in Terminal THEN e.kind ELSE "live"
<1>1. Append(s, e) # <<>> /\ Len(Append(s, e)) = Len(s) + 1
       /\ Append(s, e)[Len(s) + 1] = e
  OBVIOUS
<1> QED
  BY <1>1 DEF Phase, Last

Marks(s) == {i \in DOMAIN s : s[i].kind \in {"open", "close"}}
Opened(s) == {i \in Marks(s) : s[i].kind = "open" /\ \A j \in Marks(s) : j <= i}

LEMMA OpenAfter ==
  ASSUME NEW s \in Seq(Events), NEW e \in Events
  PROVE  OpenChannel(Append(s, e)) = IF e.kind = "open" THEN e.channel
                                     ELSE IF e.kind = "close" THEN "none" ELSE OpenChannel(s)
<1> DEFINE t == Append(s, e)
           n == Len(s) + 1
<1>1. /\ n \in Nat /\ n >= 1 /\ DOMAIN t = 1 .. n /\ DOMAIN s = 1 .. n - 1 /\ t[n] = e
      /\ \A i \in 1 .. n - 1 : t[i] = s[i]
  OBVIOUS
<1> HIDE DEF t, n
<1>2. OpenChannel(t) = IF Opened(t) = {} THEN "none" ELSE t[CHOOSE i \in Opened(t) : TRUE].channel
  BY DEF OpenChannel, Opened, Marks
<1>3. OpenChannel(s) = IF Opened(s) = {} THEN "none" ELSE s[CHOOSE i \in Opened(s) : TRUE].channel
  BY DEF OpenChannel, Opened, Marks
<1>4. CASE e.kind = "open"
  <2>1. n \in Marks(t) /\ \A j \in Marks(t) : j <= n
    BY <1>1, <1>4 DEF Marks
  <2>2. n \in Opened(t)
    BY <1>1, <1>4, <2>1 DEF Opened
  <2>3. ASSUME NEW i \in Opened(t) PROVE i = n
    BY <1>1, <2>1 DEF Opened, Marks
  <2>4. (CHOOSE i \in Opened(t) : TRUE) = n
    BY <2>2, <2>3
  <2> QED
    BY <1>1, <1>2, <1>4, <2>2, <2>4 DEF t
<1>5. CASE e.kind = "close"
  <2>1. n \in Marks(t)
    BY <1>1, <1>5 DEF Marks
  <2>2. ASSUME NEW i \in Opened(t) PROVE FALSE
    <3>1. i \in 1 .. n /\ n <= i /\ t[i].kind = "open"
      BY <1>1, <2>1 DEF Opened, Marks
    <3> QED
      BY <1>1, <1>5, <3>1
  <2> QED
    BY <1>2, <1>5, <2>2 DEF t
<1>6. CASE e.kind \notin {"open", "close"}
  <2>1. Marks(t) = Marks(s)
    BY <1>1, <1>6 DEF Marks
  <2>2. \A i \in Marks(s) : i \in 1 .. n - 1
    BY <1>1 DEF Marks
  <2>3. Opened(t) = Opened(s)
    BY <1>1, <2>1, <2>2 DEF Opened
  <2>4. ASSUME Opened(s) # {}
        PROVE  t[CHOOSE i \in Opened(s) : TRUE] = s[CHOOSE i \in Opened(s) : TRUE]
    <3>1. (CHOOSE i \in Opened(s) : TRUE) \in Opened(s)
      BY <2>4
    <3>2. \A i \in Opened(s) : i \in 1 .. n - 1
      BY <2>2 DEF Opened
    <3> QED
      BY <1>1, <3>1, <3>2
  <2> QED
    BY <1>2, <1>3, <1>6, <2>3, <2>4 DEF t
<1> QED
  BY <1>4, <1>5, <1>6

LEMMA LegalAfter ==
  ASSUME NEW s \in Seq(Events), NEW e \in Events, Legal(s), Allowed(s, e)
  PROVE  Legal(Append(s, e))
<1> DEFINE t == Append(s, e)
           n == Len(s)
<1>1. n \in Nat /\ Len(t) = n + 1 /\ t[n + 1] = e /\ \A i \in 1 .. n : t[i] = s[i]
  OBVIOUS
<1>2. Prefix(t, n) = s
  <2>1. s = [i \in 1 .. n |-> s[i]]
    OBVIOUS
  <2> HIDE DEF t, n
  <2> QED
    BY <1>1, <2>1 DEF Prefix
<1> HIDE DEF t, n
<1>3. ASSUME NEW i \in 1 .. n PROVE Prefix(t, i - 1) = Prefix(s, i - 1)
  BY <1>1, <1>3 DEF Prefix
<1>4. ASSUME NEW i \in 1 .. n + 1 PROVE Allowed(Prefix(t, i - 1), t[i])
  <2>1. CASE i = n + 1
    <3>1. i - 1 = n
      BY <1>1, <2>1
    <3> QED
      BY <1>1, <1>2, <2>1, <3>1
  <2>2. CASE i # n + 1
    <3>1. i \in 1 .. n
      BY <1>1, <2>2
    <3>2. Allowed(Prefix(s, i - 1), s[i])
      BY <3>1 DEF Legal, n
    <3> QED
      BY <1>1, <1>3, <3>1, <3>2
  <2> QED
    BY <2>1, <2>2
<1> QED
  BY <1>1, <1>4 DEF Legal, t

------------------------------------------------------------------------------
(* The canonicalizer, one yield at a time *)

\* A state of the canonicalizer whose reply so far is sound and of this attempt.
Fine(c) == c \in Canons /\ Sound(log, c) /\ FromOne(log \o c.out)

\* Content was yielded.
Spoke(c) == Says(log \o c.out)

\* A provider event that becomes content.
Speech(event) == event \in {"text", "tool"} \/ (event = "thinking" /\ adapter # "codex")

LEMMA Push ==
  ASSUME Types, NEW c, Fine(c), NEW e \in Events, Allowed(log \o c.out, e), e.from = attempt,
         NEW d \in Canons, d.out = Append(c.out, e),
         d.active = IF e.kind = "open" THEN e.channel
                    ELSE IF e.kind = "close" THEN "none" ELSE c.active,
         d.terminal <=> e.kind \in Terminal,
         d.started \/ d.terminal
  PROVE  Fine(d) /\ (Spoke(d) => Spoke(c) \/ Counts(e))
<1> DEFINE s == log \o c.out
           t == log \o d.out
<1>1. log \in Seq(Events) /\ c.out \in Seq(Events)
  BY DEF Types, Fine, Canons
<1>2. s \in Seq(Events) /\ t = Append(s, e)
  BY <1>1, SMTT(30)
<1>3. Legal(s) /\ c.active = OpenChannel(s) /\ FromOne(s)
  BY DEF Fine, Sound
<1>4. Allowed(s, e)
  OBVIOUS
<1> HIDE DEF s, t
<1>5. Legal(t)
  BY <1>2, <1>3, <1>4, LegalAfter
<1>6. d.active = OpenChannel(t)
  BY <1>2, <1>3, OpenAfter
<1>7. Phase(t) = IF e.kind \in Terminal THEN e.kind ELSE "live"
  BY <1>2, PhaseAfter
<1>8. Sound(log, d)
  <2>1. d.terminal <=> Phase(t) \in Terminal
    BY <1>7 DEF Terminal
  <2>2. ~d.terminal => (d.started <=> Phase(t) = "live")
    BY <1>7
  <2> QED
    BY <1>5, <1>6, <2>1, <2>2 DEF Sound, t
<1>9. /\ DOMAIN t = DOMAIN s \cup {Len(s) + 1} /\ t[Len(s) + 1] = e
      /\ \A i \in DOMAIN s : t[i] = s[i]
  BY <1>2
<1>10. FromOne(t)
  BY <1>3, <1>9 DEF FromOne
<1>11. Says(t) => Says(s) \/ Counts(e)
  BY <1>9 DEF Says
<1> QED
  BY <1>8, <1>10, <1>11 DEF Fine, Spoke, s, t

LEMMA EventIs ==
  ASSUME Types, NEW kind \in Kind, NEW channel \in Channel \cup {"none"}
  PROVE  /\ Event(kind, channel) \in Events
         /\ Event(kind, channel).kind = kind /\ Event(kind, channel).channel = channel
         /\ Event(kind, channel).from = attempt
  BY DEF Types, Event, Events

\* The phase of a reply that has not ended.
LEMMA PhaseOf ==
  ASSUME NEW c, Fine(c), ~c.terminal
  PROVE  /\ c.started => Phase(log \o c.out) = "live"
         /\ ~c.started => Phase(log \o c.out) = "quiet" /\ c.active = "none"
<1> DEFINE s == log \o c.out
<1>1. /\ c.active = OpenChannel(s) /\ Phase(s) \notin Terminal
      /\ c.started <=> Phase(s) = "live"
  BY DEF Fine, Sound
<1> HIDE DEF s
<1>2. Phase(s) \in {"quiet", "live"} /\ (Phase(s) = "quiet" => s = <<>>)
  BY <1>1 DEF Phase, Terminal
<1>3. s = <<>> => OpenChannel(s) = "none"
  BY DEF OpenChannel
<1> QED
  BY <1>1, <1>2, <1>3 DEF s, Fine, Canons

\* What the changes the canonicalizer makes to its locals leave alone.
Changed(c, d, started, active, terminal, out) ==
  /\ d \in Canons /\ d.out = out /\ d.active = active
  /\ d.terminal = terminal /\ d.started = started

LEMMA ChangedIs ==
  ASSUME NEW c \in Canons, NEW e \in Events, NEW o, o = Append(c.out, e),
         NEW a \in Channel \cup {"none"}
  PROVE  /\ Changed(c, [c EXCEPT !.started = TRUE, !.out = Append(@, e)],
                     TRUE, c.active, c.terminal, o)
         /\ Changed(c, [c EXCEPT !.out = Append(@, e), !.active = a],
                     c.started, a, c.terminal, o)
         /\ Changed(c, [c EXCEPT !.out = Append(@, e)], c.started, c.active, c.terminal, o)
         /\ Changed(c, [c EXCEPT !.out = Append(@, e), !.terminal = TRUE],
                     c.started, c.active, TRUE, o)
<1>1. o \in Seq(Events)
  BY DEF Canons
<1>2. /\ Changed(c, [c EXCEPT !.started = TRUE, !.out = o], TRUE, c.active, c.terminal, o)
      /\ Changed(c, [c EXCEPT !.out = o, !.active = a], c.started, a, c.terminal, o)
      /\ Changed(c, [c EXCEPT !.out = o], c.started, c.active, c.terminal, o)
      /\ Changed(c, [c EXCEPT !.out = o, !.terminal = TRUE], c.started, c.active, TRUE, o)
  BY <1>1 DEF Changed, Canons
<1> QED
  BY <1>2

LEMMA BegunIs ==
  ASSUME Types, NEW c, Fine(c), ~c.terminal
  PROVE  /\ Fine(Begun(c)) /\ ~Begun(c).terminal /\ Begun(c).started
         /\ Spoke(Begun(c)) => Spoke(c)
         /\ Begun(c).active = c.active
<1> DEFINE e == Event("start", "none")
           d == Begun(c)
<1>1. CASE c.started
  BY <1>1 DEF Begun
<1>2. CASE ~c.started
  <2>1. e \in Events /\ e.kind = "start" /\ e.from = attempt
    BY EventIs DEF Kind, Channel
  <2>2. Allowed(log \o c.out, e)
    BY <1>2, <2>1, PhaseOf, SMTT(60) DEF Allowed
  <2>3. Changed(c, d, TRUE, c.active, c.terminal, Append(c.out, e))
    BY <1>2, <2>1, ChangedIs DEF Begun, Fine
  <2> HIDE DEF e, d
  <2>4. e.kind \notin Terminal /\ ~Counts(e)
    BY <2>1 DEF Terminal, Counts
  <2>5. Fine(d) /\ (Spoke(d) => Spoke(c) \/ Counts(e))
    BY <2>1, <2>2, <2>3, <2>4, Push DEF Changed
  <2> QED
    BY <2>3, <2>4, <2>5 DEF d, Changed
<1> QED
  BY <1>1, <1>2

LEMMA EndActiveIs ==
  ASSUME Types, NEW c, Fine(c), ~c.terminal, c.started
  PROVE  /\ Fine(EndActive(c)) /\ ~EndActive(c).terminal /\ EndActive(c).started
         /\ EndActive(c).active = "none"
         /\ Spoke(EndActive(c)) => Spoke(c)
<1> DEFINE e == Event("close", c.active)
           d == EndActive(c)
<1>1. CASE c.active = "none"
  BY <1>1 DEF EndActive
<1>2. CASE c.active # "none"
  <2>1. e \in Events /\ e.kind = "close" /\ e.from = attempt
    BY EventIs DEF Kind, Channel, Fine, Canons
  <2>2. Allowed(log \o c.out, e)
    BY <1>2, <2>1, PhaseOf, SMTT(60) DEF Allowed, Fine, Sound
  <2>3. Changed(c, d, c.started, "none", c.terminal, Append(c.out, e))
    BY <1>2, <2>1, ChangedIs DEF EndActive, Fine
  <2> HIDE DEF e, d
  <2>4. e.kind \notin Terminal /\ ~Counts(e)
    BY <2>1 DEF Terminal, Counts
  <2>5. Fine(d) /\ (Spoke(d) => Spoke(c) \/ Counts(e))
    BY <2>1, <2>2, <2>3, <2>4, Push DEF Changed
  <2> QED
    BY <2>3, <2>4, <2>5 DEF d, Changed
<1> QED
  BY <1>1, <1>2

LEMMA BeginBlockIs ==
  ASSUME Types, NEW c, Fine(c), ~c.terminal, c.started, c.active = "none",
         NEW channel \in Channel
  PROVE  /\ Fine(BeginBlock(c, channel)) /\ ~BeginBlock(c, channel).terminal
         /\ BeginBlock(c, channel).started
         /\ BeginBlock(c, channel).active = channel
         /\ BeginBlock(c, channel).out = Append(c.out, Event("open", channel))
         /\ Spoke(BeginBlock(c, channel)) => Spoke(c) \/ channel = "tool"
<1> DEFINE e == Event("open", channel)
           d == BeginBlock(c, channel)
<1>1. e \in Events /\ e.kind = "open" /\ e.channel = channel /\ e.from = attempt
  BY EventIs DEF Kind
<1>2. Allowed(log \o c.out, e)
  BY <1>1, PhaseOf DEF Allowed, Fine, Sound
<1>3. Changed(c, d, c.started, channel, c.terminal, Append(c.out, e))
  BY <1>1, ChangedIs DEF BeginBlock, Fine
<1>4. d.out = Append(c.out, e)
  BY <1>3 DEF Changed
<1> HIDE DEF e, d
<1>5. e.kind \notin Terminal /\ (Counts(e) => channel = "tool")
  BY <1>1 DEF Terminal, Counts
<1>6. Fine(d) /\ (Spoke(d) => Spoke(c) \/ Counts(e))
  BY <1>1, <1>2, <1>3, <1>5, Push DEF Changed
<1> QED
  BY <1>3, <1>4, <1>5, <1>6 DEF d, e, Changed

\* A fragment goes to the open block.
LEMMA DeltaIs ==
  ASSUME Types, NEW c, Fine(c), ~c.terminal, c.started,
         c.active \in {"text", "thinking"}, NEW d,
         d = [c EXCEPT !.out = Append(@, Event("delta", c.active))]
  PROVE  /\ Fine(d) /\ ~d.terminal /\ d.started
         /\ Spoke(d) => Spoke(c) \/ Speech(c.active)
<1> DEFINE e == Event("delta", c.active)
<1>1. e \in Events /\ e.kind = "delta" /\ e.channel = c.active /\ e.from = attempt
  BY EventIs DEF Kind, Channel
<1>2. Allowed(log \o c.out, e)
  BY <1>1, PhaseOf DEF Allowed, Fine, Sound
<1>3. Changed(c, d, c.started, c.active, c.terminal, Append(c.out, e))
  BY <1>1, ChangedIs DEF Fine, Channel
<1> HIDE DEF e
<1>4. e.kind \notin Terminal /\ (Counts(e) => Speech(c.active))
  BY <1>1 DEF Terminal, Counts, Speech
<1>5. Fine(d) /\ (Spoke(d) => Spoke(c) \/ Counts(e))
  BY <1>1, <1>2, <1>3, <1>4, Push DEF Changed
<1> QED
  BY <1>3, <1>4, <1>5 DEF Changed

\* A tool call is a block that is opened and closed at once.
LEMMA CallIs ==
  ASSUME Types, NEW c, Fine(c), ~c.terminal, c.started, c.active = "none", NEW d,
         d = [c EXCEPT !.out = @ \o <<Event("open", "tool"), Event("close", "tool")>>]
  PROVE  Fine(d) /\ ~d.terminal /\ d.started
<1> DEFINE b == BeginBlock(c, "tool")
           e == Event("open", "tool")
           f == Event("close", "tool")
<1>1. /\ Fine(b) /\ ~b.terminal /\ b.started /\ b.active = "tool"
      /\ b.out = Append(c.out, e)
  BY BeginBlockIs DEF Channel
<1>2. EndActive(b) = [b EXCEPT !.out = Append(@, f), !.active = "none"]
  BY <1>1 DEF EndActive
<1>3. Fine(EndActive(b)) /\ ~EndActive(b).terminal /\ EndActive(b).started
  BY <1>1, EndActiveIs
<1>4. e \in Events /\ f \in Events
  BY EventIs DEF Kind, Channel
<1>5. c \in Canons /\ c.out \in Seq(Events)
  BY DEF Fine, Canons
<1>6. d = EndActive(b)
  <2>1. Append(Append(c.out, e), f) = c.out \o <<e, f>>
    BY <1>4, <1>5
  <2> DEFINE o == Append(c.out, e)
             p == c.out \o <<e, f>>
  <2>2. b = [c EXCEPT !.out = o, !.active = "tool"]
    BY DEF BeginBlock
  <2> HIDE DEF b, e, f, o, p
  <2>3. EndActive(b) = [c EXCEPT !.out = Append(o, f), !.active = "none"]
    BY <1>2, <1>5, <2>2 DEF Canons
  <2>4. [c EXCEPT !.out = p, !.active = "none"] = [c EXCEPT !.out = p]
    BY <1>5 DEF Canons
  <2>5. d = [c EXCEPT !.out = p]
    BY DEF e, f, p
  <2> QED
    BY <2>1, <2>3, <2>4, <2>5 DEF o, p
<1> QED
  BY <1>3, <1>6

\* The terminal event: done when no block is open, an error at any time.
LEMMA EndIs ==
  ASSUME Types, NEW c, Fine(c), ~c.terminal, c.started,
         NEW kind \in {"done", "error"}, kind = "done" => c.active = "none", NEW d,
         d = [c EXCEPT !.out = Append(@, Event(kind, "none")), !.terminal = TRUE]
  PROVE  /\ Fine(d) /\ d.terminal /\ d.started
         /\ Spoke(d) => Spoke(c)
<1> DEFINE e == Event(kind, "none")
<1>1. e \in Events /\ e.kind = kind /\ e.from = attempt
  BY EventIs DEF Kind, Terminal
<1>2. Allowed(log \o c.out, e)
  BY <1>1, PhaseOf, SMTT(60) DEF Allowed, Fine, Sound
<1>3. Changed(c, d, c.started, c.active, TRUE, Append(c.out, e))
  BY <1>1, ChangedIs DEF Fine, Channel
<1> HIDE DEF e
<1>4. e.kind \in Terminal /\ ~Counts(e) /\ e.kind \notin {"open", "close"}
  BY <1>1 DEF Terminal, Counts
<1>5. Fine(d) /\ (Spoke(d) => Spoke(c) \/ Counts(e))
  BY <1>1, <1>2, <1>3, <1>4, Push DEF Changed
<1> QED
  BY <1>3, <1>4, <1>5 DEF Changed

\* One provider event.
LEMMA CanonicalizeIs ==
  ASSUME Types, NEW c, Fine(c), ~c.terminal, NEW event \in ProviderEvents
  PROVE  /\ Fine(Canonicalize(c, event)) /\ Canonicalize(c, event).started
         /\ Canonicalize(c, event).terminal <=> event \in EndEvents
         /\ Spoke(Canonicalize(c, event)) => Spoke(c) \/ Speech(event)
<1> DEFINE b == Begun(c)
           e == EndActive(b)
           d == IF b.active = event THEN b ELSE BeginBlock(e, event)
<1>1. /\ Fine(b) /\ ~b.terminal /\ b.started
      /\ Spoke(b) => Spoke(c)
  BY BegunIs
<1>2. /\ Fine(e) /\ ~e.terminal /\ e.started /\ e.active = "none"
      /\ Spoke(e) => Spoke(b)
  BY <1>1, EndActiveIs
<1>3. CASE event = "start"
  BY <1>1, <1>3 DEF Canonicalize, EndEvents
<1>4. CASE event \in {"text", "thinking"}
  <2>1. /\ Fine(d) /\ ~d.terminal /\ d.started /\ d.active = event
        /\ Spoke(d) => Spoke(b)
    BY <1>1, <1>2, <1>4, BeginBlockIs DEF Channel
  <2>2. Canonicalize(c, event) = [d EXCEPT !.out = Append(@, Event("delta", event))]
    BY <1>4 DEF Canonicalize
  <2> HIDE DEF d, b, e
  <2> QED
    BY <1>1, <1>4, <2>1, <2>2, DeltaIs DEF EndEvents
<1>5. CASE event = "tool"
  <2>1. Canonicalize(c, event) =
          [e EXCEPT !.out = @ \o <<Event("open", "tool"), Event("close", "tool")>>]
    BY <1>5 DEF Canonicalize
  <2> HIDE DEF b, e
  <2> QED
    BY <1>2, <1>5, <2>1, CallIs, SMTT(30) DEF EndEvents, Speech
<1>6. CASE event = "end"
  <2>1. Canonicalize(c, event) =
          [e EXCEPT !.out = Append(@, Event("done", "none")), !.terminal = TRUE]
    BY <1>6, SMTT(30) DEF Canonicalize
  <2> HIDE DEF b, e
  <2> QED
    BY <1>1, <1>2, <1>6, <2>1, EndIs DEF EndEvents
<1>7. CASE event = "error"
  <2>1. Canonicalize(c, event) =
          [b EXCEPT !.out = Append(@, Event("error", "none")), !.terminal = TRUE]
    BY <1>7 DEF Canonicalize
  <2> HIDE DEF b, e
  <2> QED
    BY <1>1, <1>7, <2>1, EndIs DEF EndEvents
<1> QED
  BY <1>3, <1>4, <1>5, <1>6, <1>7 DEF ProviderEvents

\* The end of the source.
LEMMA ConcludeIs ==
  ASSUME Types, NEW c, Fine(c), c.terminal => c.started
  PROVE  /\ Fine(Conclude(c)) /\ Conclude(c).terminal
         /\ Spoke(Conclude(c)) => Spoke(c)
<1>1. CASE c.terminal
  BY <1>1, SMTT(30) DEF Conclude, Begun
<1>2. CASE ~c.terminal
  <2> DEFINE b == Begun(c)
  <2>1. /\ Fine(b) /\ ~b.terminal /\ b.started
        /\ Spoke(b) => Spoke(c)
    BY <1>2, BegunIs
  <2>2. Conclude(c) = [b EXCEPT !.out = Append(@, Event("error", "none")), !.terminal = TRUE]
    BY <2>1 DEF Conclude
  <2> HIDE DEF b
  <2> QED
    BY <2>1, <2>2, EndIs
<1> QED
  BY <1>1, <1>2
------------------------------------------------------------------------------
(* The provider events of one step *)

\* A run of provider events with an end, if there is one, as its last.
Sources == {events \in Seq(ProviderEvents) :
              \A i \in 1 .. Len(events) : i < Len(events) => events[i] \notin EndEvents}

\* The canonicalizer after i of the events.
Reached(c, i, events) ==
  /\ Fine(c)
  /\ c.terminal <=> i > 0 /\ events[i] \in EndEvents
  /\ c.terminal => c.started
  /\ Spoke(c) => Spoke(canon) \/ \E j \in 1 .. i : Speech(events[j])

Advances(f, events) ==
  /\ f[0] = canon
  /\ \A i \in 1 .. Len(events) : Reached(f[i - 1], i - 1, events)
                                  => f[i] = Canonicalize(f[i - 1], events[i])

LEMMA ReachedNext ==
  ASSUME Types, NEW events \in Sources, NEW i \in 1 .. Len(events), NEW c,
         Reached(c, i - 1, events)
  PROVE  Reached(Canonicalize(c, events[i]), i, events)
<1> DEFINE d == Canonicalize(c, events[i])
<1>1. events \in Seq(ProviderEvents) /\ events[i] \in ProviderEvents
  BY DEF Sources
<1>2. ~c.terminal
  <2>1. i - 1 > 0 => i - 1 \in 1 .. Len(events) /\ i - 1 < Len(events)
    BY <1>1
  <2>2. i - 1 > 0 => events[i - 1] \notin EndEvents
    BY <2>1 DEF Sources
  <2> QED
    BY <2>2 DEF Reached
<1>3. /\ Fine(d) /\ d.started /\ (d.terminal <=> events[i] \in EndEvents)
      /\ Spoke(d) => Spoke(c) \/ Speech(events[i])
  BY <1>1, <1>2, CanonicalizeIs DEF Reached
<1> HIDE DEF d
<1>4. Spoke(c) => Spoke(canon) \/ \E j \in 1 .. i - 1 : Speech(events[j])
  BY DEF Reached
<1>5. i \in Nat /\ i > 0 /\ i \in 1 .. i /\ \A j \in 1 .. i - 1 : j \in 1 .. i
  BY <1>1
<1>6. Spoke(d) => Spoke(canon) \/ \E j \in 1 .. i : Speech(events[j])
  BY <1>3, <1>4, <1>5
<1> QED
  BY <1>3, <1>5, <1>6 DEF Reached, d

LEMMA ReachedAll ==
  ASSUME Types, Fine(canon), ~canon.terminal, NEW events \in Sources, NEW f,
         Advances(f, events), NEW k \in 0 .. Len(events)
  PROVE  Reached(f[k], k, events)
<1> DEFINE T == {i \in Nat : i <= Len(events) => Reached(f[i], i, events)}
<1>1. Len(events) \in Nat
  BY DEF Sources
<1>2. 0 \in T
  BY DEF Reached, Advances
<1>3. ASSUME NEW i \in Nat, i \in T PROVE i + 1 \in T
  <2> SUFFICES ASSUME i + 1 <= Len(events) PROVE Reached(f[i + 1], i + 1, events)
    OBVIOUS
  <2>1. i + 1 \in 1 .. Len(events) /\ (i + 1) - 1 = i /\ Reached(f[i], i, events)
    BY <1>1, <1>3
  <2> QED
    BY <2>1, ReachedNext DEF Advances
<1> HIDE DEF T
<1>4. k \in T
  BY <1>1, <1>2, <1>3, Induction
<1> QED
  BY <1>1, <1>4 DEF T

LEMMA CanonicalizedIs ==
  ASSUME Types, Fine(canon), ~canon.terminal, NEW events \in Sources
  PROVE  Reached(Canonicalized(events), Len(events), events)
<1> DEFINE n == Len(events)
           Is(g) == g = [i \in 0 .. n |->
                           IF i = 0 THEN canon ELSE Canonicalize(g[i - 1], events[i])]
           after == CHOOSE g : Is(g)
<1>1. n \in Nat /\ canon \in Canons
  BY DEF Sources, Types
<1>2. \E g : Is(g)
  <2> DEFINE next == [x \in Nat \X Canons |->
                        IF Canonicalize(x[2], events[x[1]]) \in Canons
                        THEN Canonicalize(x[2], events[x[1]]) ELSE x[2]]
  <2>1. next \in [Nat \X Canons -> Canons]
    OBVIOUS
  <2> HIDE DEF next
  <2>2. PICK f : Iterates(f, Canons, canon, next)
    BY <1>1, <2>1, Recursion
  <2>3. f \in [Nat -> Canons] /\ f[0] = canon
    BY <2>2 DEF Iterates
  <2>4. ASSUME NEW i \in 1 .. n, Canonicalize(f[i - 1], events[i]) \in Canons
        PROVE  f[i] = Canonicalize(f[i - 1], events[i])
    <3>1. i - 1 \in Nat /\ (i - 1) + 1 = i /\ f[i - 1] \in Canons
      BY <1>1, <2>3
    <3>2. f[i] = next[<<i, f[i - 1]>>]
      BY <2>2, <3>1 DEF Iterates
    <3> QED
      BY <2>4, <3>1, <3>2 DEF next
  <2>5. ASSUME NEW i \in 1 .. n, Reached(f[i - 1], i - 1, events)
        PROVE  Canonicalize(f[i - 1], events[i]) \in Canons
    <3>1. Fine(Canonicalize(f[i - 1], events[i]))
      BY <2>5, ReachedNext DEF Reached
    <3> QED
      BY <3>1 DEF Fine
  <2>6. Advances(f, events)
    BY <2>3, <2>4, <2>5 DEF Advances
  <2>7. ASSUME NEW i \in 1 .. n PROVE f[i] = Canonicalize(f[i - 1], events[i])
    <3>1. i - 1 \in 0 .. n
      BY <1>1
    <3>2. Reached(f[i - 1], i - 1, events)
      BY <2>6, <3>1, ReachedAll
    <3> QED
      BY <2>6, <3>2 DEF Advances
  <2> DEFINE g == [i \in 0 .. n |-> f[i]]
             h == [i \in 0 .. n |->
                     IF i = 0 THEN canon ELSE Canonicalize(g[i - 1], events[i])]
  <2>8. ASSUME NEW i \in 0 .. n PROVE g[i] = h[i]
    <3>1. CASE i = 0
      BY <2>3, <3>1
    <3>2. CASE i # 0
      <4>1. i \in 1 .. n /\ i - 1 \in 0 .. n
        BY <1>1, <3>2
      <4>2. g[i - 1] = f[i - 1] /\ g[i] = f[i]
        BY <4>1
      <4> HIDE DEF g
      <4>3. h[i] = Canonicalize(g[i - 1], events[i])
        BY <3>2
      <4> QED
        BY <2>7, <4>1, <4>2, <4>3
    <3> QED
      BY <3>1, <3>2
  <2>9. g = h
    <3>1. DOMAIN g = 0 .. n /\ DOMAIN h = 0 .. n
      OBVIOUS
    <3>2. g = [i \in 0 .. n |-> g[i]] /\ h = [i \in 0 .. n |-> h[i]]
      OBVIOUS
    <3> HIDE DEF g, h
    <3> QED
      BY <2>8, <3>2
  <2> QED
    BY <2>9
<1>3. Is(after)
  BY <1>2
<1>4. Canonicalized(events) = after[n]
  BY DEF Canonicalized
<1>5. after[0] = canon
  <2>1. 0 \in 0 .. n
    BY <1>1
  <2> HIDE DEF after
  <2> QED
    BY <1>3, <2>1
<1>6. ASSUME NEW i \in 1 .. n PROVE after[i] = Canonicalize(after[i - 1], events[i])
  <2>1. i \in 0 .. n /\ i # 0
    BY <1>1
  <2> HIDE DEF after
  <2> QED
    BY <1>3, <2>1
<1> HIDE DEF after
<1>7. Advances(after, events)
  BY <1>5, <1>6 DEF Advances
<1>8. n \in 0 .. n
  BY <1>1
<1> QED
  BY <1>4, <1>7, <1>8, ReachedAll
------------------------------------------------------------------------------
(* The parsers *)

LEMMA InOrderIs ==
  ASSUME NEW channels
  PROVE  /\ InOrder(channels) \in Seq({"text", "thinking"})
         /\ \A i \in 1 .. Len(InOrder(channels)) : InOrder(channels)[i] \in channels
<1> DEFINE a == IF "text" \in channels THEN <<"text">> ELSE <<>>
           b == IF "thinking" \in channels THEN <<"thinking">> ELSE <<>>
<1>1. a \in Seq({"text", "thinking"}) /\ \A i \in 1 .. Len(a) : a[i] \in channels
  <2>1. CASE "text" \in channels
    <3>1. a = <<"text">>
      BY <2>1
    <3> HIDE DEF a
    <3> QED
      BY <2>1, <3>1
  <2>2. CASE "text" \notin channels
    <3>1. a = <<>>
      BY <2>2
    <3> HIDE DEF a
    <3> QED
      BY <3>1
  <2> QED
    BY <2>1, <2>2
<1>2. b \in Seq({"text", "thinking"}) /\ \A i \in 1 .. Len(b) : b[i] \in channels
  <2>1. CASE "thinking" \in channels
    <3>1. b = <<"thinking">>
      BY <2>1
    <3> HIDE DEF b
    <3> QED
      BY <2>1, <3>1
  <2>2. CASE "thinking" \notin channels
    <3>1. b = <<>>
      BY <2>2
    <3> HIDE DEF b
    <3> QED
      BY <3>1
  <2> QED
    BY <2>1, <2>2
<1>3. InOrder(channels) = a \o b
  BY DEF InOrder
<1> HIDE DEF a, b
<1> QED
  BY <1>1, <1>2, <1>3

LEMMA FinalizeIs ==
  ASSUME NEW p \in Parsers, IsFiniteSet(p.building)
  PROVE  Finalize(p) \in Sources
<1> DEFINE n == Cardinality(p.building)
           calls == [i \in 1 .. n |-> "tool"]
<1>1. n \in Nat
  BY FS_CardinalityType
<1> HIDE DEF n
<1>2. calls \in Seq(ProviderEvents) /\ Len(calls) = n /\ \A i \in 1 .. n : calls[i] = "tool"
  BY <1>1 DEF ProviderEvents
<1>3. <<"end">> \in Seq(ProviderEvents)
  BY DEF ProviderEvents
<1> HIDE DEF calls
<1>4. calls \o <<"end">> \in Sources
  <2> DEFINE x == calls \o <<"end">>
  <2>1. x \in Seq(ProviderEvents)
    BY <1>2, <1>3, ConcatProperties
  <2>2. Len(x) = n + 1 /\ \A i \in 1 .. n : x[i] = calls[i]
    BY <1>1, <1>2
  <2> HIDE DEF x
  <2>3. ASSUME NEW i \in 1 .. Len(x), i < Len(x) PROVE x[i] \notin EndEvents
    <3>1. i \in 1 .. n
      BY <1>1, <2>2, <2>3
    <3> QED
      BY <1>2, <2>2, <3>1 DEF EndEvents
  <2>4. x \in Sources
    BY <2>1, <2>3 DEF Sources
  <2> QED
    BY <2>4 DEF x
<1>5. <<"end">> \in Sources
  BY <1>3 DEF Sources
<1> QED
  BY <1>4, <1>5 DEF Finalize, calls, n

Verdicts == {"go", "stop", "fatal", "retry"}

\* What the server sends.
LEMMA ServerSentIs ==
  ASSUME Types, NEW e \in ServerSent
  PROVE  /\ e.channels \subseteq Channel
         /\ "tool" \in e.channels => e.index \in Index
         /\ e.type \in {"added", "args", "item_done"} => e.index \in Index
         /\ \/ e.type \in {"chunk", "[DONE]", "garbage"}
            \/ /\ adapter = "responses"
               /\ e.type \in {"added", "args", "item_done", "completed", "failed"}
            \/ /\ adapter = "codex"
               /\ e.type \in {"added", "args", "item_done", "message_done", "completed",
                              "overloaded", "failed"}
<1> DEFINE Chunks == Deltas \cup ToolDeltas \cup {Chunk({c}, 0) : c \in {"text", "thinking"}}
           Plains == {Plain("message_done"), Plain("completed"), Plain("overloaded"),
                      Plain("failed")}
<1>1. ASSUME e \in Chunks
      PROVE  e.type = "chunk" /\ e.channels \subseteq Channel
             /\ ("tool" \in e.channels => e.index \in Index)
  <2>1. CASE e \in Deltas
    <3>1. PICK s \in SUBSET {"text", "thinking"} : e = Chunk(s, 0)
      BY <2>1 DEF Deltas
    <3> QED
      BY <3>1 DEF Chunk, Channel
  <2>2. CASE e \in ToolDeltas
    <3> DEFINE S == SUBSET {"text"}
    <3> HIDE DEF S
    <3>1. \E s \in S : \E i \in Index : e = Chunk(s \cup {"tool"}, i)
      <4>1. e \in {Chunk(s \cup {"tool"}, i) : s \in S, i \in Index}
        BY <2>2 DEF ToolDeltas, S
      <4> QED
        BY <4>1
    <3>2. PICK s \in SUBSET {"text"}, i \in Index : e = Chunk(s \cup {"tool"}, i)
      BY <3>1 DEF S
    <3> QED
      BY <3>2 DEF Chunk, Channel
  <2>3. CASE e \in {Chunk({c}, 0) : c \in {"text", "thinking"}}
    BY <2>3 DEF Chunk, Channel
  <2> QED
    BY <1>1, <2>1, <2>2, <2>3
<1>2. ASSUME e \in Items
      PROVE  e.type \in {"added", "args", "item_done"} /\ e.channels = {} /\ e.index \in Index
  BY <1>2 DEF Items, Item
<1>3. ASSUME e \in Sentinels \cup Plains
      PROVE  e.channels = {} /\ e.type \in {"[DONE]", "garbage", "message_done", "completed",
                                             "overloaded", "failed"}
  BY <1>3 DEF Sentinels, Plain
<1>4. CASE adapter \in {"chat", "mistral"}
  <2>1. e \in Chunks \/ e \in Sentinels
    BY <1>4 DEF ServerSent
  <2>2. e \in Sentinels => e.channels = {} /\ e.type \in {"[DONE]", "garbage"}
    BY DEF Sentinels, Plain
  <2> HIDE DEF Chunks
  <2> QED
    BY <1>1, <2>1, <2>2
<1>5. CASE adapter = "responses"
  <2>1. e \in Chunks \/ e \in Items \/ e \in Sentinels \/ e \in {Plain("completed"), Plain("failed")}
    BY <1>5 DEF ServerSent
  <2>2. e \in Sentinels \/ e \in {Plain("completed"), Plain("failed")}
          => e.channels = {} /\ e.type \in {"[DONE]", "garbage", "completed", "failed"}
    BY DEF Sentinels, Plain
  <2> HIDE DEF Chunks
  <2> QED
    BY <1>1, <1>2, <1>5, <2>1, <2>2
<1>6. CASE adapter = "codex"
  <2>1. e \in Chunks \/ e \in Items \/ e \in Sentinels \cup Plains
    BY <1>6 DEF ServerSent
  <2> HIDE DEF Chunks, Plains
  <2> QED
    BY <1>1, <1>2, <1>3, <1>6, <2>1
<1> QED
  BY <1>4, <1>5, <1>6 DEF Types

\* What a parser of any adapter answers.
Answer(r) ==
  /\ r.parser \in Parsers /\ IsFiniteSet(r.parser.building)
  /\ r.verdict \in Verdicts
  /\ r.events \in Seq(ProviderEvents)
  /\ r.verdict = "go" => \A i \in 1 .. Len(r.events) : r.events[i] \notin EndEvents
  /\ r.verdict = "stop" => r.events = <<>>
  /\ r.verdict = "retry" => ~EmittedContent

LEMMA AccumulateIs ==
  ASSUME Types, NEW e, e.channels \subseteq Channel, "tool" \in e.channels => e.index \in Index
  PROVE  /\ Accumulate(e) \in Parsers
         /\ IsFiniteSet(Accumulate(e).building)
         /\ parser.building \subseteq Accumulate(e).building
         /\ Accumulate(e).said <=> parser.said \/ "text" \in e.channels
         /\ Accumulate(e).thought <=> parser.thought \/ "thinking" \in e.channels
         /\ Accumulate(e).args = parser.args /\ Accumulate(e).calls = parser.calls
<1> DEFINE b == IF "tool" \in e.channels THEN parser.building \cup {e.index}
                ELSE parser.building
<1>1. parser \in Parsers /\ IsFiniteSet(parser.building)
  BY DEF Types
<1>2. b \in SUBSET Index /\ IsFiniteSet(b) /\ parser.building \subseteq b
  BY <1>1, FS_AddElement DEF Parsers
<1>3. Accumulate(e) = [parser EXCEPT !.said = @ \/ "text" \in e.channels,
                                     !.thought = @ \/ "thinking" \in e.channels,
                                     !.building = b]
  BY <1>1 DEF Accumulate, Parsers
<1> HIDE DEF b
<1> QED
  BY <1>1, <1>2, <1>3 DEF Parsers
LEMMA RegistersIs ==
  ASSUME Types, NEW i \in Index
  PROVE  parser.building \cup {i} \in SUBSET Index /\ IsFiniteSet(parser.building \cup {i})
  BY FS_AddElement DEF Types, Parsers

LEMMA GoesOn ==
  ASSUME NEW p \in Parsers, IsFiniteSet(p.building), NEW events \in Seq(ProviderEvents),
         \A i \in 1 .. Len(events) : events[i] \notin EndEvents
  PROVE  Answer(Reply(p, events, "go"))
  BY DEF Answer, Reply, Verdicts

LEMMA GoesOnSilently ==
  ASSUME NEW p \in Parsers, IsFiniteSet(p.building)
  PROVE  Answer(Reply(p, <<>>, "go"))
<1>1. <<>> \in Seq(ProviderEvents)
  OBVIOUS
<1> QED
  BY <1>1 DEF Answer, Reply, Verdicts

LEMMA FeedIs ==
  ASSUME Types, NEW e \in ServerSent
  PROVE  Answer(Feed(e))
<1>1. parser \in Parsers /\ IsFiniteSet(parser.building)
  BY DEF Types
<1>2. /\ <<>> \in Seq(ProviderEvents) /\ <<"error">> \in Seq(ProviderEvents)
      /\ <<"text">> \in Seq(ProviderEvents) /\ <<"tool">> \in Seq(ProviderEvents)
  BY DEF ProviderEvents
<1>3. /\ InOrder(e.channels) \in Seq(ProviderEvents)
      /\ \A i \in 1 .. Len(InOrder(e.channels)) : InOrder(e.channels)[i] \notin EndEvents
  <2> DEFINE s == InOrder(e.channels)
  <2>1. s \in Seq({"text", "thinking"})
    BY InOrderIs
  <2> HIDE DEF s
  <2>2. s \in Seq(ProviderEvents) /\ \A i \in 1 .. Len(s) : s[i] \notin EndEvents
    BY <2>1 DEF ProviderEvents, EndEvents
  <2> QED
    BY <2>2 DEF s
<1>4. ASSUME e.type = "chunk" PROVE Answer(Reply(Accumulate(e), InOrder(e.channels), "go"))
  BY <1>3, ServerSentIs, AccumulateIs DEF Answer, Reply, Verdicts
<1>5. Answer(Reply(parser, <<>>, "go")) /\ Answer(Reply(parser, <<>>, "stop"))
  BY <1>1, <1>2 DEF Answer, Reply, Verdicts
<1>6. Answer(Reply(parser, <<"error">>, "fatal"))
  BY <1>1, <1>2 DEF Answer, Reply, Verdicts
<1>7. CASE adapter = "chat"
  <2>1. e.type \in {"chunk", "[DONE]", "garbage"}
    BY <1>7, ServerSentIs
  <2> QED
    BY <1>4, <1>5, <1>6, <1>7, <2>1 DEF Feed, FeedChat
<1>8. CASE adapter = "mistral"
  <2>1. e.type \in {"chunk", "[DONE]", "garbage"}
    BY <1>8, ServerSentIs
  <2> QED
    BY <1>4, <1>5, <1>6, <1>8, <2>1 DEF Feed, FeedMistral
<1>9. CASE adapter = "responses"
  <2>1. e.type \in {"chunk", "[DONE]", "garbage", "added", "args", "item_done", "completed",
                    "failed"}
    BY <1>9, ServerSentIs
  <2>2. ASSUME e.type \in {"added", "item_done"}
        PROVE  Answer(Reply([parser EXCEPT !.building = @ \cup {e.index}], <<>>, "go"))
    <3> DEFINE p == [parser EXCEPT !.building = @ \cup {e.index}]
    <3>1. e.index \in Index
      BY <2>2, ServerSentIs
    <3>2. p \in Parsers /\ p.building = parser.building \cup {e.index}
      BY <1>1, <3>1 DEF Parsers
    <3> HIDE DEF p
    <3>3. Answer(Reply(p, <<>>, "go"))
      BY <3>1, <3>2, RegistersIs, GoesOnSilently
    <3> QED
      BY <3>3 DEF p
  <2>3. ASSUME e.type = "args"
        PROVE  Answer(Reply([parser EXCEPT !.building = @ \cup {e.index}, !.args = TRUE],
                            <<>>, "go"))
    <3> DEFINE p == [parser EXCEPT !.building = @ \cup {e.index}, !.args = TRUE]
    <3>1. e.index \in Index
      BY <2>3, ServerSentIs
    <3>2. p \in Parsers /\ p.building = parser.building \cup {e.index}
      BY <1>1, <3>1 DEF Parsers
    <3> HIDE DEF p
    <3>3. Answer(Reply(p, <<>>, "go"))
      BY <3>1, <3>2, RegistersIs, GoesOnSilently
    <3> QED
      BY <3>3 DEF p
  <2> QED
    BY <1>4, <1>5, <1>6, <1>9, <2>1, <2>2, <2>3 DEF Feed, FeedResponses
<1>10. CASE adapter = "codex"
  <2>1. e.type \in {"chunk", "[DONE]", "garbage", "added", "args", "item_done", "message_done",
                    "completed", "overloaded", "failed"}
    BY <1>10, ServerSentIs
  <2>2. ASSUME e.type = "added"
        PROVE  Answer(Reply([parser EXCEPT !.building = @ \cup {e.index}], <<>>, "go"))
    BY <1>1, <1>2, <2>2, ServerSentIs, RegistersIs DEF Answer, Reply, Verdicts, Parsers
  <2>3. /\ [parser EXCEPT !.said = TRUE] \in Parsers
        /\ [parser EXCEPT !.said = TRUE].building = parser.building
    BY <1>1 DEF Parsers
  <2>4. /\ Answer(Reply([parser EXCEPT !.said = TRUE], <<>>, "go"))
        /\ Answer(Reply([parser EXCEPT !.said = TRUE], <<"text">>, "go"))
    <3> DEFINE p == [parser EXCEPT !.said = TRUE]
               s == <<"text">>
    <3>1. s \in Seq(ProviderEvents) /\ \A i \in 1 .. Len(s) : s[i] \notin EndEvents
      BY <1>2 DEF EndEvents
    <3> HIDE DEF p, s
    <3>2. p \in Parsers /\ IsFiniteSet(p.building)
      BY <1>1, <2>3 DEF p
    <3>3. Answer(Reply(p, <<>>, "go")) /\ Answer(Reply(p, s, "go"))
      BY <3>1, <3>2, GoesOn, GoesOnSilently
    <3> QED
      BY <3>3 DEF p, s
  <2>5. ASSUME e.type = "item_done"
        PROVE  Answer(Reply([parser EXCEPT !.building = @ \ {e.index},
                                           !.calls = @ \cup {e.index}], <<"tool">>, "go"))
    <3>1. e.index \in Index
      BY <2>5, ServerSentIs
    <3>2. IsFiniteSet(parser.building \ {e.index})
      BY <1>1, FS_Subset
    <3> DEFINE p == [parser EXCEPT !.building = @ \ {e.index}, !.calls = @ \cup {e.index}]
               s == <<"tool">>
    <3>3. p \in Parsers /\ p.building = parser.building \ {e.index}
      BY <1>1, <3>1 DEF Parsers
    <3>4. s \in Seq(ProviderEvents) /\ \A i \in 1 .. Len(s) : s[i] \notin EndEvents
      BY <1>2 DEF EndEvents
    <3> HIDE DEF p, s
    <3>5. Answer(Reply(p, s, "go"))
      BY <3>2, <3>3, <3>4, GoesOn
    <3> QED
      BY <3>5 DEF p, s
  <2>6. ~EmittedContent => Answer(Reply(parser, <<>>, "retry"))
    BY <1>1, <1>2 DEF Answer, Reply, Verdicts
  <2> QED
    BY <1>4, <1>5, <1>6, <1>10, <2>1, <2>2, <2>4, <2>5, <2>6 DEF Feed, FeedCodex
<1> QED
  BY <1>7, <1>8, <1>9, <1>10 DEF Types

\* A parser that goes on knows the content it answered with, and never forgets any.
Knows(r) ==
  /\ parser.said => r.parser.said
  /\ parser.thought => r.parser.thought
  /\ parser.args => r.parser.args
  /\ parser.calls \subseteq r.parser.calls
  /\ adapter # "codex" => parser.building \subseteq r.parser.building
  /\ \A i \in 1 .. Len(r.events) :
       /\ r.events[i] = "text" => r.parser.said
       /\ r.events[i] = "thinking" => r.parser.thought
       /\ r.events[i] = "tool" => adapter = "codex" /\ r.parser.calls # {}

LEMMA ChunkKnows ==
  ASSUME Types, NEW e \in ServerSent, e.type = "chunk"
  PROVE  Knows(Reply(Accumulate(e), InOrder(e.channels), "go"))
<1> DEFINE s == InOrder(e.channels)
           p == Accumulate(e)
<1>1. s \in Seq({"text", "thinking"}) /\ \A i \in 1 .. Len(s) : s[i] \in e.channels
  BY InOrderIs
<1>2. /\ p.said <=> parser.said \/ "text" \in e.channels
      /\ p.thought <=> parser.thought \/ "thinking" \in e.channels
      /\ p.args = parser.args /\ p.calls = parser.calls
      /\ parser.building \subseteq p.building
  BY ServerSentIs, AccumulateIs
<1> HIDE DEF s, p
<1>3. Knows(Reply(p, s, "go"))
  <2>1. ASSUME NEW i \in 1 .. Len(s)
        PROVE  s[i] \in {"text", "thinking"} /\ s[i] \in e.channels
    BY <1>1
  <2> QED
    BY <1>2, <2>1 DEF Knows, Reply
<1> QED
  BY <1>3 DEF s, p

\* An answer without events.
LEMMA SilentKnows ==
  ASSUME Types, NEW p \in Parsers, p.said = parser.said, p.thought = parser.thought,
         parser.args => p.args, p.calls = parser.calls, parser.building \subseteq p.building
  PROVE  Knows(Reply(p, <<>>, "go"))
  BY DEF Knows, Reply

LEMMA FeedKnows ==
  ASSUME Types, NEW e \in ServerSent, Feed(e).verdict = "go"
  PROVE  Knows(Feed(e))
<1> DEFINE a == [parser EXCEPT !.building = @ \cup {e.index}]
           b == [parser EXCEPT !.building = @ \cup {e.index}, !.args = TRUE]
<1>1. parser \in Parsers
  BY DEF Types
<1>2. Knows(Reply(parser, <<>>, "go"))
  BY <1>1 DEF Knows, Reply
<1>3. ASSUME e.type \in {"added", "args", "item_done"}
      PROVE  Knows(Reply(a, <<>>, "go")) /\ Knows(Reply(b, <<>>, "go"))
  <2>1. e.index \in Index
    BY <1>3, ServerSentIs
  <2>2. /\ a \in Parsers /\ a.said = parser.said /\ a.thought = parser.thought
        /\ a.args = parser.args /\ a.calls = parser.calls /\ parser.building \subseteq a.building
    BY <1>1, <2>1 DEF Parsers
  <2>3. /\ b \in Parsers /\ b.said = parser.said /\ b.thought = parser.thought
        /\ b.args /\ b.calls = parser.calls /\ parser.building \subseteq b.building
    BY <1>1, <2>1 DEF Parsers
  <2> HIDE DEF a, b
  <2> QED
    BY <2>2, <2>3, SilentKnows
<1>4. CASE adapter = "chat"
  <2>1. e.type \in {"chunk", "[DONE]", "garbage"}
    BY <1>4, ServerSentIs
  <2> QED
    BY <1>4, <2>1, ChunkKnows DEF Feed, FeedChat, Reply
<1>5. CASE adapter = "mistral"
  <2>1. e.type \in {"chunk", "[DONE]", "garbage"}
    BY <1>5, ServerSentIs
  <2> QED
    BY <1>2, <1>5, <2>1, ChunkKnows DEF Feed, FeedMistral, Reply
<1>6. CASE adapter = "responses"
  <2>1. e.type \in {"chunk", "[DONE]", "garbage", "added", "args", "item_done", "completed",
                    "failed"}
    BY <1>6, ServerSentIs
  <2>2. CASE e.type \in {"completed", "failed"}
    BY <1>6, <2>2 DEF Feed, FeedResponses, Reply
  <2>3. CASE e.type \in {"chunk", "[DONE]", "garbage", "added", "args", "item_done"}
    BY <1>2, <1>3, <1>6, <2>3, ChunkKnows DEF Feed, FeedResponses
  <2> QED
    BY <2>1, <2>2, <2>3
<1>7. CASE adapter = "codex"
  <2>1. e.type \in {"chunk", "[DONE]", "garbage", "added", "args", "item_done", "message_done",
                    "completed", "overloaded", "failed"}
    BY <1>7, ServerSentIs
  <2>2. CASE e.type \in {"[DONE]", "completed", "overloaded", "failed"}
    BY <1>7, <2>2 DEF Feed, FeedCodex, Reply
  <2>3. CASE e.type \in {"chunk", "garbage", "added", "args"}
    BY <1>2, <1>3, <1>7, <2>3, ChunkKnows DEF Feed, FeedCodex
  <2>4. CASE e.type = "message_done"
    <3> DEFINE p == [parser EXCEPT !.said = TRUE]
               s == IF parser.said THEN <<>> ELSE <<"text">>
    <3>1. /\ p.said /\ p.thought = parser.thought /\ p.args = parser.args
          /\ p.calls = parser.calls /\ p.building = parser.building
      BY <1>1 DEF Parsers
    <3>2. \A i \in 1 .. Len(s) : s[i] = "text"
      OBVIOUS
    <3>3. Feed(e) = Reply(p, s, "go")
      BY <1>7, <2>4 DEF Feed, FeedCodex
    <3> HIDE DEF p, s
    <3> QED
      BY <3>1, <3>2, <3>3 DEF Knows, Reply
  <2>5. CASE e.type = "item_done"
    <3> DEFINE p == [parser EXCEPT !.building = @ \ {e.index}, !.calls = @ \cup {e.index}]
               s == <<"tool">>
    <3>1. /\ p.said = parser.said /\ p.thought = parser.thought /\ p.args = parser.args
          /\ p.calls = parser.calls \cup {e.index}
      BY <1>1 DEF Parsers
    <3>2. \A i \in 1 .. Len(s) : s[i] = "tool"
      OBVIOUS
    <3>3. Feed(e) = Reply(p, s, "go")
      BY <1>7, <2>5 DEF Feed, FeedCodex
    <3> HIDE DEF p, s
    <3> QED
      BY <1>7, <3>1, <3>2, <3>3, SMTT(30) DEF Knows, Reply
  <2> QED
    BY <2>1, <2>2, <2>3, <2>4, <2>5
<1> QED
  BY <1>4, <1>5, <1>6, <1>7 DEF Types

\* Content received or waiting is content that EmittedContent knows of.
LEMMA KnownContent ==
  ASSUME Types, NEW e \in ServerSent, Feed(e).verdict = "go",
         parser' = Feed(e).parser, adapter' = adapter
  PROVE  /\ EmittedContent => EmittedContent'
         /\ (\E i \in 1 .. Len(Feed(e).events) : Speech(Feed(e).events[i])) => EmittedContent'
<1>1. Knows(Feed(e))
  BY FeedKnows
<1>2. CASE adapter # "codex"
  BY <1>1, <1>2 DEF Types, Knows, EmittedContent, Speech
<1>3. CASE adapter = "codex"
  BY <1>1, <1>3 DEF Types, Knows, EmittedContent, Speech
<1> QED
  BY <1>2, <1>3
------------------------------------------------------------------------------
(* The steps *)

\* The adapter has not returned.
LEMMA Open ==
  ASSUME Inv, pc # "closed"
  PROVE  /\ Types /\ Fine(canon) /\ ~canon.terminal
         /\ Spoke(canon) => pc = "stream" /\ EmittedContent
  BY DEF Inv, Types, Fine, Settled, Spoke

\* A step that extends the reply by what is sound.
LEMMA Extends ==
  ASSUME Inv, UNCHANGED <<adapter, attempt, log>>, Fine(canon'),
         canon'.terminal => pc' = "closed",
         pc' \in {"stream", "closed"} \/ (pc' \in {"connect", "backoff"} /\ attempt > 0),
         parser' \in Parsers, IsFiniteSet(parser'.building),
         Spoke(canon') => pc' = "closed" \/ (pc' = "stream" /\ EmittedContent')
  PROVE  Inv'
<1>1. Types'
  BY DEF Inv, Types, Fine
<1>2. Sound(log, canon)'
  BY DEF Fine
<1>3. FromOne(log \o canon.out)'
  BY DEF Fine, FromOne, Counts
<1>4. Says(log \o canon.out)' => Spoke(canon')
  BY DEF Spoke, Says, Counts
<1>5. Unstarted'
  BY DEF Inv, Types, Unstarted
<1> QED
  BY <1>1, <1>2, <1>3, <1>4, <1>5 DEF Inv, Settled

\* What is not part of the reply does not matter before it has content.
LEMMA BacksOff ==
  ASSUME Inv, pc # "closed", ~Spoke(canon), UNCHANGED <<adapter, log>>, BackOff
  PROVE  Inv'
<1>1. Types /\ Fine(canon) /\ ~canon.terminal
  BY Open
<1>2. canon' = canon /\ log' = log /\ adapter' = adapter /\ attempt' = attempt + 1
      /\ pc' = "backoff" /\ parser' = FreshParser
  BY DEF BackOff
<1>3. FreshParser \in Parsers /\ IsFiniteSet(FreshParser.building)
  BY FS_EmptySet DEF FreshParser, Parsers
<1>4. Types'
  BY <1>1, <1>2, <1>3 DEF Types
<1>5. ~Says(log \o canon.out)'
  BY <1>2 DEF Spoke, Says, Counts
<1>6. FromOne(log \o canon.out)'
  BY <1>5 DEF FromOne, Says
<1>7. Sound(log, canon)'
  BY <1>1, <1>2 DEF Fine
<1>8. Unstarted'
  BY <1>1, <1>2 DEF Types, Unstarted
<1> QED
  BY <1>1, <1>2, <1>4, <1>5, <1>6, <1>7, <1>8 DEF Inv, Settled

LEMMA Yields ==
  ASSUME Inv, pc # "closed", NEW events \in Seq(ProviderEvents),
         \A i \in 1 .. Len(events) : events[i] \notin EndEvents
  PROVE  /\ Fine(Canonicalized(events)) /\ ~Canonicalized(events).terminal
         /\ Spoke(Canonicalized(events))
              => Spoke(canon) \/ \E i \in 1 .. Len(events) : Speech(events[i])
<1>1. events \in Sources
  BY DEF Sources
<1>2. Reached(Canonicalized(events), Len(events), events)
  BY <1>1, Open, CanonicalizedIs
<1>3. Len(events) \in Nat /\ (Len(events) > 0 => Len(events) \in 1 .. Len(events))
  OBVIOUS
<1> QED
  BY <1>2, <1>3 DEF Reached

LEMMA Returns ==
  ASSUME Inv, pc # "closed", NEW events \in Sources, YieldAndReturn(events),
         UNCHANGED <<adapter, attempt, log>>,
         parser' \in Parsers, IsFiniteSet(parser'.building)
  PROVE  Inv'
<1> DEFINE c == Canonicalized(events)
<1>1. Types /\ Reached(c, Len(events), events)
  BY Open, CanonicalizedIs
<1>2. canon' = Conclude(c) /\ pc' = "closed"
  BY DEF YieldAndReturn
<1> HIDE DEF c
<1>3. Fine(canon') /\ canon'.terminal
  BY <1>1, <1>2, ConcludeIs DEF Reached
<1> QED
  BY <1>2, <1>3, Extends

LEMMA GivesUp ==
  ASSUME Inv, pc # "closed", GiveUp, UNCHANGED <<adapter, log>>
  PROVE  Inv'
<1>1. <<"error">> \in Sources
  BY DEF Sources, ProviderEvents
<1>2. YieldAndReturn(<<"error">>) /\ UNCHANGED <<attempt, parser>>
  BY DEF GiveUp
<1>3. parser \in Parsers /\ IsFiniteSet(parser.building)
  BY DEF Inv, Types
<1> QED
  BY <1>1, <1>2, <1>3, Returns

LEMMA Silently == <<>> \in Sources
  BY DEF Sources

LEMMA AcceptedKeeps ==
  ASSUME Inv, Accepted
  PROVE  Inv'
<1> DEFINE s == <<"start">>
<1>1. s \in Seq(ProviderEvents) /\ Len(s) = 1 /\ s[1] = "start"
  BY DEF ProviderEvents
<1>2. /\ pc = "connect" /\ pc' = "stream" /\ canon' = Canonicalized(s)
      /\ UNCHANGED <<adapter, log, attempt, parser>>
  BY DEF Accepted, Running, Yield
<1> HIDE DEF s
<1>3. \A i \in 1 .. Len(s) : s[i] \notin EndEvents /\ ~Speech(s[i])
  BY <1>1 DEF EndEvents, Speech
<1>4. Fine(canon') /\ ~canon'.terminal /\ (Spoke(canon') => Spoke(canon))
  BY <1>1, <1>2, <1>3, Yields
<1>5. ~Spoke(canon)
  BY <1>2, Open
<1>6. parser' \in Parsers /\ IsFiniteSet(parser'.building)
  BY <1>2 DEF Inv, Types
<1> QED
  BY <1>2, <1>4, <1>5, <1>6, Extends

LEMMA RefusedKeeps ==
  ASSUME Inv, NEW transient \in BOOLEAN, Refused(transient)
  PROVE  Inv'
<1>1. pc = "connect" /\ UNCHANGED <<adapter, log>> /\ (BackOff \/ GiveUp)
  BY DEF Refused, Running
<1>2. ~Spoke(canon)
  BY <1>1, Open
<1> QED
  BY <1>1, <1>2, BacksOff, GivesUp

LEMMA DroppedKeeps ==
  ASSUME Inv, Dropped
  PROVE  Inv'
<1>1. pc # "closed" /\ UNCHANGED <<adapter, log>> /\ ((~EmittedContent /\ BackOff) \/ GiveUp)
  BY DEF Dropped, Running
<1>2. ~EmittedContent => ~Spoke(canon)
  BY <1>1, Open
<1> QED
  BY <1>1, <1>2, BacksOff, GivesUp

LEMMA LineKeeps ==
  ASSUME Inv, Line
  PROVE  Inv'
<1>1. pc = "stream" /\ UNCHANGED <<adapter, log>>
  BY DEF Line, Running
<1>2. Types /\ Fine(canon) /\ (Spoke(canon) => EmittedContent)
  BY <1>1, Open
<1>3. parser \in Parsers /\ IsFiniteSet(parser.building)
  BY <1>2 DEF Types
<1>4. CASE cancelled
  <2>1. YieldAndReturn(<<>>) /\ UNCHANGED <<attempt, parser>>
    BY <1>4 DEF Line
  <2> QED
    BY <1>1, <1>3, <2>1, Silently, Returns
<1>5. CASE ~cancelled
  <2>1. PICK e \in ServerSent :
          CASE Feed(e).verdict = "go" ->
                 /\ Yield(Feed(e).events)
                 /\ parser' = Feed(e).parser
                 /\ lines' = lines + 1
                 /\ UNCHANGED <<pc, attempt, remaining>>
            [] Feed(e).verdict = "stop" ->
                 /\ YieldAndReturn(Feed(e).events \o Finalize(Feed(e).parser))
                 /\ parser' = Feed(e).parser
                 /\ lines' = lines + 1
                 /\ UNCHANGED <<attempt, remaining>>
            [] Feed(e).verdict = "fatal" -> GiveUp
            [] Feed(e).verdict = "retry" -> BackOff
    BY <1>5 DEF Line
  <2>2. Answer(Feed(e))
    BY <1>2, FeedIs
  <2>3. CASE Feed(e).verdict = "go"
    <3>1. canon' = Canonicalized(Feed(e).events) /\ parser' = Feed(e).parser
          /\ UNCHANGED <<pc, attempt>>
      BY <2>1, <2>3 DEF Yield
    <3>2. /\ Fine(canon') /\ ~canon'.terminal
          /\ Spoke(canon') => Spoke(canon)
                 \/ \E i \in 1 .. Len(Feed(e).events) : Speech(Feed(e).events[i])
      BY <1>1, <2>2, <2>3, <3>1, Yields DEF Answer
    <3>3. Spoke(canon') => EmittedContent'
      BY <1>1, <1>2, <2>3, <3>1, <3>2, KnownContent
    <3> QED
      BY <1>1, <2>2, <3>1, <3>2, <3>3, Extends DEF Answer
  <2>4. CASE Feed(e).verdict = "stop"
    <3>1. /\ YieldAndReturn(<<>> \o Finalize(Feed(e).parser))
          /\ parser' = Feed(e).parser /\ UNCHANGED attempt
      BY <2>1, <2>2, <2>4 DEF Answer
    <3>2. Finalize(Feed(e).parser) \in Sources
      BY <2>2, FinalizeIs DEF Answer
    <3>3. <<>> \o Finalize(Feed(e).parser) = Finalize(Feed(e).parser)
      BY <3>2, ConcatEmptySeq DEF Sources
    <3> QED
      BY <1>1, <2>2, <3>1, <3>2, <3>3, Returns DEF Answer
  <2>5. CASE Feed(e).verdict = "fatal"
    BY <1>1, <2>1, <2>5, GivesUp
  <2>6. CASE Feed(e).verdict = "retry"
    <3>1. BackOff /\ ~EmittedContent
      BY <2>1, <2>2, <2>6 DEF Answer
    <3> QED
      BY <1>1, <1>2, <3>1, BacksOff
  <2> QED
    BY <2>2, <2>3, <2>4, <2>5, <2>6 DEF Answer, Verdicts
<1> QED
  BY <1>4, <1>5

LEMMA ExhaustedKeeps ==
  ASSUME Inv, Exhausted
  PROVE  Inv'
<1>1. /\ pc = "stream" /\ UNCHANGED <<adapter, log, attempt, parser>>
      /\ YieldAndReturn(Finalize(parser))
  BY DEF Exhausted, Running
<1>2. parser \in Parsers /\ IsFiniteSet(parser.building)
  BY DEF Inv, Types
<1> QED
  BY <1>1, <1>2, FinalizeIs, Returns

LEMMA PollKeeps ==
  ASSUME Inv, Poll
  PROVE  Inv'
<1>1. pc = "backoff" /\ UNCHANGED <<adapter, log, attempt, parser>>
  BY DEF Poll, Running
<1>2. parser \in Parsers /\ IsFiniteSet(parser.building)
  BY DEF Inv, Types
<1>3. CASE cancelled
  <2>1. YieldAndReturn(<<>>)
    BY <1>3 DEF Poll
  <2> QED
    BY <1>1, <1>2, <2>1, Silently, Returns
<1>4. CASE ~cancelled
  <2>1. canon' = canon /\ pc' \in {"connect", "backoff"}
    BY <1>4 DEF Poll
  <2>2. Fine(canon) /\ ~canon.terminal /\ ~Spoke(canon)
    BY <1>1, Open
  <2> QED
    BY <1>1, <1>2, <2>1, <2>2, Extends DEF Inv, Unstarted
<1> QED
  BY <1>3, <1>4

LEMMA ResolverRaisesKeeps ==
  ASSUME Inv, ResolverRaises
  PROVE  Inv'
<1> DEFINE e == Event("raised", "none")
           d == [canon EXCEPT !.out = Append(@, e), !.terminal = TRUE]
<1>1. /\ pc = "connect" /\ attempt = 0 /\ canon.out = <<>> /\ pc' = "closed"
      /\ UNCHANGED <<adapter, log, attempt, parser>>
      /\ canon' = [canon EXCEPT !.out = <<e>>, !.terminal = TRUE]
  BY DEF ResolverRaises, Running
<1>2. Types /\ Fine(canon) /\ ~canon.terminal /\ ~canon.started
  BY <1>1, Open DEF Inv, Unstarted
<1>3. parser \in Parsers /\ IsFiniteSet(parser.building)
  BY <1>2 DEF Types
<1>4. e \in Events /\ e.kind = "raised" /\ e.from = attempt
  BY <1>2, EventIs DEF Kind, Terminal
<1>5. Allowed(log \o canon.out, e)
  BY <1>2, <1>4, PhaseOf DEF Allowed
<1>6. canon' = d
  <2>1. Append(canon.out, e) = <<e>>
    BY <1>1, <1>4, SMTT(60)
  <2> HIDE DEF e
  <2> QED
    BY <1>1, <2>1
<1>7. Changed(canon, d, canon.started, canon.active, TRUE, Append(canon.out, e))
  BY <1>2, <1>4, ChangedIs DEF Fine
<1> HIDE DEF d, e
<1>8. e.kind \in Terminal /\ e.kind \notin {"open", "close"}
  BY <1>4 DEF Terminal
<1>9. Fine(d) /\ d.terminal
  BY <1>2, <1>4, <1>5, <1>7, <1>8, Push DEF Changed
<1> QED
  BY <1>1, <1>3, <1>6, <1>9, Extends

\* The consumer takes an event: the reply is what it was.
LEMMA Taken ==
  ASSUME Inv, Deliver
  PROVE  /\ Head(canon.out) \in Events
         /\ log' = Append(log, Head(canon.out)) /\ canon'.out \in Seq(Events)
         /\ log' \o canon'.out = log \o canon.out
         /\ (log \o canon.out)[Len(log) + 1] = Head(canon.out)
         /\ Len(log) + 1 \in 1 .. Len(log \o canon.out)
<1> DEFINE out == canon.out
<1>1. log \in Seq(Events) /\ out \in Seq(Events) /\ out # <<>>
  BY DEF Deliver, Inv, Types, Canons
<1>2. log' = Append(log, Head(out)) /\ canon'.out = Tail(out)
  BY DEF Deliver, Inv, Types, Canons
<1> HIDE DEF out
<1>3. /\ Len(out) \in Nat /\ Len(out) > 0 /\ Head(out) = out[1] /\ Head(out) \in Events
      /\ Tail(out) \in Seq(Events)
  BY <1>1
<1>4. Append(log, Head(out)) \o Tail(out) = log \o out
  BY <1>1, <1>3
<1>5. (log \o out)[Len(log) + 1] = out[1] /\ Len(log) + 1 \in 1 .. Len(log \o out)
  BY <1>1, <1>3
<1> QED
  BY <1>2, <1>3, <1>4, <1>5 DEF out

LEMMA DeliverKeeps ==
  ASSUME Inv, Deliver
  PROVE  Inv'
<1>1. /\ UNCHANGED <<adapter, pc, attempt, parser>>
      /\ canon' = [canon EXCEPT !.out = Tail(@)]
  BY DEF Deliver
<1>2. /\ Head(canon.out) \in Events
      /\ log' = Append(log, Head(canon.out)) /\ canon'.out \in Seq(Events)
      /\ log' \o canon'.out = log \o canon.out
  BY Taken
<1>3. log' \in Seq(Events)
  BY <1>2 DEF Inv, Types
<1>4. /\ canon' \in Canons /\ canon'.started = canon.started /\ canon'.active = canon.active
      /\ canon'.terminal = canon.terminal
  <2> DEFINE o == Tail(canon.out)
  <2>1. canon'.out = o
    BY <1>1 DEF Inv, Types, Canons
  <2>2. o \in Seq(Events)
    BY <1>2, <2>1
  <2>3. canon' = [canon EXCEPT !.out = o]
    BY <1>1
  <2> HIDE DEF o
  <2> QED
    BY <2>2, <2>3 DEF Inv, Types, Canons
<1>5. Types'
  BY <1>1, <1>3, <1>4 DEF Inv, Types
<1>6. Sound(log, canon)'
  BY <1>2, <1>4 DEF Inv, Sound
<1>7. FromOne(log \o canon.out)' /\ (Says(log \o canon.out)' => Says(log \o canon.out))
  BY <1>1, <1>2, ZenonT(60) DEF Inv, Settled, FromOne, Says, Counts
<1>8. EmittedContent' <=> EmittedContent
  BY <1>1 DEF EmittedContent
<1> QED
  BY <1>1, <1>4, <1>5, <1>6, <1>7, <1>8 DEF Inv, Settled, Unstarted

LEMMA Starts == Init => Inv
<1> SUFFICES ASSUME Init PROVE Inv
  OBVIOUS
<1>1. Types
  BY AdaptersAssumption, FS_EmptySet DEF Init, Types, Canons, Parsers, FreshParser
<1>2. log \o canon.out = <<>> /\ Len(<<>>) = 0 /\ DOMAIN <<>> = {}
  BY DEF Init
<1>3. Phase(<<>>) = "quiet" /\ OpenChannel(<<>>) = "none"
  BY DEF Phase, OpenChannel
<1>4. Sound(log, canon)
  BY <1>2, <1>3 DEF Init, Sound, Legal, Terminal
<1> QED
  BY <1>1, <1>2, <1>4 DEF Init, Inv, Settled, FromOne, Says, Unstarted

LEMMA Steps ==
  ASSUME Inv, [Next]_vars
  PROVE  Inv'
<1>1. CASE Envelope
  BY <1>1, AcceptedKeeps, RefusedKeeps, DroppedKeeps, LineKeeps, ExhaustedKeeps, PollKeeps
     DEF Envelope
<1>2. CASE ResolverRaises
  BY <1>2, ResolverRaisesKeeps
<1>3. CASE ResolverFails
  <2>1. pc # "closed" /\ GiveUp /\ UNCHANGED <<adapter, log>>
    BY <1>3 DEF ResolverFails, Running
  <2> QED
    BY <2>1, GivesUp
<1>4. CASE Deliver
  BY <1>4, DeliverKeeps
<1>5. CASE Cancel \/ UNCHANGED vars
  <2>1. UNCHANGED <<adapter, pc, attempt, parser, canon, log>>
    BY <1>5 DEF Cancel, vars
  <2>2. EmittedContent' <=> EmittedContent
    BY <2>1 DEF EmittedContent
  <2>3. Sound(log, canon)' <=> Sound(log, canon)
    BY <2>1
  <2>4. /\ FromOne(log \o canon.out)' <=> FromOne(log \o canon.out)
        /\ Says(log \o canon.out)' <=> Says(log \o canon.out)
    BY <2>1 DEF FromOne, Says, Counts
  <2>5. Types'
    BY <2>1 DEF Inv, Types
  <2> QED
    BY <2>1, <2>2, <2>3, <2>4, <2>5 DEF Inv, Settled, Unstarted
<1> QED
  BY <1>1, <1>2, <1>3, <1>4, <1>5 DEF Next, Adapter, Compatible, Codex, Mistral

------------------------------------------------------------------------------
(* The theorems *)

\* What was received is of one attempt because what is received or waiting is.
LEMMA OneAttempt ==
  ASSUME Inv
  PROVE  NoReplayOfContent
<1> DEFINE s == log \o canon.out
<1>1. log \in Seq(Events) /\ canon.out \in Seq(Events)
  BY DEF Inv, Types, Canons
<1>2. \A i \in DOMAIN log : i \in DOMAIN s /\ s[i] = log[i]
  BY <1>1
<1>3. FromOne(s)
  BY DEF Inv, Settled
<1> HIDE DEF s
<1>4. ASSUME NEW i \in Content, adapter = "codex" => log[i].channel # "thinking"
      PROVE  log[i].from = attempt
  BY <1>2, <1>3, <1>4 DEF FromOne, Counts, Content
<1> QED
  BY <1>4 DEF NoReplayOfContent

(* A retry never repeats content: what the consumer received of a reply is   *)
(* of one attempt, whatever the server sends, wherever the connection drops  *)
(* and however often the envelope of the adapter retries.                    *)
THEOREM ContentIsNotReplayed == Spec => []NoReplayOfContent
<1>1. Inv /\ [Next]_vars => Inv'
  BY Steps
<1> QED
  BY <1>1, Starts, OneAttempt, PTL DEF Spec

\* The consumer's view changes by a step of the contract.
LEMMA DeliverImplements ==
  ASSUME Inv, Deliver
  PROVE  Contract!Next
<1> DEFINE e == Head(canon.out)
           s == log \o canon.out
           n == Len(log)
<1>1. /\ e \in Events /\ log' = Append(log, e) /\ s[n + 1] = e
      /\ n + 1 \in 1 .. Len(s)
  BY Taken
<1>2. log \in Seq(Events) /\ canon.out \in Seq(Events)
  BY DEF Inv, Types, Canons
<1>3. Prefix(s, n) = log
  <2>1. n \in Nat /\ \A i \in 1 .. n : s[i] = log[i]
    BY <1>2
  <2>2. log = [i \in 1 .. n |-> log[i]]
    BY <1>2
  <2> HIDE DEF s, n
  <2> QED
    BY <2>1, <2>2 DEF Prefix
<1>4. Allowed(log, e)
  <2>1. Legal(s)
    BY DEF Inv, Sound
  <2>2. (n + 1) - 1 = n
    BY <1>2
  <2> HIDE DEF s, n, e
  <2>3. Allowed(Prefix(s, (n + 1) - 1), s[n + 1])
    BY <1>1, <2>1 DEF Legal
  <2> QED
    BY <1>1, <1>3, <2>2, <2>3
<1> HIDE DEF e, s, n
<1>5. Phase(log') = IF e.kind \in Terminal THEN e.kind ELSE "live"
  BY <1>1, <1>2, PhaseAfter
<1>6. OpenChannel(log') = IF e.kind = "open" THEN e.channel
                          ELSE IF e.kind = "close" THEN "none" ELSE OpenChannel(log)
  BY <1>1, <1>2, OpenAfter
<1>7. Len(log') = Len(log) + 1
  BY <1>1, <1>2
<1>8. \/ Contract!Start \/ Contract!OpenBlock \/ Contract!Fill \/ Contract!CloseBlock
      \/ Contract!Done \/ Contract!Fail \/ Contract!Raise
  BY <1>4, <1>5, <1>6 DEF Allowed, Terminal, Channel, Contract!Start, Contract!OpenBlock,
     Contract!Fill, Contract!CloseBlock, Contract!Done, Contract!Fail, Contract!Raise,
     Contract!Channel
<1> QED
  BY <1>7, <1>8 DEF Contract!Next

(* What the consumer receives is a reply as the provider protocol promises   *)
(* it: every step of the adapters and the canonicalizer is a step of         *)
(* ReplyContract or none at all.                                             *)
THEOREM ReplyImplementsContract == Spec => ImplementsContract
<1>1. Init => Contract!Init
  BY DEF Init, Contract!Init, Phase, OpenChannel
<1>2. ASSUME Inv, [Next]_vars
      PROVE  [Contract!Next]_(Contract!vars)
  <2>1. CASE Deliver
    BY <1>2, <2>1, DeliverImplements
  <2>2. CASE ~Deliver
    <3>1. log' = log
      BY <1>2, <2>2 DEF Next, Adapter, Compatible, Codex, Mistral, Envelope, Accepted, Refused,
         Dropped, Line, Exhausted, Poll, ResolverRaises, ResolverFails, Running, Cancel, vars
    <3> QED
      BY <3>1 DEF Contract!vars
  <2> QED
    BY <2>1, <2>2
<1>3. Inv /\ [Next]_vars => Inv'
  BY Steps
<1>4. Inv /\ [Next]_vars => [Contract!Next]_(Contract!vars)
  BY <1>2
<1> QED
  BY <1>1, <1>3, <1>4, Starts, PTL DEF Spec, ImplementsContract, Contract!Spec
-----------------------------------------------------------------------------
(* The benchmark command and the update check. *)

Status == {"agent_failure", "timeout", "evaluation_failure", "cancelled", "passed", "task_failed"}
Outcome == [status : Status, reward : {0, 1}, error : BOOLEAN, diagnosed : BOOLEAN]

BenchmarkType ==
  /\ awaiting \in {"prepare", "next", "load", "prompt", "join", "drain", "close", "ran", "done"}
  /\ cancel \in {"no", "scope", "signal", "raised"}
  /\ keep \in BOOLEAN /\ real \in BOOLEAN
  /\ session \in {"none", "open", "closed", "broken"}
  /\ prompt \in {"none", "running", "returned", "raised"}
  /\ trial \in Outcome
  /\ results \in Seq({results[i] : i \in DOMAIN results})

\* A cancellation that was raised is on its way out of the trial or has ended the command.
Stopping ==
  /\ cancel = "raised" => \/ awaiting \in {"drain", "ran", "done"}
                          \/ awaiting = "close" /\ trial.status = "cancelled"
  /\ cancel = "scope" /\ awaiting \in {"prepare", "next"} => Over /\ real
  /\ awaiting = "ran" => failed
  /\ awaiting # "done" => ~artifact
  /\ awaiting = "prepare" \/ (awaiting # "done" /\ ~real) => provider = "none"
  /\ awaiting = "prepare" => root = "none"
  /\ prompt = "running" => awaiting \in {"prompt", "join", "drain"}
  /\ awaiting \in {"prepare", "load"} => session = "none" /\ prompt = "none"

Good == prompt = "returned" /\ ~late /\ ~seen.failure /\ ChecksMet

\* Only a good trial passes, and it passes unless it was cancelled or could not be checked.
Verdict ==
  /\ trial.reward = 1 => trial.status = "passed"
  /\ awaiting \in {"load", "prompt", "join", "drain"} => trial.reward = 0
  /\ awaiting = "close" =>
       /\ trial.reward = 1 => Good
       /\ Good /\ ~trial.diagnosed =>
            trial.reward = 1 \/ trial.status \in {"evaluation_failure", "cancelled"}

BenchmarkInv == BenchmarkType /\ Stopping /\ Verdict /\ NothingLeftOpen /\ RewardIsEarned

------------------------------------------------------------------------------
LEMMA BenchmarkInitInv == BenchmarkInit => BenchmarkInv
<1> SUFFICES ASSUME BenchmarkInit PROVE BenchmarkInv
  OBVIOUS
<1>1. BenchmarkType
  BY DEF BenchmarkInit, BenchmarkType, Outcome, Status, Fresh
<1>2. Stopping /\ Verdict
  BY DEF BenchmarkInit, Stopping, Verdict, Fresh
<1>3. NothingLeftOpen /\ RewardIsEarned
  BY DEF BenchmarkInit, NothingLeftOpen, RewardIsEarned
<1> QED
  BY <1>1, <1>2, <1>3 DEF BenchmarkInv

\* What the checks find depends on the answer and the workspace only.
LEMMA SameChecks ==
  ASSUME UNCHANGED <<tasks, results, seen, work>>
  PROVE  ChecksMet' = ChecksMet /\ Over' = Over
  BY DEF ChecksMet, RepositoryLookup, TargetedEdit, FailingTestFix, CurrentTask, Over

LEMMA SameResults ==
  ASSUME BenchmarkInv, UNCHANGED results
  PROVE  RewardIsEarned' /\ results' \in Seq({results'[i] : i \in DOMAIN results'})
  BY DEF BenchmarkInv, BenchmarkType, RewardIsEarned

LEMMA FreshIsOutcome ==
  /\ Fresh \in Outcome /\ Fresh.reward = 0 /\ Fresh.status = "agent_failure"
  /\ [Fresh EXCEPT !.error = TRUE] \in Outcome /\ [Fresh EXCEPT !.error = TRUE].reward = 0
  /\ [Fresh EXCEPT !.error = TRUE].status = "agent_failure"
  BY DEF Fresh, Outcome, Status

\* What may be noted in an outcome before its verdict.
LEMMA NotedStatus ==
  ASSUME NEW t \in Outcome, NEW s \in Status
  PROVE  /\ [t EXCEPT !.status = s] \in Outcome /\ [t EXCEPT !.status = s].reward = t.reward
         /\ [t EXCEPT !.status = s].status = s
  BY DEF Outcome, Status

LEMMA NotedError ==
  ASSUME NEW t \in Outcome
  PROVE  /\ [t EXCEPT !.error = TRUE] \in Outcome /\ [t EXCEPT !.error = TRUE].reward = t.reward
         /\ [t EXCEPT !.error = TRUE].status = t.status
  BY DEF Outcome, Status

LEMMA NotedDiagnosed ==
  ASSUME NEW t \in Outcome
  PROVE  /\ [t EXCEPT !.diagnosed = TRUE] \in Outcome
         /\ [t EXCEPT !.diagnosed = TRUE].reward = t.reward
         /\ [t EXCEPT !.diagnosed = TRUE].status = t.status
  BY DEF Outcome, Status

LEMMA NotedFailure ==
  ASSUME NEW t \in Outcome, NEW s \in Status
  PROVE  LET u == [t EXCEPT !.status = s, !.error = TRUE]
         IN  u \in Outcome /\ u.reward = t.reward /\ u.status = s
  BY DEF Outcome, Status

LEMMA NotedReward ==
  ASSUME NEW t \in Outcome, NEW s \in Status, NEW r \in {0, 1}
  PROVE  LET u == [t EXCEPT !.status = s, !.reward = r]
         IN  u \in Outcome /\ u.reward = r /\ u.status = s
  BY DEF Outcome, Status

LEMMA CancelStep ==
  ASSUME BenchmarkInv, NEW who \in {"scope", "signal"}, CancelBenchmark(who)
  PROVE  BenchmarkInv'
<1> USE DEF BenchmarkInv
<1>1. /\ cancel = "no" /\ awaiting \notin {"prepare", "done"} /\ cancel' = who /\ (who = "scope" => Waiting)
      /\ UNCHANGED <<awaiting, tasks, keep, real, trialVars, results, endVars>>
  BY DEF CancelBenchmark
<1>2. BenchmarkType'
  BY <1>1, SameResults DEF BenchmarkType, trialVars
<1>3. Stopping'
  BY <1>1, SameChecks DEF Stopping, Waiting, Ran, trialVars, endVars
<1>4. Verdict'
  BY <1>1, SameChecks DEF Verdict, Good, trialVars
<1>5. NothingLeftOpen'
  BY <1>1 DEF NothingLeftOpen, Stopping, trialVars, endVars
<1> QED
  BY <1>1, <1>2, <1>3, <1>4, <1>5, SameResults

LEMMA PrepareStep ==
  ASSUME BenchmarkInv, Prepare
  PROVE  BenchmarkInv'
<1> USE DEF BenchmarkInv
<1>1. /\ awaiting = "prepare" /\ awaiting' \in {"next", "done"} /\ root' \in {"there", root}
      /\ UNCHANGED <<tasks, keep, real, cancel, trialVars, results, archived, artifact>>
      /\ awaiting' = "next" => provider' = (IF real THEN "open" ELSE "none")
      /\ awaiting' = "done" => UNCHANGED <<root, provider>>
  BY DEF Prepare
<1>2. session = "none" /\ prompt = "none" /\ ~artifact
  BY <1>1 DEF Stopping
<1>3. BenchmarkType'
  BY <1>1, SameResults DEF BenchmarkType, trialVars
<1>4. Stopping' /\ Verdict'
  BY <1>1, <1>2, SameChecks DEF Stopping, Verdict, Good, trialVars
<1>5. NothingLeftOpen'
  BY <1>1, <1>2 DEF NothingLeftOpen, Stopping, trialVars
<1> QED
  BY <1>1, <1>3, <1>4, <1>5, SameResults

LEMMA StartTrialStep ==
  ASSUME BenchmarkInv, StartTrial
  PROVE  BenchmarkInv'
<1> USE DEF BenchmarkInv
<1>1. /\ awaiting = "next" /\ ~Over /\ session' = "none" /\ prompt' = "none"
      /\ UNCHANGED <<tasks, keep, real, cancel, results, endVars>>
      /\ awaiting' \in {"load", "close"} /\ trial' \in {Fresh, [Fresh EXCEPT !.error = TRUE]}
  BY DEF StartTrial
<1>2. trial' \in Outcome /\ trial'.reward = 0 /\ trial'.status = "agent_failure"
  BY <1>1, FreshIsOutcome
<1>3. BenchmarkType'
  BY <1>1, <1>2, SameResults DEF BenchmarkType
<1>4. cancel \in {"no", "signal"}
  BY <1>1 DEF Stopping, BenchmarkType
<1>5. Stopping'
  BY <1>1, <1>2, <1>4 DEF Stopping, endVars
<1>6. Verdict'
  BY <1>1, <1>2 DEF Verdict, Good
<1>7. NothingLeftOpen'
  BY <1>1, <1>4 DEF NothingLeftOpen, Stopping, endVars
<1> QED
  BY <1>1, <1>3, <1>5, <1>6, <1>7, SameResults

LEMMA LoadStep ==
  ASSUME BenchmarkInv, Load
  PROVE  BenchmarkInv'
<1> USE DEF BenchmarkInv
<1>1. /\ awaiting = "load" /\ session = "none" /\ prompt = "none" /\ trial \in Outcome /\ trial.reward = 0
      /\ UNCHANGED <<tasks, keep, real, token, late, seen, work, steps, results, endVars>>
  BY DEF Load, Stopping, Verdict, BenchmarkType
<1>2. cancel # "raised"
  BY <1>1 DEF Stopping
<1>3. CASE Raises(FALSE)
  <2>1. /\ awaiting' = "close" /\ trial' = [trial EXCEPT !.status = "cancelled"] /\ UNCHANGED <<session, prompt>>
        /\ cancel' = (IF cancel = "signal" THEN "raised" ELSE cancel)
    BY <1>3 DEF Load, Raised
  <2>2. trial' \in Outcome /\ trial'.reward = 0 /\ trial'.status = "cancelled"
    <3>1. "cancelled" \in Status
      BY DEF Status
    <3> QED
      BY <1>1, <2>1, <3>1, NotedStatus
  <2>3. BenchmarkType'
    BY <1>1, <2>1, <2>2, SameResults DEF BenchmarkType
  <2>4. Stopping'
    BY <1>1, <2>1, <2>2 DEF Stopping, endVars
  <2>5. Verdict' /\ NothingLeftOpen'
    BY <1>1, <2>1, <2>2 DEF Verdict, Good, NothingLeftOpen, Stopping, endVars
  <2> QED
    BY <1>1, <2>3, <2>4, <2>5, SameResults
<1>4. CASE ~Raises(FALSE)
  <2>1. /\ UNCHANGED cancel
        /\ \/ awaiting' = "prompt" /\ session' = "open" /\ prompt' = "running" /\ trial' = trial
           \/ awaiting' = "close" /\ trial' = [trial EXCEPT !.error = TRUE] /\ UNCHANGED <<session, prompt>>
    BY <1>4 DEF Load
  <2>2. trial' \in Outcome /\ trial'.reward = 0
    <3>1. CASE trial' = trial
      BY <1>1, <3>1
    <3>2. CASE trial' = [trial EXCEPT !.error = TRUE]
      BY <1>1, <3>2, NotedError
    <3> QED
      BY <2>1, <3>1, <3>2
  <2>3. BenchmarkType'
    BY <1>1, <2>1, <2>2, SameResults DEF BenchmarkType
  <2>4. Stopping'
    BY <1>1, <1>2, <2>1 DEF Stopping, endVars
  <2>5. Verdict' /\ NothingLeftOpen'
    BY <1>1, <2>1, <2>2 DEF Verdict, Good, NothingLeftOpen, Stopping, endVars
  <2> QED
    BY <1>1, <2>3, <2>4, <2>5, SameResults
<1> QED
  BY <1>3, <1>4

\* While the prompt runs nothing is decided.
LEMMA PromptStep ==
  ASSUME BenchmarkInv, AgentActs \/ PromptEnds
  PROVE  BenchmarkInv'
<1> USE DEF BenchmarkInv
<1>1. /\ awaiting \in {"prompt", "join", "drain"} /\ prompt = "running" /\ prompt' \in {"running", "returned", "raised"}
      /\ UNCHANGED <<awaiting, tasks, keep, real, cancel, session, trial, results, endVars>>
  BY DEF AgentActs, PromptEnds, Prompting
<1>2. BenchmarkType'
  BY <1>1, SameResults DEF BenchmarkType
<1>3. Stopping' /\ NothingLeftOpen'
  BY <1>1 DEF Stopping, NothingLeftOpen, endVars
<1>4. Verdict'
  BY <1>1 DEF Verdict
<1> QED
  BY <1>1, <1>2, <1>3, <1>4, SameResults

LEMMA StopPromptStep ==
  ASSUME BenchmarkInv, TimeOut \/ CancelPrompt
  PROVE  BenchmarkInv'
<1> USE DEF BenchmarkInv
<1>1. /\ awaiting \in {"prompt", "join"} /\ prompt = "running" /\ prompt' = prompt
      /\ UNCHANGED <<tasks, keep, real, session, results, endVars>>
      /\ trial' \in {trial, [trial EXCEPT !.diagnosed = TRUE]}
  BY DEF TimeOut, CancelPrompt, CancelSession
<1>2. \/ awaiting' = "join" /\ cancel' = cancel
      \/ awaiting' = "drain" /\ cancel' = (IF cancel = "signal" THEN "raised" ELSE cancel)
  BY DEF TimeOut, CancelPrompt, Raised
<1>3. trial' \in Outcome /\ trial'.reward = 0 /\ trial'.status = trial.status
  <2>1. trial \in Outcome /\ trial.reward = 0
    BY <1>1 DEF BenchmarkType, Verdict
  <2>2. CASE trial' = trial
    BY <2>1, <2>2
  <2>3. CASE trial' = [trial EXCEPT !.diagnosed = TRUE]
    BY <2>1, <2>3, NotedDiagnosed
  <2> QED
    BY <1>1, <2>2, <2>3
<1>4. BenchmarkType'
  BY <1>1, <1>2, <1>3, SameResults DEF BenchmarkType
<1>5. Stopping' /\ NothingLeftOpen'
  BY <1>1, <1>2 DEF Stopping, NothingLeftOpen, endVars
<1>6. Verdict'
  BY <1>2, <1>3 DEF Verdict
<1> QED
  BY <1>1, <1>4, <1>5, <1>6, SameResults

LEMMA JudgedIsRight ==
  ASSUME BenchmarkType, trial.reward = 0, NEW t \in Judged
  PROVE  /\ t \in Outcome
         /\ t.reward = 1 => t.status = "passed" /\ ~late /\ prompt # "raised" /\ ~seen.failure /\ ChecksMet
         /\ ~late /\ prompt # "raised" /\ ~seen.failure /\ ChecksMet =>
              t.reward = 1 \/ t.status = "evaluation_failure"
<1>1. trial \in Outcome
  BY DEF BenchmarkType
<1>2. {"timeout", "evaluation_failure", "passed", "task_failed"} \subseteq Status
  BY DEF Status
<1>3. CASE late
  <2>1. t = [trial EXCEPT !.status = "timeout", !.error = TRUE]
    BY <1>3 DEF Judged
  <2>2. t \in Outcome /\ t.reward = 0
    BY <1>1, <1>2, <2>1, NotedFailure
  <2> QED
    BY <1>3, <2>2
<1>4. CASE ~late /\ (prompt = "raised" \/ seen.failure)
  <2>1. t = [trial EXCEPT !.error = TRUE]
    BY <1>4 DEF Judged
  <2>2. t \in Outcome /\ t.reward = 0
    BY <1>1, <2>1, NotedError
  <2> QED
    BY <1>4, <2>2
<1>5. CASE ~late /\ ~(prompt = "raised" \/ seen.failure)
  <2>1. t \in {Evaluate, [trial EXCEPT !.status = "evaluation_failure", !.error = TRUE]}
    BY <1>5 DEF Judged
  <2>2. CASE t = Evaluate /\ ChecksMet
    <3>1. t = [trial EXCEPT !.status = "passed", !.reward = 1]
      BY <2>2, SMTT(30) DEF Evaluate
    <3>2. t \in Outcome /\ t.reward = 1 /\ t.status = "passed"
      BY <1>1, <1>2, <3>1, NotedReward, ZenonT(30)
    <3> QED
      BY <1>5, <2>2, <3>2
  <2>3. CASE t = Evaluate /\ ~ChecksMet
    <3>1. t = [trial EXCEPT !.status = "task_failed", !.reward = 0]
      BY <2>3 DEF Evaluate
    <3>2. t \in Outcome /\ t.reward = 0
      BY <1>1, <1>2, <3>1, NotedReward, ZenonT(30)
    <3> QED
      BY <2>3, <3>2
  <2>4. CASE t = [trial EXCEPT !.status = "evaluation_failure", !.error = TRUE]
    <3>1. t \in Outcome /\ t.reward = 0 /\ t.status = "evaluation_failure"
      BY <1>1, <1>2, <2>4, NotedFailure
    <3> QED
      BY <3>1
  <2> QED
    BY <2>1, <2>2, <2>3, <2>4
<1> QED
  BY <1>3, <1>4, <1>5

LEMMA PromptIsOverStep ==
  ASSUME BenchmarkInv, PromptIsOver
  PROVE  BenchmarkInv'
<1> USE DEF BenchmarkInv
<1>1. /\ awaiting \in {"prompt", "join", "drain"} /\ prompt \in {"returned", "raised"} /\ awaiting' = "close"
      /\ trial \in Outcome /\ trial.reward = 0
      /\ UNCHANGED <<tasks, keep, real, session, prompt, late, seen, work, steps, results, endVars>>
  BY DEF PromptIsOver, Verdict, BenchmarkType
<1>2. Good' = Good
  BY <1>1, SameChecks DEF Good
<1>3. CASE awaiting = "drain" \/ Raises(FALSE)
  <2>1. trial' = [trial EXCEPT !.status = "cancelled"]
        /\ cancel' \in {cancel, IF cancel = "signal" THEN "raised" ELSE cancel}
    BY <1>3 DEF PromptIsOver, Raised
  <2>2. trial' \in Outcome /\ trial'.reward = 0 /\ trial'.status = "cancelled"
    <3>1. "cancelled" \in Status
      BY DEF Status
    <3> QED
      BY <1>1, <2>1, <3>1, NotedStatus
  <2>3. BenchmarkType'
    BY <1>1, <2>1, <2>2, SameResults DEF BenchmarkType
  <2>4. Stopping' /\ NothingLeftOpen'
    BY <1>1, <2>1, <2>2 DEF Stopping, NothingLeftOpen, endVars
  <2>5. Verdict'
    BY <1>1, <2>2 DEF Verdict
  <2> QED
    BY <1>1, <2>3, <2>4, <2>5, SameResults
<1>4. CASE ~(awaiting = "drain" \/ Raises(FALSE))
  <2>1. trial' \in Judged /\ UNCHANGED cancel
    BY <1>4 DEF PromptIsOver
  <2>2. /\ trial' \in Outcome
        /\ trial'.reward = 1 => trial'.status = "passed" /\ Good
        /\ Good => trial'.reward = 1 \/ trial'.status = "evaluation_failure"
    BY <1>1, <2>1, JudgedIsRight DEF Good
  <2>3. BenchmarkType'
    BY <1>1, <2>1, <2>2, SameResults DEF BenchmarkType
  <2>4. cancel # "raised"
    BY <1>1, <1>4 DEF Stopping
  <2>5. Stopping' /\ NothingLeftOpen'
    BY <1>1, <2>1, <2>4 DEF Stopping, NothingLeftOpen, endVars
  <2>6. Verdict'
    BY <1>1, <1>2, <2>2 DEF Verdict
  <2> QED
    BY <1>1, <2>3, <2>5, <2>6, SameResults
<1> QED
  BY <1>3, <1>4

------------------------------------------------------------------------------
\* What recording one more result does to the results.
LEMMA Recorded ==
  ASSUME NEW s, NEW e, s \in Seq({s[i] : i \in DOMAIN s})
  PROVE  LET a == Append(s, e)
         IN  /\ a \in Seq({a[i] : i \in DOMAIN a})
             /\ \A i \in DOMAIN a : (i \in DOMAIN s /\ a[i] = s[i]) \/ a[i] = e
<1> DEFINE S == {s[i] : i \in DOMAIN s} \cup {e}
           a == Append(s, e)
<1>1. s \in Seq(S)
  <2>1. Len(s) \in Nat /\ DOMAIN s = 1..Len(s) /\ s \in [1..Len(s) -> {s[i] : i \in DOMAIN s}]
    OBVIOUS
  <2>2. s \in [1..Len(s) -> S]
    BY <2>1
  <2> QED
    BY <2>1, <2>2
<1>2. /\ a \in Seq(S) /\ Len(a) = Len(s) + 1 /\ Len(s) \in Nat
      /\ DOMAIN a = 1..Len(s) + 1 /\ DOMAIN s = 1..Len(s)
      /\ a[Len(s) + 1] = e /\ \A i \in 1..Len(s) : a[i] = s[i]
  BY <1>1
<1>3. \A i \in DOMAIN a : (i \in DOMAIN s /\ a[i] = s[i]) \/ a[i] = e
  BY <1>2
<1>4. a \in [1..Len(a) -> {a[i] : i \in DOMAIN a}]
  <2>1. a \in Seq(S)
    BY <1>2
  <2> HIDE DEF a, S
  <2>2. a \in [1..Len(a) -> S] /\ DOMAIN a = 1..Len(a)
    BY <2>1
  <2>3. \A i \in 1..Len(a) : a[i] \in {a[j] : j \in DOMAIN a}
    BY <2>2
  <2> QED
    BY <2>2, <2>3
<1>5. a \in Seq({a[i] : i \in DOMAIN a})
  BY <1>2, <1>4, SMTT(30)
<1> QED
  BY <1>3, <1>5

LEMMA AdjustedIsRight ==
  ASSUME NEW t \in Outcome, t.reward = 1 => t.status = "passed"
  PROVE  /\ Adjusted(t) \in Outcome
         /\ t.diagnosed => Adjusted(t).reward = 0
         /\ ~t.diagnosed => Adjusted(t) = t
<1>1. CASE ~t.diagnosed
  BY <1>1 DEF Adjusted
<1>2. CASE t.diagnosed /\ t.status \in {"passed", "task_failed"}
  <2>1. Adjusted(t) = [t EXCEPT !.status = "agent_failure", !.reward = 0, !.error = TRUE]
    BY <1>2 DEF Adjusted
  <2>2. Adjusted(t) \in Outcome /\ Adjusted(t).reward = 0
    BY <2>1 DEF Outcome, Status
  <2> QED
    BY <1>2, <2>2
<1>3. CASE t.diagnosed /\ t.status \notin {"passed", "task_failed"}
  <2>1. Adjusted(t) = [t EXCEPT !.error = TRUE]
    BY <1>3 DEF Adjusted
  <2>2. t.reward = 0
    BY <1>3 DEF Outcome
  <2>3. Adjusted(t) \in Outcome /\ Adjusted(t).reward = 0
    BY <2>1, <2>2, NotedError
  <2> QED
    BY <1>3, <2>3
<1> QED
  BY <1>1, <1>2, <1>3

LEMMA CloseTrialStep ==
  ASSUME BenchmarkInv, CloseTrial
  PROVE  BenchmarkInv'
<1> USE DEF BenchmarkInv
<1>1. PICK closes \in BOOLEAN, removes \in BOOLEAN :
         LET t == [trial EXCEPT !.diagnosed = @ \/ (session = "open" /\ ~closes)
                                                \/ (~keep /\ ~removes)]
         IN  /\ session' = IF session # "open" THEN session
                           ELSE IF closes THEN "closed" ELSE "broken"
             /\ IF t.status = "cancelled" \/ CancelledInCleanup
                THEN awaiting' = "ran" /\ failed' = TRUE /\ trial' = t /\ UNCHANGED results
                ELSE /\ awaiting' = "next" /\ trial' = t
                     /\ results' = Append(results, [task |-> CurrentTask, earned |-> Earned(t),
                                                    outcome |-> Adjusted(t)])
                     /\ UNCHANGED failed
  BY DEF CloseTrial
<1>2. /\ awaiting = "close" /\ prompt # "running" /\ ~artifact /\ trial \in Outcome
      /\ UNCHANGED <<tasks, keep, real, cancel, token, prompt, late, seen, work, steps,
                     provider, root, archived, artifact, exit>>
  BY DEF CloseTrial, Stopping, BenchmarkType
<1> DEFINE d == trial.diagnosed \/ (session = "open" /\ ~closes) \/ (~keep /\ ~removes)
           t == [trial EXCEPT !.diagnosed = d]
           r == [task |-> CurrentTask, earned |-> Earned(t), outcome |-> Adjusted(t)]
<1>3. /\ t \in Outcome /\ t.reward = trial.reward /\ t.status = trial.status
      /\ t.diagnosed = d
  <2>1. d \in BOOLEAN
    BY <1>2 DEF Outcome
  <2> HIDE DEF d
  <2> QED
    BY <1>2, <2>1 DEF Outcome
<1>4. session' \in {session, "closed", "broken"} /\ session' # "open" /\ trial' = t
  BY <1>1
<1>5. \/ awaiting' = "ran" /\ failed' = TRUE /\ results' = results
      \/ /\ awaiting' = "next" /\ t.status # "cancelled" /\ cancel # "scope"
         /\ results' = Append(results, r)
  BY <1>1 DEF CancelledInCleanup
<1> HIDE DEF t
<1>6. trial' \in Outcome /\ trial'.reward = trial.reward /\ trial'.status = trial.status
  BY <1>3, <1>4
<1>7. t.reward = 1 => t.status = "passed" /\ Good
  BY <1>2, <1>3 DEF Verdict
<1>8. Good /\ ~t.diagnosed => t.reward = 1 \/ t.status \in {"evaluation_failure", "cancelled"}
  BY <1>2, <1>3 DEF Verdict
<1>9. CASE awaiting' = "ran" /\ failed' = TRUE /\ results' = results
  <2>1. BenchmarkType'
    BY <1>2, <1>4, <1>6, <1>9, SameResults DEF BenchmarkType
  <2>2. Stopping' /\ NothingLeftOpen'
    BY <1>2, <1>4, <1>9 DEF Stopping, NothingLeftOpen
  <2>3. Verdict'
    BY <1>6, <1>9 DEF Verdict
  <2> QED
    BY <1>9, <2>1, <2>2, <2>3, SameResults
<1>10. CASE /\ awaiting' = "next" /\ t.status # "cancelled" /\ cancel # "scope"
            /\ results' = Append(results, r)
  <2>1. cancel # "raised"
    BY <1>2, <1>3, <1>10 DEF Stopping
  <2>2. /\ results' \in Seq({results'[i] : i \in DOMAIN results'})
        /\ \A i \in DOMAIN results' : (i \in DOMAIN results /\ results'[i] = results[i]) \/ results'[i] = r
    BY <1>10, Recorded, SMTT(30) DEF BenchmarkType
  <2>3. BenchmarkType'
    BY <1>2, <1>4, <1>6, <1>10, <2>2 DEF BenchmarkType
  <2>4. Stopping' /\ NothingLeftOpen'
    BY <1>2, <1>4, <1>10, <2>1 DEF Stopping, NothingLeftOpen
  <2>5. Verdict'
    BY <1>6, <1>10 DEF Verdict
  <2>6. /\ Adjusted(t) \in Outcome
        /\ t.diagnosed => Adjusted(t).reward = 0
        /\ ~t.diagnosed => Adjusted(t) = t
    BY <1>3, <1>7, AdjustedIsRight
  <2>7. r.earned = Earned(t) /\ r.outcome = Adjusted(t)
    OBVIOUS
  <2>8. Earned(t) <=> Good /\ ~t.diagnosed
    BY DEF Earned, Good
  <2> HIDE DEF r
  <2>9. CASE t.diagnosed
    <3>1. r.outcome.reward = 0 /\ ~r.earned
      BY <2>6, <2>7, <2>8, <2>9
    <3>2. RewardIsEarned'
      BY <2>2, <3>1 DEF RewardIsEarned
    <3> QED
      BY <2>3, <2>4, <2>5, <3>2
  <2>10. CASE ~t.diagnosed
    <3>1. r.outcome = t /\ (r.earned <=> Good)
      BY <2>6, <2>7, <2>8, <2>10
    <3>2. /\ r.outcome.reward = 1 => r.earned /\ r.outcome.status = "passed"
          /\ r.earned => r.outcome.reward = 1 \/ r.outcome.status = "evaluation_failure"
      BY <1>7, <1>8, <1>10, <2>10, <3>1
    <3>3. RewardIsEarned'
      BY <2>2, <3>2 DEF RewardIsEarned
    <3> QED
      BY <2>3, <2>4, <2>5, <3>3
  <2> QED
    BY <2>9, <2>10
<1> QED
  BY <1>5, <1>9, <1>10

LEMMA CloseInterruptedStep ==
  ASSUME BenchmarkInv, CloseInterrupted
  PROVE  BenchmarkInv'
<1> USE DEF BenchmarkInv
<1>1. /\ awaiting = "close" /\ cancel' = "raised" /\ awaiting' = "ran" /\ failed' = TRUE
      /\ UNCHANGED <<tasks, keep, real, trialVars, results, provider, root, archived, artifact, exit>>
  BY DEF CloseInterrupted
<1>2. BenchmarkType'
  BY <1>1, SameResults DEF BenchmarkType, trialVars
<1>3. Stopping' /\ Verdict' /\ NothingLeftOpen'
  BY <1>1 DEF Stopping, Verdict, NothingLeftOpen, trialVars
<1> QED
  BY <1>1, <1>2, <1>3, SameResults

LEMMA FinishStep ==
  ASSUME BenchmarkInv, Finish
  PROVE  BenchmarkInv'
<1> USE DEF BenchmarkInv
<1>1. PICK closes \in BOOLEAN, moves \in BOOLEAN, clears \in BOOLEAN, writes \in BOOLEAN :
         /\ provider' = CloseProvider(closes)
         /\ root' = ClearRoot(clears)
         /\ artifact' => ~failed /\ ~(real /\ cancel = "scope")
  BY DEF Finish
<1>2. Ran /\ awaiting' = "done" /\ UNCHANGED <<tasks, keep, real, cancel, trialVars, results>>
  BY DEF Finish
<1>3. /\ awaiting \in {"ran", "next"} /\ prompt # "running" /\ (session = "open" => cancel = "raised")
      /\ awaiting = "ran" => failed
      /\ awaiting = "next" => cancel # "raised" /\ (cancel = "scope" => real)
      /\ ~real => provider = "none"
  BY <1>2 DEF Ran, Stopping, NothingLeftOpen
<1>4. BenchmarkType'
  BY <1>2, SameResults DEF BenchmarkType, trialVars
<1>5. Stopping' /\ Verdict'
  BY <1>2, <1>3 DEF Stopping, Verdict, trialVars
<1>6. provider' # "open" /\ root' # "there"
  BY <1>1, <1>3 DEF CloseProvider, ClearRoot
<1>7. NothingLeftOpen'
  BY <1>1, <1>2, <1>3, <1>6 DEF NothingLeftOpen, trialVars
<1> QED
  BY <1>2, <1>4, <1>5, <1>7, SameResults

LEMMA FinishInterruptedStep ==
  ASSUME BenchmarkInv, FinishInterrupted
  PROVE  BenchmarkInv'
<1> USE DEF BenchmarkInv
<1>1. /\ Ran /\ cancel' = "raised" /\ awaiting' = "done" /\ root' \in {"gone", "left"}
      /\ UNCHANGED <<tasks, keep, real, trialVars, results, provider, archived, artifact>>
  BY DEF FinishInterrupted
<1>2. awaiting \in {"ran", "next"} /\ prompt # "running" /\ ~artifact
  BY <1>1 DEF Ran, Stopping, NothingLeftOpen
<1>3. BenchmarkType'
  BY <1>1, SameResults DEF BenchmarkType, trialVars
<1>4. Stopping' /\ Verdict' /\ NothingLeftOpen'
  BY <1>1, <1>2 DEF Stopping, Verdict, NothingLeftOpen, trialVars
<1> QED
  BY <1>1, <1>3, <1>4, SameResults

------------------------------------------------------------------------------
LEMMA BenchmarkStepInv == BenchmarkInv /\ [BenchmarkNext]_benchmarkVars => BenchmarkInv'
<1> SUFFICES ASSUME BenchmarkInv, [BenchmarkNext]_benchmarkVars PROVE BenchmarkInv'
  OBVIOUS
<1>1. CASE UNCHANGED benchmarkVars
  <2>1. UNCHANGED <<awaiting, tasks, keep, real, cancel, session, prompt, late, seen, work, trial,
                    results, provider, root, artifact, failed>>
    BY <1>1 DEF benchmarkVars, trialVars, endVars
  <2>2. BenchmarkType' /\ Stopping' /\ NothingLeftOpen'
    BY <2>1, SameResults, SameChecks DEF BenchmarkInv, BenchmarkType, Stopping, NothingLeftOpen
  <2>3. Verdict'
    BY <2>1, SameChecks DEF BenchmarkInv, Verdict, Good
  <2> QED
    BY <2>1, <2>2, <2>3, SameResults DEF BenchmarkInv
<1>2. CASE BenchmarkNext
  BY <1>2, CancelStep, PrepareStep, StartTrialStep, LoadStep, PromptStep, StopPromptStep,
     PromptIsOverStep, CloseTrialStep, CloseInterruptedStep, FinishStep, FinishInterruptedStep
     DEF BenchmarkNext
<1> QED
  BY <1>1, <1>2

\* The update checks leave the benchmark alone.
LEMMA BenchmarkHolds == CommandsSpec => []BenchmarkInv
<1>1. CommandsInit => BenchmarkInv
  BY BenchmarkInitInv DEF CommandsInit
<1>2. BenchmarkInv /\ [CommandsNext]_commandsVars => BenchmarkInv'
  BY BenchmarkStepInv DEF CommandsNext, commandsVars
<1> QED
  BY <1>1, <1>2, PTL DEF CommandsSpec

\* However the command ends, nothing it opened stays open behind it, but for the
\* one close a signal found under way, and no artifact hides a cancellation.
THEOREM NothingStaysOpen == CommandsSpec => []NothingLeftOpen
<1>1. BenchmarkInv => NothingLeftOpen
  BY DEF BenchmarkInv
<1> QED
  BY <1>1, BenchmarkHolds, PTL

\* Whatever the trials were cut by, a recorded reward was earned and an earned one is recorded.
THEOREM RewardsAreEarned == CommandsSpec => []RewardIsEarned
<1>1. BenchmarkInv => RewardIsEarned
  BY DEF BenchmarkInv
<1> QED
  BY <1>1, BenchmarkHolds, PTL
------------------------------------------------------------------------------
(* The update checks.                                                         *)

StartStage == {"over", "fetch", "store", "write", "notice", "notes", "record", "recording", "show"}
UpdateStage == {"none", "over", "install", "stage", "launch", "cleanup", "handed"}
StartRecord == [at : StartStage, version : Nat, time : Nat, latest : Nat, previous : Nat]

\* There are only so many releases.
Bounded(index) == \E m \in Nat : \A r \in index : r.version <= m

UpdatesType ==
  /\ setting \in Settings
  /\ now \in 0 .. MaxTime
  /\ releases \in SUBSET [version : Versions, kind : {"stable", "withheld"}] /\ Bounded(releases)
  /\ latestAt \in [0 .. MaxTime -> SUBSET Nat]
  /\ installed \in Nat
  /\ cache \in [checked : Nat \cup {-1}, latest : Nat]
  /\ lastSeen \in Nat \cup {-1}
  /\ start \in [1 .. Slots -> StartRecord] /\ notice \in [1 .. Slots -> Nat]
  /\ first \in Nat /\ reached \in Nat /\ broken \in BOOLEAN
  /\ update \in [at : UpdateStage, target : Nat, waits : BOOLEAN, staged : SUBSET {"directory", "script"}]

\* v was the latest release at some moment since.
LatestSince(v, since) == \E t \in 0 .. now : since <= t /\ v \in latestAt[t]

\* What a start has looked up is no older than what it says of it.
TellsLatest ==
  /\ Latest(releases) \in latestAt[now]
  /\ cache.checked >= 0 => LatestSince(cache.latest, cache.checked)
  /\ \A p \in 1 .. Slots :
       /\ start[p].time <= now
       /\ start[p].at \in {"store", "write"} => LatestSince(start[p].latest, start[p].time)
       /\ start[p].at = "notice" => LatestSince(start[p].latest, start[p].time - Interval)
       /\ notice[p] # 0 => LatestSince(notice[p], start[p].time - Interval)

\* The notes of v were shown, or a start that has recorded itself is going to.
Told(v) ==
  \/ v \in read
  \/ \E p \in 1 .. Slots :
       /\ start[p].at \in {"recording", "show"} /\ start[p].previous # 0
       /\ start[p].previous < v /\ v <= start[p].version
ToldTo(m) == \A v \in Versions : first < v /\ v <= m => Told(v)

\* The notes were told up to every version that is on record or was taken from it.
TellsAll ==
  ~broken =>
    /\ ToldTo(lastSeen) /\ ToldTo(reached)
    /\ \A p \in 1 .. Slots :
         start[p].at \in {"record", "recording", "show"} =>
           /\ ToldTo(start[p].previous)
           /\ start[p].previous = 0 => start[p].version <= first

UpdatesInv == UpdatesType /\ TellsLatest /\ TellsAll

\* The greatest of two numbers.
LEMMA MaxOfTwo ==
  ASSUME NEW a \in Int, NEW b \in Int
  PROVE  Max({a, b}) \in {a, b} /\ a <= Max({a, b}) /\ b <= Max({a, b})
<1> DEFINE IsMax(x) == x \in {a, b} /\ \A y \in {a, b} : x >= y
<1>1. \E x : IsMax(x)
  <2>1. CASE a >= b
    BY <2>1
  <2>2. CASE b >= a
    BY <2>2
  <2> QED
    BY <2>1, <2>2
<1>2. IsMax(CHOOSE x : IsMax(x))
  BY <1>1
<1>3. Max({a, b}) = CHOOSE x : IsMax(x)
  BY DEF Max
<1> QED
  BY <1>2, <1>3

\* The latest release is a version or none.
LEMMA LatestIsVersion ==
  ASSUME NEW index \in SUBSET [version : Nat, kind : {"stable", "withheld"}], Bounded(index)
  PROVE  Latest(index) \in Nat
<1> DEFINE T == {0} \cup {r.version : r \in {s \in index : s.kind = "stable"}}
<1>1. PICK m \in Nat : \A r \in index : r.version <= m
  BY DEF Bounded
<1>2. T \in SUBSET Nat /\ T # {} /\ \A k \in T : k <= m
  BY <1>1
<1>3. \E n \in T : \A k \in T : n >= k
  <2> HIDE DEF T
  <2>1. PICK n \in T : \A k \in T : k <= n
    BY <1>2, GreatestNumber
  <2> QED
    BY <2>1, <1>2
<1>4. (CHOOSE n \in T : \A k \in T : n >= k) \in T
  BY <1>3
<1> QED
  BY <1>2, <1>4 DEF Latest, Max
LEMMA UpdatesInitInv == UpdatesInit => UpdatesInv
<1> SUFFICES ASSUME UpdatesInit PROVE UpdatesInv
  OBVIOUS
<1> USE UpdatesAssumption
<1>1. UpdatesType
  <2>1. releases \in SUBSET [version : Versions, kind : {"stable", "withheld"}]
    BY DEF UpdatesInit
  <2>2. \A r \in releases : r.version <= 1
    BY DEF UpdatesInit
  <2>3. Bounded(releases)
    BY <2>2 DEF Bounded
  <2>4. latestAt \in [0 .. MaxTime -> SUBSET Nat]
    BY DEF UpdatesInit
  <2>5. start \in [1 .. Slots -> StartRecord]
    BY DEF UpdatesInit, OverAt, StartRecord, StartStage
  <2>6. cache \in [checked : Nat \cup {-1}, latest : Nat]
    BY DEF UpdatesInit, NoCache
  <2>7. update \in [at : UpdateStage, target : Nat, waits : BOOLEAN, staged : SUBSET {"directory", "script"}]
    BY DEF UpdatesInit, NoUpdate, UpdateStage
  <2>8. now \in 0 .. MaxTime /\ lastSeen \in Nat \cup {-1}
    BY DEF UpdatesInit
  <2>9. /\ setting \in Settings /\ installed \in Nat /\ first \in Nat /\ reached \in Nat /\ broken \in BOOLEAN
        /\ notice \in [1 .. Slots -> Nat]
    BY DEF UpdatesInit
  <2> QED
    BY <2>1, <2>3, <2>4, <2>5, <2>6, <2>7, <2>8, <2>9 DEF UpdatesType
<1>2. Latest(releases) = 1
  <2> DEFINE T == {0} \cup {r.version : r \in {s \in releases : s.kind = "stable"}}
  <2>1. \A r : r \in {s \in releases : s.kind = "stable"} <=> r = [version |-> 1, kind |-> "stable"]
    BY DEF UpdatesInit
  <2>2. {r.version : r \in {s \in releases : s.kind = "stable"}} = {1}
    <3> DEFINE R == {s \in releases : s.kind = "stable"}
    <3>1. \E r \in R : r.version = 1
      <4>1. [version |-> 1, kind |-> "stable"] \in R /\ [version |-> 1, kind |-> "stable"].version = 1
        BY <2>1
      <4> QED
        BY <4>1
    <3>2. \A r \in R : r.version = 1
      BY <2>1
    <3> HIDE DEF R
    <3>3. {r.version : r \in R} = {1}
      BY <3>1, <3>2
    <3> QED
      BY <3>3 DEF R
  <2>3. Latest(releases) = Max({0, 1})
    <3>1. T = {0, 1}
      BY <2>2
    <3> QED
      BY <3>1 DEF Latest
  <2>4. Max({0, 1}) \in {0, 1} /\ 1 <= Max({0, 1})
    <3>1. 0 \in Int /\ 1 \in Int
      OBVIOUS
    <3> QED
      BY <3>1, MaxOfTwo, Zenon
  <2> QED
    BY <2>3, <2>4
<1>3. TellsLatest
  BY <1>2 DEF UpdatesInit, TellsLatest, NoCache, OverAt
<1>4. TellsAll
  <2>1. first = 0 /\ lastSeen = 0 /\ reached = 0 /\ \A p \in 1 .. Slots : start[p].at = "over"
    BY DEF UpdatesInit, OverAt
  <2>2. \A v \in Versions : ~(first < v /\ v <= 0)
    BY <2>1
  <2> QED
    BY <2>1, <2>2 DEF TellsAll, ToldTo
<1> QED
  BY <1>1, <1>3, <1>4 DEF UpdatesInv

\* Around the starts only time passes and releases are made: what was the latest then stays so.
LEMMA LatestStays ==
  ASSUME UpdatesInv, UNCHANGED starting,
         now' \in 0 .. MaxTime, now <= now', \A t \in 0 .. now : latestAt[t] \subseteq latestAt'[t],
         Latest(releases)' \in latestAt'[now']
  PROVE  TellsLatest' /\ TellsAll'
<1>1. UNCHANGED <<cache, lastSeen, start, notice, first, reached, read, broken>>
  BY DEF starting
<1>2. now \in Int /\ 0 .. now \subseteq 0 .. now' /\ now' \in Int
  BY UpdatesAssumption DEF UpdatesInv, UpdatesType
<1>3. TellsAll'
  BY <1>1 DEF UpdatesInv, TellsAll, ToldTo, Told
<1>4. TellsLatest'
  <2>1. \A v, since : LatestSince(v, since) => \E t \in 0 .. now' : since <= t /\ v \in latestAt'[t]
    BY <1>2 DEF LatestSince
  <2>2. ASSUME NEW p \in 1 .. Slots PROVE start[p].time <= now'
    BY <1>2 DEF UpdatesInv, UpdatesType, TellsLatest, StartRecord
  <2> QED
    BY <1>1, <2>1, <2>2, SMTT(30) DEF UpdatesInv, TellsLatest, LatestSince
<1> QED
  BY <1>3, <1>4

LEMMA TickStep ==
  ASSUME UpdatesInv, Tick
  PROVE  UpdatesInv'
<1> USE UpdatesAssumption
<1>1. /\ now' = now + 1 /\ now \in Nat /\ now' \in 0 .. MaxTime
      /\ latestAt' = [latestAt EXCEPT ![now + 1] = {Latest(releases)}]
      /\ UNCHANGED <<setting, releases, installed, starting, update>>
  BY DEF Tick, UpdatesInv, UpdatesType
<1>2. Latest(releases) \in Nat
  BY LatestIsVersion DEF UpdatesInv, UpdatesType
<1>3. UpdatesType'
  BY <1>1, <1>2, SMTT(30) DEF UpdatesInv, UpdatesType, starting, Bounded
<1>4. \A t \in 0 .. now : latestAt[t] \subseteq latestAt'[t]
  BY <1>1 DEF UpdatesInv, UpdatesType
<1>5. Latest(releases)' \in latestAt'[now']
  BY <1>1 DEF UpdatesInv, UpdatesType
<1> QED
  BY <1>1, <1>3, <1>4, <1>5, LatestStays DEF UpdatesInv

LEMMA ReleaseStep ==
  ASSUME UpdatesInv, NEW v \in Versions, NEW kind \in {"stable", "withheld"}, Release(v, kind)
  PROVE  UpdatesInv'
<1> USE UpdatesAssumption
<1>1. /\ now' = now /\ now \in 0 .. MaxTime
      /\ releases' = {r \in releases : r.version # v} \cup {[version |-> v, kind |-> kind]}
      /\ latestAt' = [latestAt EXCEPT ![now] = @ \cup {Latest(releases')}]
      /\ UNCHANGED <<setting, installed, starting, update>>
  BY DEF Release, UpdatesInv, UpdatesType
<1>2. releases' \in SUBSET [version : Versions, kind : {"stable", "withheld"}]
  BY <1>1 DEF UpdatesInv, UpdatesType
<1>3. Bounded(releases')
  <2>1. PICK m \in Nat : \A r \in releases : r.version <= m
    BY DEF UpdatesInv, UpdatesType, Bounded
  <2>2. m + v \in Nat /\ \A r \in releases : r.version <= m + v
    <3>1. v \in Nat /\ \A r \in releases : r.version \in Nat
      BY DEF UpdatesInv, UpdatesType
    <3> QED
      BY <2>1, <3>1
  <2>3. \A r \in releases' : r.version <= m + v
    BY <1>1, <2>2
  <2> QED
    BY <2>2, <2>3 DEF Bounded
<1>4. Latest(releases') \in Nat
  BY <1>2, <1>3, LatestIsVersion
<1>5. latestAt' \in [0 .. MaxTime -> SUBSET Nat]
  BY <1>1, <1>4 DEF UpdatesInv, UpdatesType
<1>6. UpdatesType'
  BY <1>1, <1>2, <1>3, <1>5 DEF UpdatesInv, UpdatesType, starting, Bounded
<1>7. Latest(releases)' \in latestAt'[now'] /\ \A t \in 0 .. now : latestAt[t] \subseteq latestAt'[t]
  BY <1>1 DEF UpdatesInv, UpdatesType, Latest
<1> QED
  BY <1>1, <1>6, <1>7, LatestStays DEF UpdatesInv

\* The installed version changes, by hand or by the update command.
LEMMA InstalledStep ==
  ASSUME UpdatesInv, UNCHANGED <<setting, now, releases, latestAt, starting>>,
         installed' \in Nat,
         update' \in [at : UpdateStage, target : Nat, waits : BOOLEAN, staged : SUBSET {"directory", "script"}]
  PROVE  UpdatesInv'
<1>1. UpdatesType'
  BY DEF UpdatesInv, UpdatesType, starting, Bounded
<1>2. /\ now \in Nat /\ now' \in 0 .. MaxTime /\ now <= now'
      /\ \A t \in 0 .. now : latestAt[t] \subseteq latestAt'[t]
  BY UpdatesAssumption DEF UpdatesInv, UpdatesType
<1>3. Latest(releases)' \in latestAt'[now']
  BY DEF UpdatesInv, TellsLatest
<1> QED
  BY <1>1, <1>2, <1>3, LatestStays DEF UpdatesInv

LEMMA UpdateStep ==
  ASSUME UpdatesInv, BeginUpdate \/ Stage \/ Launch \/ CleanupHandoff \/ ParentExits \/ Install
  PROVE  UpdatesInv'
<1> USE DEF UpdateSteps, UpdateStage
<1>1. /\ installed \in Nat /\ Latest(releases) \in Nat
      /\ update \in [at : UpdateStage, target : Nat, waits : BOOLEAN, staged : SUBSET {"directory", "script"}]
  BY UpdatesAssumption, LatestIsVersion DEF UpdatesInv, UpdatesType
<1>2. CASE BeginUpdate
  BY <1>1, <1>2, InstalledStep DEF BeginUpdate
<1>3. CASE Stage
  BY <1>1, <1>3, InstalledStep, ZenonT(30) DEF Stage
<1>4. CASE Launch
  BY <1>1, <1>4, InstalledStep DEF Launch
<1>5. CASE CleanupHandoff
  BY <1>1, <1>5, InstalledStep DEF CleanupHandoff
<1>6. CASE ParentExits
  BY <1>1, <1>6, InstalledStep DEF ParentExits
<1>7. CASE Install
  <2>1. Max({installed, Latest(releases)}) \in Nat
    <3>1. installed \in Int /\ Latest(releases) \in Int
      BY <1>1
    <3>2. Max({installed, Latest(releases)}) \in {installed, Latest(releases)}
      BY <3>1, MaxOfTwo, Zenon
    <3> QED
      BY <1>1, <3>2
  <2>2. update.target \in Nat
    BY <1>1
  <2>3. installed' \in Nat
    BY <1>1, <1>7, <2>1, <2>2 DEF Install
  <2> QED
    BY <1>1, <1>7, <2>3, InstalledStep DEF Install
<1> QED
  BY <1>2, <1>3, <1>4, <1>5, <1>6, <1>7
\* A step of start p leaves the releases and the time alone, and the other starts.
StepOf(p) ==
  /\ UNCHANGED <<setting, now, releases, latestAt, installed, update>>
  /\ start' \in [1 .. Slots -> StartRecord] /\ notice' \in [1 .. Slots -> Nat]
  /\ \A q \in 1 .. Slots \ {p} : start'[q] = start[q] /\ notice'[q] = notice[q]

\* What is to be shown of one step's start and of what it stores.
LEMMA TellsLatestStep ==
  ASSUME UpdatesInv, NEW p \in 1 .. Slots, StepOf(p),
         cache'.checked >= 0 => LatestSince(cache'.latest, cache'.checked),
         start'[p].time <= now,
         start'[p].at \in {"store", "write"} => LatestSince(start'[p].latest, start'[p].time),
         start'[p].at = "notice" => LatestSince(start'[p].latest, start'[p].time - Interval),
         notice'[p] # 0 => LatestSince(notice'[p], start'[p].time - Interval)
  PROVE  TellsLatest'
<1>1. UNCHANGED <<now, releases, latestAt>> /\ \A q \in 1 .. Slots \ {p} : start'[q] = start[q] /\ notice'[q] = notice[q]
  BY DEF StepOf
<1>2. Latest(releases)' \in latestAt'[now']
  BY <1>1 DEF UpdatesInv, TellsLatest
<1> QED
  BY <1>1, <1>2 DEF UpdatesInv, TellsLatest, LatestSince

LEMMA StepType ==
  ASSUME UpdatesInv, NEW p \in 1 .. Slots, StepOf(p),
         cache' \in [checked : Nat \cup {-1}, latest : Nat], lastSeen' \in Nat \cup {-1},
         first' \in Nat, reached' \in Nat, broken' \in BOOLEAN
  PROVE  UpdatesType'
  BY DEF UpdatesInv, UpdatesType, StepOf, Bounded

\* Whatever the start does, as long as it does not end.
LEMMA ChangeOfStart ==
  ASSUME UpdatesInv, NEW p \in 1 .. Slots, NEW st \in StartRecord, NEW n \in Nat,
         UNCHANGED <<setting, now, releases, latestAt, installed, update>>,
         start' = [start EXCEPT ![p] = st], notice' = [notice EXCEPT ![p] = n]
  PROVE  StepOf(p) /\ start'[p] = st /\ notice'[p] = n
  BY DEF UpdatesInv, UpdatesType, StepOf

\* A step before the release notes: what was told stays told.
LEMMA TellsAllStays ==
  ASSUME UpdatesInv, NEW p \in 1 .. Slots, StepOf(p),
         UNCHANGED <<lastSeen, first, reached, read, broken>>,
         start[p].at \notin {"recording", "show"}, start'[p].at \notin {"record", "recording", "show"}
  PROVE  TellsAll'
<1>1. \A q \in 1 .. Slots : q # p => start'[q] = start[q]
  BY DEF StepOf
<1>2. \A v \in Versions : Told(v) => Told(v)'
  BY <1>1 DEF Told
<1> QED
  BY <1>1, <1>2 DEF UpdatesInv, TellsAll, ToldTo
LEMMA CheckStep ==
  ASSUME UpdatesInv, NEW p \in 1 .. Slots, Check(p)
  PROVE  UpdatesInv'
<1> USE UpdatesAssumption
<1> DEFINE at == CASE setting.disabled -> "notes" [] ~setting.disabled /\ CacheIsFresh -> "notice" [] OTHER -> "fetch"
           st == [at |-> at, version |-> installed, time |-> now,
                  latest |-> IF CacheIsFresh THEN cache.latest ELSE 0, previous |-> 0]
<1>1. setting.disabled \in BOOLEAN /\ installed \in Nat /\ now \in Nat /\ cache.latest \in Nat /\ cache.checked \in Int
  BY DEF UpdatesInv, UpdatesType
<1>2. at \in {"notes", "notice", "fetch"} /\ (at = "notice" => CacheIsFresh)
  BY <1>1
<1>3. /\ start[p].at = "over"
      /\ start' = [start EXCEPT ![p] = st] /\ notice' = [notice EXCEPT ![p] = 0]
      /\ UNCHANGED <<setting, now, releases, latestAt, installed, update>>
      /\ UNCHANGED <<cache, lastSeen, first, reached, read, broken>>
  BY DEF Check, At, Outside, StateKept
<1> HIDE DEF at
<1>4. st \in StartRecord
  BY <1>1, <1>2 DEF StartRecord, StartStage
<1>5. StepOf(p) /\ start'[p] = st /\ notice'[p] = 0
  <2> HIDE DEF st
  <2> QED
    BY <1>3, <1>4, ChangeOfStart
<1>6. UpdatesType'
  BY <1>3, <1>5, StepType DEF UpdatesInv, UpdatesType
<1>7. TellsAll'
  BY <1>2, <1>3, <1>5, TellsAllStays
<1>8. at = "notice" => LatestSince(cache.latest, now - Interval)
  <2> SUFFICES ASSUME at = "notice" PROVE LatestSince(cache.latest, now - Interval)
    OBVIOUS
  <2>1. cache.checked >= 0 /\ now - cache.checked <= Interval
    BY <1>2 DEF CacheIsFresh
  <2>2. PICK t \in 0 .. now : cache.checked <= t /\ cache.latest \in latestAt[t]
    BY <2>1 DEF UpdatesInv, TellsLatest, LatestSince
  <2>3. now - Interval <= t
    BY <1>1, <2>1, <2>2
  <2> QED
    BY <2>2, <2>3 DEF LatestSince
<1>9. TellsLatest'
  <2>1. cache'.checked >= 0 => LatestSince(cache'.latest, cache'.checked)
    BY <1>3 DEF UpdatesInv, TellsLatest
  <2>2. start'[p].at = "notice" => LatestSince(start'[p].latest, start'[p].time - Interval)
    BY <1>2, <1>5, <1>8
  <2> QED
    BY <1>1, <1>2, <1>5, <2>1, <2>2, TellsLatestStep
<1> QED
  BY <1>6, <1>7, <1>9 DEF UpdatesInv

LEMMA FetchStep ==
  ASSUME UpdatesInv, NEW p \in 1 .. Slots, Fetch(p)
  PROVE  UpdatesInv'
<1> USE UpdatesAssumption
<1>1. /\ start \in [1 .. Slots -> StartRecord] /\ start[p] \in StartRecord /\ notice \in [1 .. Slots -> Nat] /\ notice[p] \in Nat
      /\ now \in Nat /\ Latest(releases) \in Nat
  <2>1. releases \in SUBSET [version : Nat, kind : {"stable", "withheld"}] /\ Bounded(releases)
    BY DEF UpdatesInv, UpdatesType
  <2>2. Latest(releases) \in Nat
    BY <2>1, LatestIsVersion
  <2> QED
    BY <2>2, SMTT(30) DEF UpdatesInv, UpdatesType
<1>2. /\ start[p].at = "fetch"
      /\ UNCHANGED <<setting, now, releases, latestAt, installed, update>>
      /\ UNCHANGED <<cache, notice, lastSeen, first, reached, read, broken>>
  BY DEF Fetch, At, Around, Outside, StateKept
<1>3. PICK st \in StartRecord :
        /\ start' = [start EXCEPT ![p] = st] /\ st.time = start[p].time
        /\ st.at = "notes" \/ (st.at = "store" /\ st.latest = Latest(releases))
  <2>1. CASE start' = [start EXCEPT ![p].at = "notes"]
    <3> DEFINE st == [start[p] EXCEPT !.at = "notes"]
    <3>1. st \in StartRecord /\ st.time = start[p].time /\ st.at = "notes"
      BY <1>1 DEF StartRecord, StartStage
    <3>2. start' = [start EXCEPT ![p] = st]
      BY <1>1, <2>1
    <3> HIDE DEF st
    <3> QED
      BY <3>1, <3>2
  <2>2. CASE start' = [start EXCEPT ![p].at = "store", ![p].latest = Latest(releases)]
    <3> DEFINE st == [start[p] EXCEPT !.at = "store", !.latest = Latest(releases)]
    <3>1. st \in StartRecord /\ st.time = start[p].time /\ st.at = "store" /\ st.latest = Latest(releases)
      BY <1>1 DEF StartRecord, StartStage
    <3>2. start' = [start EXCEPT ![p] = st]
      BY <1>1, <2>2
    <3> HIDE DEF st
    <3> QED
      BY <3>1, <3>2
  <2> QED
    BY <2>1, <2>2 DEF Fetch
<1>4. StepOf(p) /\ start'[p] = st /\ notice'[p] = notice[p]
  <2>1. notice' = [notice EXCEPT ![p] = notice[p]]
    BY <1>1, <1>2
  <2> QED
    BY <1>1, <1>2, <1>3, <2>1, ChangeOfStart
<1>5. UpdatesType'
  BY <1>2, <1>4, StepType DEF UpdatesInv, UpdatesType
<1>6. TellsAll'
  BY <1>2, <1>3, <1>4, TellsAllStays
<1>7. TellsLatest'
  <2>1. cache'.checked >= 0 => LatestSince(cache'.latest, cache'.checked)
    BY <1>2 DEF UpdatesInv, TellsLatest
  <2>2. LatestSince(Latest(releases), start[p].time)
    BY <1>1 DEF UpdatesInv, TellsLatest, LatestSince
  <2> QED
    BY <1>2, <1>3, <1>4, <2>1, <2>2, TellsLatestStep DEF UpdatesInv, TellsLatest
<1> QED
  BY <1>5, <1>6, <1>7 DEF UpdatesInv
\* A step that only moves a start on.
Moved(p, at) == [start EXCEPT ![p].at = at]

LEMMA MoveOf ==
  ASSUME UpdatesInv, NEW p \in 1 .. Slots, NEW at \in StartStage, start' = Moved(p, at),
         UNCHANGED <<setting, now, releases, latestAt, installed, update, notice>>
  PROVE  /\ StepOf(p)
         /\ start'[p].at = at /\ start'[p].version = start[p].version /\ start'[p].time = start[p].time
         /\ start'[p].latest = start[p].latest /\ start'[p].previous = start[p].previous
<1> DEFINE st == [start[p] EXCEPT !.at = at]
<1>1. start \in [1 .. Slots -> StartRecord] /\ start[p] \in StartRecord /\ notice \in [1 .. Slots -> Nat] /\ notice[p] \in Nat
  BY DEF UpdatesInv, UpdatesType
<1>2. /\ st \in StartRecord /\ st.at = at /\ st.version = start[p].version /\ st.time = start[p].time
      /\ st.latest = start[p].latest /\ st.previous = start[p].previous
  BY <1>1 DEF StartRecord
<1>3. start' = [start EXCEPT ![p] = st] /\ notice' = [notice EXCEPT ![p] = notice[p]]
  BY <1>1 DEF Moved
<1> HIDE DEF st
<1> QED
  BY <1>1, <1>2, <1>3, ChangeOfStart

LEMMA CacheStep ==
  ASSUME UpdatesInv, NEW p \in 1 .. Slots, EmptyCache(p) \/ WriteCache(p)
  PROVE  UpdatesInv'
<1>1. PICK at \in {"write", "notice"} : start' = [start EXCEPT ![p].at = at]
  BY DEF EmptyCache, WriteCache
<1>2. /\ start[p].at \in {"store", "write"}
      /\ UNCHANGED <<setting, now, releases, latestAt, installed, update>>
      /\ UNCHANGED <<notice, lastSeen, first, reached, read, broken>>
  BY DEF EmptyCache, WriteCache, At, Around, Outside, StateKept
<1>3. cache' \in {cache, NoCache, [checked |-> start[p].time, latest |-> start[p].latest]}
  BY DEF EmptyCache, WriteCache, CheckedAt
<1>4. /\ StepOf(p) /\ start'[p].at = at
      /\ start'[p].time = start[p].time /\ start'[p].latest = start[p].latest
  BY <1>1, <1>2, MoveOf DEF Moved, StartStage
<1>5. start[p].time \in Nat /\ start[p].latest \in Nat /\ now \in Nat
  BY UpdatesAssumption, SMTT(30) DEF UpdatesInv, UpdatesType, StartRecord
<1>6. UpdatesType'
  <2>1. cache' \in [checked : Nat \cup {-1}, latest : Nat]
    BY <1>3, <1>5 DEF UpdatesInv, UpdatesType, NoCache
  <2> QED
    BY <1>2, <1>4, <2>1, StepType DEF UpdatesInv, UpdatesType
<1>7. TellsAll'
  BY <1>2, <1>4, TellsAllStays
<1>8. TellsLatest'
  <2>1. LatestSince(start[p].latest, start[p].time) /\ start[p].time <= now /\ notice'[p] = notice[p]
    BY <1>2 DEF UpdatesInv, TellsLatest
  <2>2. cache'.checked >= 0 => LatestSince(cache'.latest, cache'.checked)
    BY <1>3, <2>1 DEF UpdatesInv, TellsLatest, NoCache
  <2>3. LatestSince(start[p].latest, start[p].time - Interval)
    BY <1>5, <2>1, UpdatesAssumption DEF LatestSince
  <2>4. notice[p] # 0 => LatestSince(notice[p], start[p].time - Interval)
    BY DEF UpdatesInv, TellsLatest
  <2> QED
    BY <1>4, <2>1, <2>2, <2>3, <2>4, TellsLatestStep
<1> QED
  BY <1>6, <1>7, <1>8 DEF UpdatesInv

LEMMA NoticeStep ==
  ASSUME UpdatesInv, NEW p \in 1 .. Slots, Notice(p)
  PROVE  UpdatesInv'
<1> DEFINE st == [start[p] EXCEPT !.at = "notes"]
           n == IF start[p].latest <= start[p].version THEN 0 ELSE start[p].latest
<1>1. start \in [1 .. Slots -> StartRecord] /\ start[p] \in StartRecord
  BY DEF UpdatesInv, UpdatesType
<1>2. /\ start[p].at = "notice" /\ start' = [start EXCEPT ![p] = st] /\ notice' = [notice EXCEPT ![p] = n]
      /\ UNCHANGED <<setting, now, releases, latestAt, installed, update>>
      /\ UNCHANGED <<cache, lastSeen, first, reached, read, broken>>
  BY <1>1 DEF Notice, At, Around, Outside, StateKept
<1>3. st \in StartRecord /\ st.at = "notes" /\ st.time = start[p].time /\ n \in Nat
  BY <1>1 DEF StartRecord, StartStage
<1>4. n # 0 => LatestSince(n, start[p].time - Interval)
  BY <1>2 DEF UpdatesInv, TellsLatest
<1> HIDE DEF st, n
<1>5. StepOf(p) /\ start'[p] = st /\ notice'[p] = n
  BY <1>2, <1>3, ChangeOfStart
<1>6. UpdatesType'
  BY <1>2, <1>5, StepType DEF UpdatesInv, UpdatesType
<1>7. TellsAll'
  BY <1>2, <1>3, <1>5, TellsAllStays
<1>8. TellsLatest'
  <2>1. cache'.checked >= 0 => LatestSince(cache'.latest, cache'.checked)
    BY <1>2 DEF UpdatesInv, TellsLatest
  <2>2. start[p].time <= now
    BY DEF UpdatesInv, TellsLatest
  <2> QED
    BY <1>3, <1>4, <1>5, <2>1, <2>2, TellsLatestStep
<1> QED
  BY <1>6, <1>7, <1>8 DEF UpdatesInv
\* From the release notes on a start has nothing more to do with the check.
LEMMA CheckIsOver ==
  ASSUME UpdatesInv, NEW p \in 1 .. Slots, StepOf(p), UNCHANGED <<cache, notice>>,
         start'[p].time = start[p].time, start'[p].at \notin {"store", "write", "notice"}
  PROVE  TellsLatest'
<1>1. cache'.checked >= 0 => LatestSince(cache'.latest, cache'.checked)
  BY DEF UpdatesInv, TellsLatest
<1>2. start[p].time <= now /\ (notice[p] # 0 => LatestSince(notice[p], start[p].time - Interval))
  BY DEF UpdatesInv, TellsLatest
<1> QED
  BY <1>1, <1>2, TellsLatestStep

LEMMA ReadLastSeenStep ==
  ASSUME UpdatesInv, NEW p \in 1 .. Slots, ReadLastSeen(p)
  PROVE  UpdatesInv'
<1>1. /\ start \in [1 .. Slots -> StartRecord] /\ start[p] \in StartRecord /\ notice \in [1 .. Slots -> Nat] /\ notice[p] \in Nat
      /\ lastSeen \in Nat \cup {-1} /\ first \in Nat /\ broken \in BOOLEAN
  BY DEF UpdatesInv, UpdatesType
<1>2. /\ start[p].at = "notes" /\ notice' = [notice EXCEPT ![p] = notice[p]]
      /\ UNCHANGED <<setting, now, releases, latestAt, installed, update>>
      /\ UNCHANGED <<cache, notice, lastSeen, reached, read>>
  BY <1>1 DEF ReadLastSeen, At, Around, Outside
<1>3. CASE start' = [start EXCEPT ![p] = OverAt(@.time)] /\ UNCHANGED <<first, broken>>
  <2> DEFINE st == OverAt(start[p].time)
  <2>1. st \in StartRecord /\ st.at = "over" /\ st.time = start[p].time
    BY <1>1 DEF OverAt, StartRecord, StartStage
  <2>2. start' = [start EXCEPT ![p] = st]
    BY <1>1, <1>3
  <2> HIDE DEF st
  <2>3. StepOf(p) /\ start'[p] = st
    BY <1>1, <1>2, <2>1, <2>2, ChangeOfStart
  <2>4. UpdatesType'
    BY <1>1, <1>2, <1>3, <2>3, StepType DEF UpdatesInv, UpdatesType
  <2>5. TellsAll'
    BY <1>2, <1>3, <2>1, <2>3, TellsAllStays
  <2>6. TellsLatest'
    BY <1>2, <2>1, <2>3, CheckIsOver
  <2> QED
    BY <2>4, <2>5, <2>6 DEF UpdatesInv
<1>4. CASE /\ start' = [start EXCEPT ![p].at = "record", ![p].previous = Readable(lastSeen)]
           /\ first' = IF lastSeen = 0 THEN Max({first, start[p].version}) ELSE first
           /\ broken' = (broken \/ lastSeen < 0)
  <2> DEFINE st == [start[p] EXCEPT !.at = "record", !.previous = Readable(lastSeen)]
  <2>1. /\ st \in StartRecord /\ st.at = "record" /\ st.time = start[p].time /\ st.version = start[p].version
        /\ st.previous = Readable(lastSeen)
    <3>1. Readable(lastSeen) \in Nat
      BY <1>1 DEF Readable
    <3> QED
      BY <1>1, <3>1 DEF StartRecord, StartStage
  <2>2. start' = [start EXCEPT ![p] = st]
    BY <1>1, <1>4
  <2> HIDE DEF st
  <2>3. StepOf(p) /\ start'[p] = st
    BY <1>1, <1>2, <2>1, <2>2, ChangeOfStart
  <2>4. first' \in Nat /\ first <= first' /\ (lastSeen = 0 => start[p].version <= first')
    <3>1. first \in Int /\ start[p].version \in Nat /\ start[p].version \in Int
      BY <1>1 DEF StartRecord
    <3>2. /\ Max({first, start[p].version}) \in {first, start[p].version}
          /\ first <= Max({first, start[p].version}) /\ start[p].version <= Max({first, start[p].version})
      BY <3>1, MaxOfTwo, Zenon
    <3>3. CASE lastSeen = 0
      <4>1. first' = Max({first, start[p].version})
        BY <1>4, <3>3
      <4> QED
        BY <1>1, <3>1, <3>2, <4>1
    <3>4. CASE lastSeen # 0
      <4>1. first' = first
        BY <1>4, <3>4
      <4> QED
        BY <1>1, <3>4, <4>1
    <3> QED
      BY <3>3, <3>4
  <2>5. UpdatesType'
    <3>1. broken' \in BOOLEAN
      BY <1>4
    <3> QED
      BY <1>1, <1>2, <2>3, <2>4, <3>1, StepType DEF UpdatesInv, UpdatesType
  <2>6. TellsAll'
    <3> SUFFICES ASSUME ~broken' PROVE TellsAll'
      BY DEF TellsAll
    <3>1. ~broken /\ lastSeen >= 0 /\ lastSeen \in Nat
      <4>1. ~broken /\ ~(lastSeen < 0)
        BY <1>4, Zenon
      <4> QED
        BY <1>1, <4>1
    <3>2. \A q \in 1 .. Slots : q # p => start'[q] = start[q]
      BY <2>3 DEF StepOf
    <3>3. \A v \in Versions : Told(v) => Told(v)'
      BY <1>2, <3>2 DEF Told
    <3>4. \A v \in Versions : first' < v => first < v
      BY <1>1, <2>4, UpdatesAssumption
    <3>5. ToldTo(lastSeen)' /\ ToldTo(reached)'
      BY <1>2, <3>1, <3>3, <3>4 DEF UpdatesInv, TellsAll, ToldTo
    <3>6. st.previous = lastSeen
      BY <2>1, <3>1 DEF Readable
    <3>7. ASSUME NEW q \in 1 .. Slots, q # p, start'[q].at \in {"record", "recording", "show"}
          PROVE  ToldTo(start[q].previous)' /\ (start[q].previous = 0 => start[q].version <= first')
      <4>1. start[q].at \in {"record", "recording", "show"} /\ start'[q] = start[q] /\ start[q].version \in Nat
        BY <3>2, <3>7, <1>1 DEF StartRecord
      <4>2. ToldTo(start[q].previous) /\ (start[q].previous = 0 => start[q].version <= first)
        BY <3>1, <4>1 DEF UpdatesInv, TellsAll
      <4>3. start[q].previous = 0 => start[q].version <= first'
        BY <1>1, <2>4, <4>1, <4>2
      <4> QED
        BY <3>3, <3>4, <4>1, <4>2, <4>3 DEF ToldTo
    <3> QED
      BY <2>1, <2>3, <2>4, <1>2, <3>2, <3>5, <3>6, <3>7 DEF TellsAll, ToldTo
  <2>7. TellsLatest'
    BY <1>2, <2>1, <2>3, CheckIsOver
  <2> QED
    BY <2>5, <2>6, <2>7 DEF UpdatesInv
<1> QED
  BY <1>3, <1>4 DEF ReadLastSeen

\* What a start that recorded itself is going to show reaches up to its version.
LEMMA ToldToVersion ==
  ASSUME UpdatesInv, ~broken, NEW p \in 1 .. Slots, start[p].at \in {"recording", "show"}
  PROVE  ToldTo(start[p].version)
<1>1. /\ start[p].version \in Nat /\ start[p].previous \in Nat /\ first \in Nat
      /\ Versions \subseteq Nat
  BY UpdatesAssumption DEF UpdatesInv, UpdatesType, StartRecord
<1>2. /\ ToldTo(start[p].previous)
      /\ start[p].previous = 0 => start[p].version <= first
  BY DEF UpdatesInv, TellsAll
<1>3. ASSUME NEW v \in Versions, first < v, v <= start[p].version PROVE Told(v)
  <2>1. start[p].previous # 0
    BY <1>1, <1>2, <1>3
  <2>2. CASE v <= start[p].previous
    BY <1>2, <1>3, <2>2 DEF ToldTo
  <2>3. CASE start[p].previous < v
    BY <1>3, <2>1, <2>3 DEF Told
  <2> QED
    BY <1>1, <2>2, <2>3
<1> QED
  BY <1>3 DEF ToldTo
\* A start that records itself is told of on behalf of what comes before it.
LEMMA TellsAllMoves ==
  ASSUME UpdatesInv, NEW p \in 1 .. Slots, StepOf(p), UNCHANGED <<first, reached, read, broken>>,
         start[p].at \in {"record", "recording"}, start'[p].at \in {"recording", "show"},
         start'[p].version = start[p].version, start'[p].previous = start[p].previous,
         ~broken => lastSeen' = -1 \/ ToldTo(lastSeen')
  PROVE  TellsAll'
<1> SUFFICES ASSUME ~broken' PROVE TellsAll'
  BY DEF TellsAll
<1>1. ~broken
  OBVIOUS
<1>2. \A q \in 1 .. Slots : q # p => start'[q] = start[q]
  BY DEF StepOf
<1>3. \A v : Told(v) => Told(v)'
  BY <1>2 DEF Told
<1>4. \A m : ToldTo(m) => \A v \in Versions : first' < v /\ v <= m => Told(v)'
  BY <1>3 DEF ToldTo
<1>5. ToldTo(lastSeen)'
  <2>1. CASE lastSeen' = -1
    <3>1. \A v \in Versions : ~(first' < v /\ v <= -1)
      BY UpdatesAssumption
    <3> QED
      BY <2>1, <3>1 DEF ToldTo
  <2>2. CASE ToldTo(lastSeen')
    BY <1>4, <2>2 DEF ToldTo
  <2> QED
    BY <1>1, <2>1, <2>2
<1>6. ToldTo(reached)'
  BY <1>1, <1>4 DEF UpdatesInv, TellsAll, ToldTo
<1>7. ASSUME NEW q \in 1 .. Slots, start'[q].at \in {"record", "recording", "show"}
      PROVE  ToldTo(start[q].previous)' /\ (start'[q].previous = 0 => start'[q].version <= first')
  <2>1. /\ start[q].at \in {"record", "recording", "show"}
        /\ start'[q].previous = start[q].previous /\ start'[q].version = start[q].version
    BY <1>2, <1>7
  <2>2. ToldTo(start[q].previous) /\ (start[q].previous = 0 => start[q].version <= first)
    BY <1>1, <2>1 DEF UpdatesInv, TellsAll
  <2> QED
    BY <1>4, <2>1, <2>2 DEF ToldTo
<1> QED
  BY <1>5, <1>6, <1>7 DEF TellsAll

LEMMA StateStep ==
  ASSUME UpdatesInv, NEW p \in 1 .. Slots, EmptyState(p) \/ WriteState(p)
  PROVE  UpdatesInv'
<1>1. PICK at \in {"recording", "show"} : start' = [start EXCEPT ![p].at = at]
  BY DEF EmptyState, WriteState
<1>2. /\ start[p].at \in {"record", "recording"}
      /\ UNCHANGED <<setting, now, releases, latestAt, installed, update>>
      /\ UNCHANGED <<cache, notice, first, reached, read, broken>>
  BY DEF EmptyState, WriteState, At, Around, Outside
<1>3. lastSeen' \in {-1, lastSeen} \/ (start[p].at = "recording" /\ lastSeen' = start[p].version)
  BY DEF EmptyState, WriteState, At
<1>4. /\ StepOf(p) /\ start'[p].at = at /\ start'[p].time = start[p].time
      /\ start'[p].version = start[p].version /\ start'[p].previous = start[p].previous
  BY <1>1, <1>2, MoveOf DEF Moved, StartStage
<1>5. UpdatesType'
  <2>1. lastSeen' \in Nat \cup {-1}
    BY <1>3 DEF UpdatesInv, UpdatesType, StartRecord
  <2> QED
    BY <1>2, <1>4, <2>1, StepType DEF UpdatesInv, UpdatesType
<1>6. ~broken => lastSeen' = -1 \/ ToldTo(lastSeen')
  BY <1>3, ToldToVersion DEF UpdatesInv, TellsAll
<1>7. TellsAll'
  BY <1>2, <1>4, <1>6, TellsAllMoves
<1>8. TellsLatest'
  BY <1>2, <1>4, CheckIsOver
<1> QED
  BY <1>5, <1>7, <1>8 DEF UpdatesInv

LEMMA ShowStep ==
  ASSUME UpdatesInv, NEW p \in 1 .. Slots, Show(p)
  PROVE  UpdatesInv'
<1> DEFINE st == OverAt(start[p].time)
<1>1. /\ start \in [1 .. Slots -> StartRecord] /\ start[p] \in StartRecord /\ start[p].version \in Nat
      /\ notice \in [1 .. Slots -> Nat] /\ notice[p] \in Nat /\ reached \in Nat
  BY DEF UpdatesInv, UpdatesType, StartRecord
<1>2. /\ start[p].at = "show" /\ notice' = [notice EXCEPT ![p] = notice[p]]
      /\ UNCHANGED <<setting, now, releases, latestAt, installed, update>>
      /\ UNCHANGED <<cache, notice, lastSeen, first, broken>>
  BY <1>1 DEF Show, At, Around, Outside
<1>3. /\ st \in StartRecord /\ st.at = "over" /\ st.time = start[p].time /\ start' = [start EXCEPT ![p] = st]
  BY <1>1 DEF Show, OverAt, StartRecord, StartStage
<1> HIDE DEF st
<1>4. StepOf(p) /\ start'[p] = st
  BY <1>1, <1>2, <1>3, ChangeOfStart
<1>5. reached' \in {reached, start[p].version}
  <2>1. reached \in Int /\ start[p].version \in Int
    BY <1>1
  <2>2. Max({reached, start[p].version}) \in {reached, start[p].version}
    BY <2>1, MaxOfTwo, Zenon
  <2> QED
    BY <2>2 DEF Show
<1>6. UpdatesType'
  BY <1>1, <1>2, <1>4, <1>5, StepType DEF UpdatesInv, UpdatesType
<1>7. TellsLatest'
  BY <1>2, <1>3, <1>4, CheckIsOver
<1>8. TellsAll'
  <2> SUFFICES ASSUME ~broken PROVE TellsAll'
    BY <1>2 DEF TellsAll
  <2>1. \A q \in 1 .. Slots : q # p => start'[q] = start[q]
    BY <1>4 DEF StepOf
  <2>2. ASSUME NEW v \in Versions, Told(v) PROVE Told(v)'
    <3>1. CASE v \in read
      BY <3>1 DEF Told, Show
    <3>2. CASE start[p].previous # 0 /\ start[p].previous < v /\ v <= start[p].version
      BY <3>2 DEF Told, Show, NotesBetween
    <3>3. CASE \E q \in 1 .. Slots \ {p} :
                 /\ start[q].at \in {"recording", "show"} /\ start[q].previous # 0
                 /\ start[q].previous < v /\ v <= start[q].version
      BY <2>1, <3>3 DEF Told
    <3> QED
      BY <2>2, <3>1, <3>2, <3>3 DEF Told
  <2>3. ToldTo(start[p].version) /\ ToldTo(lastSeen) /\ ToldTo(reached)
    BY <1>2, ToldToVersion DEF UpdatesInv, TellsAll
  <2>4. ToldTo(lastSeen)' /\ ToldTo(reached)'
    BY <1>2, <1>5, <2>2, <2>3 DEF ToldTo
  <2>5. ASSUME NEW q \in 1 .. Slots, start'[q].at \in {"record", "recording", "show"}
        PROVE  ToldTo(start[q].previous)' /\ (start'[q].previous = 0 => start'[q].version <= first')
    <3>1. start'[q] = start[q]
      BY <1>3, <1>4, <2>1, <2>5
    <3>2. ToldTo(start[q].previous) /\ (start[q].previous = 0 => start[q].version <= first)
      BY <2>5, <3>1 DEF UpdatesInv, TellsAll
    <3> QED
      BY <1>2, <2>2, <3>1, <3>2 DEF ToldTo
  <2> QED
    BY <2>4, <2>5 DEF TellsAll
<1> QED
  BY <1>6, <1>7, <1>8 DEF UpdatesInv

LEMMA EndsStep ==
  ASSUME UpdatesInv, NEW p \in 1 .. Slots, Ends(p)
  PROVE  UpdatesInv'
<1> DEFINE st == OverAt(start[p].time)
<1>1. /\ start \in [1 .. Slots -> StartRecord] /\ start[p] \in StartRecord
      /\ notice \in [1 .. Slots -> Nat] /\ notice[p] \in Nat
  BY DEF UpdatesInv, UpdatesType, StartRecord
<1>2. /\ notice' = [notice EXCEPT ![p] = notice[p]]
      /\ UNCHANGED <<setting, now, releases, latestAt, installed, update>>
      /\ UNCHANGED <<cache, notice, lastSeen, first, reached, read>>
      /\ broken' = (broken \/ start[p].at \in {"recording", "show"})
  BY <1>1 DEF Ends, At, Around, Outside
<1>3. /\ st \in StartRecord /\ st.at = "over" /\ st.time = start[p].time /\ start' = [start EXCEPT ![p] = st]
  BY <1>1 DEF Ends, OverAt, StartRecord, StartStage
<1> HIDE DEF st
<1>4. StepOf(p) /\ start'[p] = st
  BY <1>1, <1>2, <1>3, ChangeOfStart
<1>5. UpdatesType'
  <2>1. broken' \in BOOLEAN
    BY <1>2
  <2> QED
    BY <1>2, <1>4, <2>1, StepType DEF UpdatesInv, UpdatesType
<1>6. TellsLatest'
  BY <1>2, <1>3, <1>4, CheckIsOver
<1>7. TellsAll'
  <2>1. CASE start[p].at \in {"recording", "show"}
    BY <1>2, <2>1 DEF TellsAll
  <2>2. CASE start[p].at \notin {"recording", "show"}
    <3>1. broken' = broken
      BY <1>2, <2>2 DEF UpdatesInv, UpdatesType
    <3> QED
      BY <1>2, <1>3, <1>4, <2>2, <3>1, TellsAllStays
  <2> QED
    BY <2>1, <2>2
<1> QED
  BY <1>5, <1>6, <1>7 DEF UpdatesInv

LEMMA UpdatesStepInv == UpdatesInv /\ [UpdatesNext]_updateVars => UpdatesInv'
<1> SUFFICES ASSUME UpdatesInv, [UpdatesNext]_updateVars PROVE UpdatesInv'
  OBVIOUS
<1>1. CASE UNCHANGED updateVars
  BY <1>1 DEF updateVars, UpdatesInv, UpdatesType, Bounded, TellsLatest, LatestSince, Latest, TellsAll, ToldTo, Told
<1>2. ASSUME NEW v \in Versions, Reinstall(v) PROVE UpdatesInv'
  BY <1>2, InstalledStep, UpdatesAssumption DEF Reinstall, UpdatesInv, UpdatesType
<1>3. ASSUME NEW p \in 1 .. Slots, StartStep(p) PROVE UpdatesInv'
  BY <1>3, CheckStep, FetchStep, CacheStep, NoticeStep, ReadLastSeenStep, StateStep, ShowStep, EndsStep
     DEF StartStep
<1> QED
  BY <1>1, <1>2, <1>3, TickStep, ReleaseStep, UpdateStep DEF UpdatesNext

\* Nor does the benchmark touch the updates.
LEMMA UpdatesHold == CommandsSpec => []UpdatesInv
<1>1. CommandsInit => UpdatesInv
  BY UpdatesInitInv DEF CommandsInit
<1>2. UpdatesInv /\ [CommandsNext]_commandsVars => UpdatesInv'
  BY UpdatesStepInv DEF CommandsNext, commandsVars
<1> QED
  BY <1>1, <1>2, PTL DEF CommandsSpec

\* A notice names a release that was the latest within the interval before its start, whoever wrote
\* the cache it was taken from; and, as long as no start is cut short, the notes of every version
\* after the first are shown or about to be, however starts overlap and versions go up and down.
THEOREM NoticesAreTrue == CommandsSpec => []NoticesArrive
<1>1. UpdatesInv => NoticesArrive
  <2> SUFFICES ASSUME UpdatesInv PROVE NoticesArrive
    OBVIOUS
  <2>1. NoticeIsFresh
    <3> SUFFICES ASSUME NEW p \in 1 .. Slots, notice[p] # 0
                 PROVE  \E t \in Max({0, start[p].time - Interval}) .. now : notice[p] \in latestAt[t]
      BY DEF NoticeIsFresh
    <3>1. PICK t \in 0 .. now : start[p].time - Interval <= t /\ notice[p] \in latestAt[t]
      BY DEF UpdatesInv, TellsLatest, LatestSince
    <3>2. 0 \in Int /\ start[p].time - Interval \in Int /\ now \in Int
      BY UpdatesAssumption, SMTT(30) DEF UpdatesInv, UpdatesType, StartRecord
    <3>3. Max({0, start[p].time - Interval}) \in {0, start[p].time - Interval}
      BY <3>2, MaxOfTwo, Zenon
    <3>4. t \in Max({0, start[p].time - Interval}) .. now
      BY <3>1, <3>2, <3>3
    <3> QED
      BY <3>1, <3>4
  <2>2. NotesReachUser
    <3> SUFFICES ASSUME ~broken, NEW v \in Versions, first < v, v <= reached
                 PROVE  v \in read \cup UNION {AboutToShow(p) : p \in 1 .. Slots}
      BY DEF NotesReachUser
    <3>1. Told(v)
      BY DEF UpdatesInv, TellsAll, ToldTo
    <3>2. ASSUME NEW p \in 1 .. Slots, start[p].at \in {"recording", "show"}, start[p].previous # 0,
                 start[p].previous < v, v <= start[p].version
          PROVE  v \in AboutToShow(p)
      BY <3>2 DEF AboutToShow, NotesBetween
    <3> QED
      BY <3>1, <3>2 DEF Told
  <2> QED
    BY <2>1, <2>2 DEF NoticesArrive
<1> QED
  BY <1>1, UpdatesHold, PTL
================================================================================
