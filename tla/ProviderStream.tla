--------------------------- MODULE ProviderStream ---------------------------
(***************************************************************************)
(* One streamed reply of a provider, from the HTTP request to the events   *)
(* the agent loop receives: the retry envelopes and parsers of             *)
(* openai_compatible.py ("chat" and "responses"), openai_codex.py          *)
(* ("codex") and mistral.py ("mistral"), the cancellable backoff of        *)
(* retry.py and the canonicalizer of stream.py, all of src/src/le_agent_ai.*)
(*                                                                         *)
(*     connect -> stream -> closed                                         *)
(*        ^         |                                                      *)
(*        +-- backoff (at most MaxRetries times)                           *)
(*                                                                         *)
(* The generators suspend at every event they yield; the consumer takes    *)
(* the events of canon.out one at a time (Deliver) and may set the         *)
(* cancellation token in between.                                          *)
(***************************************************************************)
EXTENDS Naturals, Sequences, FiniteSets, SequencesExt

CONSTANTS
  Adapters,     \* subset of {"chat", "responses", "codex", "mistral"}
  Index,        \* positions of the tool calls in a reply
  MaxRetries,   \* config.max_retries
  MaxDelay,     \* config.max_retry_delay_seconds, in polls of the backoff
  MaxLines      \* bound: server-sent events per reply, all attempts together

ASSUME AdaptersAssumption == Adapters \subseteq {"chat", "responses", "codex", "mistral"}
ASSUME IndexAssumption == Index \subseteq Nat
ASSUME BoundsAssumption == MaxRetries \in Nat /\ MaxDelay \in Nat /\ MaxLines \in Nat

VARIABLES
  adapter,    \* which of the four the reply comes from
  pc,         \* "connect" | "stream" | "backoff" | "closed"
  attempt,    \* retries so far
  cancelled,  \* the cancellation token is set
  remaining,  \* polls left in wait_for_retry
  parser,     \* what the parser of this attempt accumulated
  canon,      \* locals of canonicalize_provider_stream, and events not yet taken
  log,        \* events the consumer received
  lines       \* server-sent events received

vars == <<adapter, pc, attempt, cancelled, remaining, parser, canon, log, lines>>

Channel == {"text", "thinking", "tool"}

\* A canonical event: its kind, its channel and the attempt its content is from.
Event(kind, channel) == [kind |-> kind, channel |-> channel, from |-> attempt]

Terminal == {"done", "error", "raised"}

------------------------------------------------------------------------------
(* The parsers.  A server-sent event is a record: its type, the channels a   *)
(* chunk carries, and the tool call it concerns.                             *)

Chunk(channels, i) == [type |-> "chunk", channels |-> channels, index |-> i]
Item(type, i) == [type |-> type, channels |-> {}, index |-> i]
Plain(type) == [type |-> type, channels |-> {}, index |-> 0]

Deltas == {Chunk(s, 0) : s \in SUBSET {"text", "thinking"}}
ToolDeltas == {Chunk(s \cup {"tool"}, i) : s \in SUBSET {"text"}, i \in Index}
Sentinels == {Plain("[DONE]"), Plain("garbage")}
Items == {Item(t, i) : t \in {"added", "args", "item_done"}, i \in Index}

ServerSent ==
  CASE adapter \in {"chat", "mistral"} -> Deltas \cup ToolDeltas \cup Sentinels
    [] adapter = "responses" ->
         {Chunk({c}, 0) : c \in {"text", "thinking"}} \cup Items \cup Sentinels
           \cup {Plain("completed"), Plain("failed")}
    [] adapter = "codex" ->
         {Chunk({c}, 0) : c \in {"text", "thinking"}} \cup Items \cup Sentinels
           \cup {Plain("message_done"), Plain("completed"), Plain("overloaded"),
                 Plain("failed")}

FreshParser ==
  [said |-> FALSE, thought |-> FALSE, args |-> FALSE, building |-> {}, calls |-> {}]

\* Seeded fault: only text and tool calls count as content, as in the Codex adapter.
EmittedSpeech == parser.said \/ parser.building # {} \/ parser.calls # {}

\* Text, thinking or a tool delta was received: a dropped stream is not retried.
EmittedContent ==
  CASE adapter \in {"chat", "mistral"} ->
         parser.said \/ parser.thought \/ parser.building # {}
    [] adapter = "responses" -> parser.said \/ parser.thought \/ parser.args
    [] adapter = "codex" -> parser.said \/ parser.calls # {}

\* A parser's answer: its new state, the provider events, whether the loop over
\* the lines goes on ("go"), stops to finalize ("stop") or fails ("fatal").
Reply(p, events, verdict) == [parser |-> p, events |-> events, verdict |-> verdict]

\* The order in which one chunk's deltas are yielded.
InOrder(channels) ==
  (IF "text" \in channels THEN <<"text">> ELSE <<>>)
    \o (IF "thinking" \in channels THEN <<"thinking">> ELSE <<>>)

Accumulate(e) ==
  [parser EXCEPT !.said = @ \/ "text" \in e.channels,
                 !.thought = @ \/ "thinking" \in e.channels,
                 !.building = IF "tool" \in e.channels THEN @ \cup {e.index} ELSE @]

\* _ChatStreamParser.feed: invalid JSON ends the reply.
FeedChat(e) ==
  CASE e.type = "[DONE]" -> Reply(parser, <<>>, "stop")
    [] e.type = "garbage" -> Reply(parser, <<"error">>, "fatal")
    [] e.type = "chunk" -> Reply(Accumulate(e), InOrder(e.channels), "go")

\* _MistralStreamParser.feed: invalid JSON is skipped.
FeedMistral(e) ==
  CASE e.type = "[DONE]" -> Reply(parser, <<>>, "stop")
    [] e.type = "garbage" -> Reply(parser, <<>>, "go")
    [] e.type = "chunk" -> Reply(Accumulate(e), InOrder(e.channels), "go")

\* _ResponsesStreamParser.feed: items only register builders; the tool calls
\* are yielded by finalize.
FeedResponses(e) ==
  CASE e.type \in {"[DONE]", "garbage"} -> Reply(parser, <<>>, "go")
    [] e.type = "chunk" -> Reply(Accumulate(e), InOrder(e.channels), "go")
    [] e.type \in {"added", "item_done"} ->
         Reply([parser EXCEPT !.building = @ \cup {e.index}], <<>>, "go")
    [] e.type = "args" ->
         Reply([parser EXCEPT !.building = @ \cup {e.index}, !.args = TRUE], <<>>, "go")
    [] e.type = "completed" -> Reply(parser, <<>>, "stop")
    [] e.type = "failed" -> Reply(parser, <<"error">>, "fatal")

\* _codex_provider_events: a tool call is yielded when its item is done, the
\* text of a finished message only when none was streamed, and a transient
\* failure before any output is retried by the envelope.
FeedCodex(e) ==
  CASE e.type = "[DONE]" -> Reply(parser, <<>>, "stop")
    [] e.type = "garbage" -> Reply(parser, <<>>, "go")
    [] e.type = "chunk" -> Reply(Accumulate(e), InOrder(e.channels), "go")
    [] e.type = "message_done" ->
         Reply([parser EXCEPT !.said = TRUE],
               IF parser.said THEN <<>> ELSE <<"text">>, "go")
    [] e.type = "added" ->
         Reply([parser EXCEPT !.building = @ \cup {e.index}], <<>>, "go")
    [] e.type = "args" -> Reply(parser, <<>>, "go")
    [] e.type = "item_done" ->
         Reply([parser EXCEPT !.building = @ \ {e.index}, !.calls = @ \cup {e.index}],
               <<"tool">>, "go")
    [] e.type = "completed" -> Reply(parser, <<>>, "stop")
    [] e.type = "overloaded" ->
         IF ~EmittedContent /\ ~parser.thought /\ attempt < MaxRetries
         THEN Reply(parser, <<>>, "retry")
         ELSE Reply(parser, <<"error">>, "fatal")
    [] e.type = "failed" -> Reply(parser, <<"error">>, "fatal")

Feed(e) ==
  CASE adapter = "chat" -> FeedChat(e)
    [] adapter = "mistral" -> FeedMistral(e)
    [] adapter = "responses" -> FeedResponses(e)
    [] adapter = "codex" -> FeedCodex(e)

\* finalize: the accumulated tool calls in index order, then the end of the
\* response.  Codex yielded its calls already and drops unfinished ones.
Finalize(p) ==
  IF adapter = "codex" THEN <<"end">>
  ELSE [i \in 1 .. Cardinality(p.building) |-> "tool"] \o <<"end">>

------------------------------------------------------------------------------
(* canonicalize_provider_stream *)

\* Seeded fault: the block the provider leaves is not ended.
KeepActive(c) == [c EXCEPT !.active = "none"]

\* _end_active_block
EndActive(c) ==
  IF c.active = "none" THEN c
  ELSE [c EXCEPT !.out = Append(@, Event("close", c.active)), !.active = "none"]

BeginBlock(c, channel) ==
  [c EXCEPT !.out = Append(@, Event("open", channel)), !.active = channel]

Begun(c) ==
  IF c.started THEN c
  ELSE [c EXCEPT !.started = TRUE, !.out = Append(@, Event("start", "none"))]

\* One provider event: the canonicalizer's state and the events it yields.
Canonicalize(c, event) ==
  LET b == Begun(c) IN
  CASE event = "start" -> b
    [] event \in {"text", "thinking"} ->
         LET d == IF b.active = event THEN b ELSE BeginBlock(EndActive(b), event)
         IN [d EXCEPT !.out = Append(@, Event("delta", event))]
    [] event = "tool" ->
         [EndActive(b) EXCEPT !.out = @ \o <<Event("open", "tool"), Event("close", "tool")>>]
    [] event = "end" ->
         [EndActive(b) EXCEPT !.out = Append(@, Event("done", "none")), !.terminal = TRUE]
    [] event = "error" ->
         [b EXCEPT !.out = Append(@, Event("error", "none")), !.terminal = TRUE]

\* Seeded fault: the end of the source is taken for the end of the reply.
ConcludeQuietly(c) == Begun(c)

\* The source is exhausted: a reply without a terminal event becomes an error.
Conclude(c) ==
  LET b == Begun(c) IN
  IF b.terminal THEN b
  ELSE [b EXCEPT !.out = Append(@, Event("error", "none")), !.terminal = TRUE]

\* The provider events of one step, one after the other.
Canonicalized(events) ==
  LET after[i \in 0 .. Len(events)] ==
        IF i = 0 THEN canon ELSE Canonicalize(after[i - 1], events[i])
  IN  after[Len(events)]

Yield(events) == canon' = Canonicalized(events)
YieldAndReturn(events) ==
  /\ canon' = Conclude(Canonicalized(events))
  /\ pc' = "closed"

------------------------------------------------------------------------------
Init ==
  /\ adapter \in Adapters
  /\ pc = "connect"
  /\ attempt = 0
  /\ cancelled = FALSE
  /\ remaining = 0
  /\ parser = FreshParser
  /\ canon = [started |-> FALSE, active |-> "none", terminal |-> FALSE, out |-> <<>>]
  /\ log = <<>>
  /\ lines = 0

\* The adapter runs only when the consumer asked for the next event.
Running == canon.out = <<>> /\ UNCHANGED <<adapter, cancelled, log>>

BaseDelay == IF MaxDelay < 2 THEN MaxDelay ELSE 2

\* retry_delay_seconds, in polls: the base delay doubled per attempt and capped.
RetryDelay(n) == IF BaseDelay * 2 ^ n < MaxDelay THEN BaseDelay * 2 ^ n ELSE MaxDelay

\* The retry event is provider-internal: the consumer does not see it.
BackOff ==
  /\ attempt < MaxRetries
  /\ attempt' = attempt + 1
  /\ remaining' = RetryDelay(attempt)
  /\ parser' = FreshParser
  /\ pc' = "backoff"
  /\ UNCHANGED <<canon, lines>>

GiveUp ==
  /\ YieldAndReturn(<<"error">>)
  /\ UNCHANGED <<attempt, remaining, parser, lines>>

\* The response opens: 2xx.
Accepted ==
  /\ pc = "connect"
  /\ Running
  /\ pc' = "stream"
  /\ Yield(<<"start">>)
  /\ UNCHANGED <<attempt, remaining, parser, lines>>

\* A status of 400 or more: transient ones are retried while attempts remain,
\* and so is no other.  Codex does not retry a rate limit that is terminal.
Refused(transient) ==
  /\ pc = "connect"
  /\ Running
  /\ IF transient /\ attempt < MaxRetries THEN BackOff ELSE GiveUp

\* httpx.HTTPError, while connecting or in the middle of the stream.
Dropped ==
  /\ pc \in {"connect", "stream"}
  /\ Running
  /\ IF ~EmittedContent /\ attempt < MaxRetries THEN BackOff ELSE GiveUp

\* The compatible adapter resolves credentials once, before its loop: what the
\* resolver raises reaches the consumer.
ResolverRaises ==
  /\ pc = "connect"
  /\ Running
  /\ attempt = 0
  /\ canon' = [canon EXCEPT !.out = <<Event("raised", "none")>>, !.terminal = TRUE]
  /\ pc' = "closed"
  /\ UNCHANGED <<attempt, remaining, parser, lines>>

\* Codex resolves them on every attempt, inside its try block.
ResolverFails == pc = "connect" /\ Running /\ GiveUp

\* A line of the response.  The token is looked at before the line is used; a
\* cancelled stream returns without a terminal event of its own.
Line ==
  /\ pc = "stream"
  /\ Running
  /\ lines < MaxLines
  /\ \E e \in ServerSent :
       IF cancelled
       THEN YieldAndReturn(<<>>) /\ UNCHANGED <<attempt, remaining, parser, lines>>
       ELSE LET r == Feed(e) IN
            CASE r.verdict = "go" ->
                   /\ Yield(r.events)
                   /\ parser' = r.parser
                   /\ lines' = lines + 1
                   /\ UNCHANGED <<pc, attempt, remaining>>
              [] r.verdict = "stop" ->
                   /\ YieldAndReturn(r.events \o Finalize(r.parser))
                   /\ parser' = r.parser
                   /\ lines' = lines + 1
                   /\ UNCHANGED <<attempt, remaining>>
              [] r.verdict = "fatal" -> GiveUp
              [] r.verdict = "retry" -> BackOff

\* The response ends without a sentinel: what was accumulated is the reply.
Exhausted ==
  /\ pc = "stream"
  /\ Running
  /\ YieldAndReturn(Finalize(parser))
  /\ UNCHANGED <<attempt, remaining, parser, lines>>

\* wait_for_retry: sleep in short polls, looking at the token before each and
\* after the last.
Poll ==
  /\ pc = "backoff"
  /\ Running
  /\ IF cancelled
     THEN YieldAndReturn(<<>>) /\ UNCHANGED remaining
     ELSE /\ remaining' = IF remaining = 0 THEN 0 ELSE remaining - 1
          /\ pc' = IF remaining = 0 THEN "connect" ELSE "backoff"
          /\ UNCHANGED canon
  /\ UNCHANGED <<attempt, parser, lines>>

\* The consumer takes the next event.
Deliver ==
  /\ canon.out # <<>>
  /\ log' = Append(log, Head(canon.out))
  /\ canon' = [canon EXCEPT !.out = Tail(@)]
  /\ UNCHANGED <<adapter, pc, attempt, cancelled, remaining, parser, lines>>

Cancel ==
  /\ ~cancelled
  /\ pc # "closed"
  /\ cancelled' = TRUE
  /\ UNCHANGED <<adapter, pc, attempt, remaining, parser, canon, log, lines>>

\* The envelope the three adapters share.
Envelope ==
  \/ Accepted
  \/ \E transient \in BOOLEAN : Refused(transient)
  \/ Dropped
  \/ Line
  \/ Exhausted
  \/ Poll

Compatible == adapter \in {"chat", "responses"} /\ (Envelope \/ ResolverRaises)
Codex == adapter = "codex" /\ (Envelope \/ ResolverFails)
Mistral == adapter = "mistral" /\ Envelope

Adapter == Compatible \/ Codex \/ Mistral \/ Deliver

Next == Adapter \/ Cancel

\* The event loop keeps running the adapter and its consumer, and the HTTP
\* client's timeout bounds every wait for the server.
Spec == Init /\ [][Next]_vars /\ WF_vars(Adapter)

------------------------------------------------------------------------------
\* The consumer's view of the events it received: its phase, and the block that is open.
Phase(events) ==
  IF events = <<>> THEN "quiet"
  ELSE IF Last(events).kind \in Terminal THEN Last(events).kind ELSE "live"

OpenChannel(events) ==
  LET marks == {i \in DOMAIN events : events[i].kind \in {"open", "close"}}
      opened == {i \in marks : events[i].kind = "open" /\ \A j \in marks : j <= i}
  IN  IF opened = {} THEN "none" ELSE events[CHOOSE i \in opened : TRUE].channel

(* What the loop receives is a reply as the provider protocol promises it,   *)
(* whatever the server, the network, the retries and a cancellation do: one  *)
(* start, blocks opened and closed one at a time, one terminal event at the  *)
(* end (canonicalize_provider_stream over the retry envelopes).              *)
Contract == INSTANCE ReplyContract WITH phase <- Phase(log), block <- OpenChannel(log),
                                        heard <- Len(log)
ImplementsContract == Contract!Spec

Content == {i \in DOMAIN log : log[i].kind = "delta"
                               \/ (log[i].kind = "open" /\ log[i].channel = "tool")}

(* A retry never repeats content: all content the loop receives comes from   *)
(* one attempt ("content already streamed is not retried",                   *)
(* docs/LeAgent...面试问答.md:382).  The adapters whose parsers count         *)
(* thinking as content keep that promise; the Codex adapter keeps it for     *)
(* text and tool calls only.                                                 *)
NoReplayOfContent ==
  \A i, j \in Content :
    (adapter = "codex" => log[i].channel # "thinking" /\ log[j].channel # "thinking")
      => log[i].from = log[j].from

(* Every request ends in a terminal event, also when it is cancelled during  *)
(* a backoff or between two lines, and when every attempt is dropped.        *)
ReplyEnds == <>(log # <<>> /\ Last(log).kind \in Terminal)
==============================================================================
