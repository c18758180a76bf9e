---------------------------- MODULE ContextBudget ----------------------------
(***************************************************************************)
(* When a session compacts by itself: the size of the context is estimated *)
(* (src/src/le_agent_coding/context_window.py), the estimate is cached     *)
(* until the transcript is known to have changed (session.py), and a       *)
(* prompt whose context is over the threshold is preceded, or followed, by *)
(* a summary of all but the recent messages.                               *)
(*                                                                         *)
(* The estimate starts from the size a provider reported with an answer,   *)
(* which counts everything in front of that answer as it was then.  Sizes  *)
(* are exact here, of reports and of guesses alike, so that an estimate is *)
(* wrong only when it is an estimate of something else.                    *)
(***************************************************************************)
EXTENDS Integers, Sequences, SequencesExt, FiniteSets

CONSTANTS
  Fixed,         \* size of the system prompt and the tools
  Sizes,         \* of the messages
  Threshold,     \* auto_compact_token_threshold
  KeepRecent,    \* DEFAULT_COMPACTION_KEEP_RECENT_TOKENS
  MaxMessages,   \* bound: messages made
  MaxSummaries   \* bound: compactions finished

ASSUME BudgetAssumption ==
  /\ Fixed \in Nat /\ Sizes \subseteq Nat \ {0} /\ Threshold \in Nat /\ KeepRecent \in Nat \ {0}
  /\ MaxMessages \in Nat /\ MaxSummaries \in Nat

VARIABLES
  listed,       \* the harness's messages: [role, size, at, usage], at a timestamp, usage 0 for none
  stored,         \* the context that the session file holds
  former,     \* that context before the last compaction, still a branch of the session
  counted,      \* persisted_count of the run
  cached,       \* _context_usage_cache, 0 for None
  stage,        \* where a prompt is: "idle", "before", "summing", "call", "ended", "after"
  then,         \* the stage after a compaction
  coming,       \* the message whose MessageEndEvent is out and which is not listed yet
  cut,          \* a run was cancelled or raised, and none was started since
  lost,         \* size of the messages that cut runs left out of the file
  now,          \* the clock; every message made is one later
  summaries

budgetVars == <<listed, stored, former, counted, cached, stage, then, coming, cut, lost, now, summaries>>

Row(role, size, usage) == [role |-> role, size |-> size, at |-> now + 1, usage |-> usage]
Nobody == [role |-> "none", size |-> 0, at |-> 0, usage |-> 0]
Size(ms) ==
  LET sum[i \in 0 .. Len(ms)] == IF i = 0 THEN 0 ELSE sum[i - 1] + ms[i].size
  IN sum[Len(ms)]

\* What a request with these messages comes to.
Total(ms) == Fixed + Size(ms)

\* Seeded fault: the last answer with a report, whatever was put in front of it.
AnchorsAnyway(ms) == {i \in DOMAIN ms : ms[i].usage > 0}

\* _last_applicable_provider_usage: no message in front of the answer is younger.
Anchors(ms) == {i \in DOMAIN ms : ms[i].usage > 0 /\ \A j \in 1 .. i - 1 : ms[j].at <= ms[i].at}

\* estimate_context_usage: the last report that still applies and what came since, or everything.
Estimate(ms) ==
  IF Anchors(ms) = {} THEN Total(ms)
  ELSE LET i == CHOOSE a \in Anchors(ms) : \A b \in Anchors(ms) : b <= a IN
       ms[i].usage + Size(SubSeq(ms, i + 1, Len(ms)))

Usage == IF cached = 0 THEN Estimate(listed) ELSE cached

\* _first_recent_context_index: from which row on the context is kept.
Suffix(ms, i) == Size(SubSeq(ms, i, Len(ms)))
Begins(ms, i) == ms[i].role \in {"user", "summary"}
FirstRecent(ms) ==
  LET far == {i \in DOMAIN ms : Suffix(ms, i) >= KeepRecent}
      from == CHOOSE i \in far : \A j \in far : j <= i
      later(i) == {j \in i .. Len(ms) : Begins(ms, j)}
      whole(i) == {j \in i .. Len(ms) : ms[j].role # "result"} \cup {Len(ms) + 1}
      first(S) == CHOOSE i \in S : \A j \in S : i <= j
  IN IF far = {} THEN 1
     ELSE IF Begins(ms, from) /\ from > 1 THEN from
     ELSE IF later(from + 1) # {} THEN first(later(from + 1))
     ELSE IF Begins(ms, from) THEN 1
     ELSE first(whole(from))

\* _maybe_auto_compact asks for a summary.
MustCompact == Len(stored) >= 2 /\ Usage > Threshold /\ FirstRecent(stored) > 1

\* _persist_messages_since: only what is new makes the estimate stale.
Store ==
  /\ stored' = stored \o SubSeq(listed, counted + 1, Len(listed)) /\ counted' = Len(listed)
  /\ cached' = IF counted < Len(listed) THEN 0 ELSE cached

BudgetInit ==
  /\ listed = <<>> /\ stored = <<>> /\ former = <<>> /\ counted = 0 /\ cached = 0 /\ stage = "idle"
  /\ then = "idle" /\ coming = Nobody /\ cut = FALSE /\ lost = 0 /\ now = 0 /\ summaries = 0

-----------------------------------------------------------------------------
\* prompt: first the decision whether to compact.
Begin ==
  /\ stage = "idle" /\ now < MaxMessages
  /\ stage' = "before"
  /\ UNCHANGED <<listed, stored, former, counted, cached, then, coming, cut, lost, now, summaries>>

Decide(next) ==
  /\ cached' = Usage
  /\ \/ MustCompact /\ stage' = "summing" /\ then' = next
     \/ ~MustCompact /\ stage' = next /\ UNCHANGED then
  /\ UNCHANGED <<listed, stored, former, counted, coming, cut, lost, now, summaries>>
DecideBefore == stage = "before" /\ Decide("send")
DecideAfter == stage = "after" /\ Decide("idle")

\* _append_compaction: the context is rebuilt from the file, and a summary in it is a new message.
\* The harness gets what the file holds.
Replace(n) ==
  /\ stored' = <<Row("summary", 1, 0)>> \o SubSeq(stored, n + 1, Len(stored))
  /\ listed' = stored' /\ former' = stored
  /\ cached' = 0 /\ cut' = FALSE /\ now' = now + 1 /\ summaries' = summaries + 1
Summarize ==
  /\ stage = "summing" /\ summaries < MaxSummaries
  /\ Replace(FirstRecent(stored) - 1)
  /\ stage' = then /\ UNCHANGED <<counted, then, coming, lost>>
\* The summary fails, and the prompt goes on, but an overflow is not retried; or Escape ends it all.
NoSummary ==
  /\ stage = "summing" /\ stage' \in {"idle"} \cup ({then} \ {"retry"})
  /\ UNCHANGED <<listed, stored, former, counted, cached, then, coming, cut, lost, now, summaries>>

\* The harness adds the prompt, or, for a retry, nothing.
Send ==
  /\ stage \in {"send", "retry"} /\ now < MaxMessages
  /\ IF stage = "send"
     THEN \E s \in Sizes : listed' = Append(listed, Row("user", s, 0)) /\ now' = now + 1
     ELSE UNCHANGED <<listed, now>>
  /\ counted' = Len(listed)
  /\ cached' = 0 /\ cut' = FALSE /\ stage' = "opening" /\ coming' = Nobody
  /\ UNCHANGED <<stored, former, then, lost, summaries>>
Opened ==
  /\ stage = "opening" /\ stage' = "call" /\ Store
  /\ UNCHANGED <<listed, former, then, coming, cut, lost, now, summaries>>

\* An answer ends: what is listed so far is stored, the answer is listed when the loop goes on.
Reply ==
  /\ stage = "call" /\ coming = Nobody /\ now < MaxMessages /\ Store
  /\ \E s \in Sizes, reports \in BOOLEAN :
       coming' = Row("assistant", s, IF reports THEN Total(listed) + s ELSE 0)
  /\ now' = now + 1 /\ stage' = "ended"
  /\ UNCHANGED <<listed, former, then, cut, lost, summaries>>
\* One that failed is not sent again, and left out here. After an overflow of the context the
\* prompt is retried on a summary.
Fail ==
  /\ stage = "call" /\ coming = Nobody /\ Store
  /\ \/ stage' = "after" /\ UNCHANGED then
     \/ FirstRecent(stored') > 1 /\ stage' = "summing" /\ then' = "retry"
     \/ FirstRecent(stored') = 1 /\ stage' = "idle" /\ UNCHANGED then
  /\ UNCHANGED <<listed, former, coming, cut, lost, now, summaries>>
List ==
  /\ stage = "ended" /\ coming # Nobody
  /\ listed' = Append(listed, coming) /\ coming' = Nobody
  /\ UNCHANGED <<stored, former, counted, cached, stage, then, cut, lost, now, summaries>>

\* ToolExecutionEndEvent, and then the MessageEndEvent of the result.
ToolEnds ==
  /\ stage = "ended" /\ coming = Nobody /\ Last(listed).role = "assistant" /\ now < MaxMessages
  /\ cached' = 0 /\ stage' = "tool"
  /\ UNCHANGED <<listed, stored, former, counted, then, coming, cut, lost, now, summaries>>
Result ==
  /\ stage = "tool" /\ Store
  /\ \E s \in Sizes : coming' = Row("result", s, 0)
  /\ now' = now + 1 /\ stage' = "ended"
  /\ UNCHANGED <<listed, former, then, cut, lost, summaries>>
NextTurn ==
  /\ stage = "ended" /\ coming = Nobody /\ Last(listed).role = "result"
  /\ stage' = "call"
  /\ UNCHANGED <<listed, stored, former, counted, cached, then, coming, cut, lost, now, summaries>>
EndPrompt ==
  /\ stage = "ended" /\ coming = Nobody /\ Last(listed).role = "assistant"
  /\ Store /\ stage' = "after"
  /\ UNCHANGED <<listed, former, then, coming, cut, lost, now, summaries>>

\* Escape: a call without a result gets one; nobody forgets the estimate.
Escape ==
  /\ stage \in {"opening", "call", "ended", "tool"}
  /\ listed' = IF listed # <<>> /\ stage \in {"ended", "tool"} /\ Last(listed).role = "assistant"
               THEN Append(listed, [Row("result", 1, 0) EXCEPT !.at = now]) ELSE listed
  /\ coming' = Nobody /\ stage' = "idle" /\ cut' = TRUE
  /\ lost' = lost + Size(SubSeq(listed', counted + 1, Len(listed')))
  /\ UNCHANGED <<stored, former, counted, cached, then, now, summaries>>

-----------------------------------------------------------------------------
\* The status line, or /status, reads the estimate at any time.
Look ==
  /\ cached = 0 /\ cached' = Estimate(listed)
  /\ UNCHANGED <<listed, stored, former, counted, stage, then, coming, cut, lost, now, summaries>>

\* run_terminal_command adds its output between two prompts.
Output ==
  /\ stage = "idle" /\ now < MaxMessages
  /\ \E s \in Sizes : listed' = Append(listed, Row("user", s, 0))
  /\ stored' = Append(stored, Last(listed')) /\ now' = now + 1 /\ cached' = 0 /\ cut' = FALSE
  /\ UNCHANGED <<former, counted, stage, then, coming, lost, summaries>>

\* /compact replaces everything.
CompactAll ==
  /\ stage = "idle" /\ stored # <<>> /\ summaries < MaxSummaries /\ Replace(Len(stored))
  /\ UNCHANGED <<counted, stage, then, coming, lost>>

\* Another branch, a resumed session or a restart: what is on disk, its summaries made anew.
Rebuilt(ms) == [i \in DOMAIN ms |-> IF ms[i].role = "summary" THEN [ms[i] EXCEPT !.at = now] ELSE ms[i]]
Rebuild ==
  /\ stage = "idle"
  /\ \E ms \in {stored, former} : stored' = Rebuilt(ms)
  /\ listed' = stored' /\ cached' = 0 /\ cut' = FALSE
  /\ UNCHANGED <<former, counted, stage, then, coming, lost, now, summaries>>

BudgetNext ==
  \/ Begin \/ DecideBefore \/ DecideAfter \/ Summarize \/ NoSummary \/ Send \/ Opened
  \/ Reply \/ Fail \/ List \/ ToolEnds \/ Result \/ NextTurn \/ EndPrompt \/ Escape
  \/ Look \/ Output \/ CompactAll \/ Rebuild
-----------------------------------------------------------------------------
\* Whether to compact is decided by the size of what would be sent: no report of an answer is used
\* that counted messages since former, and no estimate that was made before the last messages
\* came (unless a run was cut short since: nothing then forgets the estimate).  A report is too
\* high by no more than the messages that cut runs left out of the file.
Right(estimate) == Total(listed) <= estimate /\ estimate <= Total(listed) + lost
DecidedByTheTruth ==
  stage \in {"before", "after"} => Right(Estimate(listed)) /\ (cut \/ Right(Usage))
=============================================================================
