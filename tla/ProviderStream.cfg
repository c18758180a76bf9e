\* The four adapters, two retries, three server-sent events per reply: drops,
\* refusals, backoff and cancellation at every point.  A reply ends.
SPECIFICATION Spec
CONSTANTS
  Adapters = {"chat", "responses", "codex", "mistral"}
  Index = {1, 2}
  MaxRetries = 2
  MaxDelay = 3
  MaxLines = 3
INVARIANTS
  NoReplayOfContent
PROPERTIES
  ImplementsContract
  ReplyEnds
CHECK_DEADLOCK FALSE
