\* Runs without a turn limit; only the loop and the harness add messages.
SPECIFICATION Spec
CONSTANTS
  None = None
  TurnLimits = {None}
  QueueMode = "one_at_a_time"
  UniqueCallIds = TRUE
  ExternalAppends = FALSE
  MaxUserMsgs = 3
  MaxReplies = 2
  MaxCalls = 2
  MaxRuns = 2
INVARIANTS
  TranscriptInOrder
PROPERTIES
  CancelledRunIsClosed
  MessagesKept
