\* Runs limited to zero or two turns, queues drained whole, and messages appended
\* from outside at any time.
SPECIFICATION Spec
CONSTANTS
  None = None
  TurnLimits = {0, 2}
  QueueMode = "all"
  UniqueCallIds = TRUE
  ExternalAppends = TRUE
  MaxUserMsgs = 2
  MaxReplies = 4
  MaxCalls = 1
  MaxRuns = 2
INVARIANTS
  AnsweredBeforeProvider
PROPERTIES
  RunTerminates
