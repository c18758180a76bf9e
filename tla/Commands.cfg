\* Two programs starting at a time, three starts, two versions and the expiry of the cache;
\* two trials of a benchmark task, with cancellations, signals and failing cleanup.
SPECIFICATION CommandsSpec
CONSTANTS
  Slots = 2
  Versions = {1, 2}
  Interval = 1
  Settings <- MCSettings
  MaxTime = 2
  MaxStarts = 3
  MaxChanges = 2
  Builtin = {"fix", "look", "edit"}
  Evaluator <- MCEvaluator
  Requests <- MCRequests
  Trials = 2
  MaxWork = 1
INVARIANTS
  
  NothingLeftOpen
  RewardIsEarned
PROPERTIES
  CommandEnds
CHECK_DEADLOCK FALSE
