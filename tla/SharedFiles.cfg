\* Two processes on one index, one id of the legacy index and one reserved name;
\* two tasks of one process on one credential; one session and the settings that
\* others change under it.  Work stops at the bounds.
SPECIFICATION Spec
CONSTANTS
  None = None
  Procs = {p1, p2}
  Ids = {"a", "old", "default"}
  Titles = {"new"}
  Legacy = {"old"}
  MaxOps = 3
  Tasks = {t1, t2}
  MaxTokens = 3
  DefaultPoll = 1
  Lifetime = 3
  MaxInterval = 3
  NameOrder <- MCNameOrder
  Builtin = {"openai"}
  Models = {"m1", "m2"}
  DefaultName = "openai"
  LevelOrder <- MCLevelOrder
  DefaultLevel = "medium"
  Bundled <- MCBundled
  LegacySettings <- MCLegacy
  CatalogEdits <- MCCatalogEdits
  Conversations = {"c1", "c2"}
  MaxChoices = 4
INVARIANTS
  IndexIsKept
  SpentOnce
  SentIsShown
  OfferIsExact
PROPERTIES
  PolledInTime
  RequestEnds
CHECK_DEADLOCK FALSE
