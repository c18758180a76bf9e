\* The journal in two scenes, one where the front end waits for the session to settle and nobody
\* cancels, and one with overlapping prompts, terminal output between runs, cancellation,
\* exceptions and a second crash; and the context's size through five messages and a summary.
\* The session stops for good when its messages are used up.
SPECIFICATION Spec
CONSTANTS
  Scenes <- MCScenes
  MaxCompactions = 1
  MaxBranches = 1
  Fixed = 1
  Sizes <- MCSizes
  Threshold = 4
  KeepRecent = 3
  MaxMessages = 5
  MaxSummaries = 1
INVARIANTS
  ClosedBeforeProvider
  
PROPERTIES
  RestartIsSound
  
CHECK_DEADLOCK FALSE
