\* Two sessions, three prompts, and room for two new message lists, one of them of an opened
\* session; a window of one row over four; four keys; completions, trees and providers as in
\* MCTerminal. Everything stops at its bounds.
SPECIFICATION Spec
CONSTANTS
  Sessions = {s1, s2}
  MaxPrompts = 3
  MaxLists = 3
  MaxOpens = 1
  Window = 1
  Page = 1
  Overscan = 1
  MaxRows = 4
  MaxDeltas = 2
  MaxCalls = 1
  MaxReplies = 1
  MaxActs = 1
  Typed = {"slash", "at"}
  MaxText = 3
  MaxPastes = 2
  MaxKeys = 4
  MaxQueued = 1
  Lists <- MCLists
  MaxVisible = 5
  Trees <- MCTrees
  MaxToggles = 1
  BuiltIn <- MCBuiltIn
  Methods <- MCMethods
  Own = {"own"}
  MaxLogins = 2
INVARIANTS
  
  ShowsWindow
  
  SentIsWhole
  ListsAreShown
  LoginIsWhole

  
CHECK_DEADLOCK FALSE
