\* Three concurrent calls and an after_tool_call hook: every interleaving of the executor, the
\* workers, cancellation and closing, under the scheduling the event loop gives. The batch ends:
\* no deadlock check.
SPECIFICATION Spec
CONSTANTS
  Parts = {"batch"}
  N = 3
  AfterHook = TRUE
  Kids = {k1, k2}
  Chars = {"x", "y", "lf", "cr", "bom"}
  Texts <- MCTexts
  Olds <- MCOlds
  News <- MCNews
  MaxEdits = 2
  MaxText = 6
  Pages <- MCPages
  MaxLines = 2
  MaxBytes = 4
  MaxImageBytes = 2
  MaxSourceBytes = 3
  MaxDimension = 3
  MaxPixels = 20
  MaxAttempts = 2
INVARIANTS
  NoOrphanWorkers
PROPERTIES
  ImplementsContract
  Terminates
CHECK_DEADLOCK FALSE
