\* As LocalTools.cfg: files whose lines end in CR LF are edited.
SPECIFICATION Spec
CONSTANTS
  Parts = {"edit"}
  N = 1
  AfterHook = TRUE
  Kids = {k1, k2}
  Chars = {"x", "y", "lf", "cr", "bom"}
  Texts <- MCTexts
  Olds <- MCOlds
  News <- MCNews
  MaxEdits = 2
  MaxText = 6
  Pages <- MCPages
  MaxLines = 2
  MaxBytes = 4
  MaxImageBytes = 2
  MaxSourceBytes = 3
  MaxDimension = 3
  MaxPixels = 20
  MaxAttempts = 2
PROPERTIES
  LineEndingsRestored
CHECK_DEADLOCK FALSE
