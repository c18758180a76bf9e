\* Texts of up to four characters, files of up to four lines, two children.
SPECIFICATION Spec
CONSTANTS
  Parts = {"command", "edit", "read", "image"}
  N = 1
  AfterHook = FALSE
  Kids = {k1, k2}
  Chars = {"x", "y", "lf", "cr", "bom"}
  Texts <- MCTexts
  Olds <- MCOlds
  News <- MCNews
  MaxEdits = 2
  MaxText = 6
  Pages <- MCPages
  MaxLines = 2
  MaxBytes = 4
  MaxImageBytes = 2
  MaxSourceBytes = 3
  MaxDimension = 3
  MaxPixels = 20
  MaxAttempts = 2
INVARIANTS
  NoSurvivors
  EditIsSimultaneous
  
PROPERTIES
  StopsWhenTold
CHECK_DEADLOCK FALSE
