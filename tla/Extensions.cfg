\* Two extensions, in four layouts of their directories; two generations and
\* four harnesses; one slot and the main view, three widgets;
\* walks over two extensions' hooks with two reloads.
SPECIFICATION ExtensionsSpec
CONSTANTS
  ModuleNames <- MCNames
  Layouts <- MCLayouts
  Tools <- MCTools
  BuiltIn = {"bash"}
  MaxLoads = 2
  MaxSwaps = 4
  Keys = {"k"}
  MaxWidgets = 3
  MaxTasks = 2
  Shapes <- MCShapes
  MaxReloads = 2
INVARIANTS
  OnlyCurrent
  HooksDecide
  NoDuplicateIds
PROPERTIES
  PlacesSettle
CHECK_DEADLOCK FALSE
