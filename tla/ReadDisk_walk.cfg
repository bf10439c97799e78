SPECIFICATION FairSpec
CONSTANTS
  Nodes <- MCNodes
  Cwd = 1
  Top = 2
  Disks <- MCDisks
  Modes = {"L", "H", "P"}
  Excluded = {7}
  Unwanted = {6}
  Restores = {TRUE}
  Layouts <- MCLayouts
  BufSize = 2
  Faults = {"dup", "fdopendir", "readdir", "ascent", "data"}
  Volatile <- MCVolatile
  Movable = {3}
  MaxChanges = 2
INVARIANTS PathIsTrue WalkComplete NoTrace DataComplete
PROPERTY EveryWalkEnds
CHECK_DEADLOCK FALSE
