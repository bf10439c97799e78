CONSTANTS
  Paths <- SomePaths
  Inodes <- SomeInodes
  Items <- SomeItems
  Disks <- SomeDisks
  FlagSets <- SomeFlags
  Umasks <- SomeUmasks
  MaxEntries = 3
  MaxBlock = 2
  MaxFile = 3
  Now = 99
SPECIFICATION Spec
INVARIANTS Restored KeptAsTold
PROPERTIES SafeReplace
CHECK_DEADLOCK FALSE
