CONSTANTS
  Paths <- SomePaths
  Inodes <- SomeInodes
  Items <- SomeItems
  Disks <- SomeDisks
  FlagSets <- SomeFlags
  Umasks <- NoUmask
  MaxEntries = 3
  MaxBlock = 2
  MaxFile = 3
  Now = 99
SPECIFICATION Spec
INVARIANTS ImpliedByUmask
CHECK_DEADLOCK FALSE
