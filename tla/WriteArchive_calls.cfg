SPECIFICATION FairSpec
CONSTANTS
  Record = 2
  NullLength = 4
  Line = 2
  Buffer = 4
  Entries <- SomeEntries
  Amounts = {2}
  BlockSizes = {0, 3, 5}
  LastSizes <- SomeLast
  MaxOpens = 2
  MaxEntries = 2
  MaxData = 1
  MaxShorts = 1
  Faults = {"opener", "alloc", "write"}
CHECK_DEADLOCK FALSE
INVARIANTS TypeOK Delivered ClosedComplete EntryFramed OpenerMatched ErrorsReported
PROPERTIES Blocked CallsReturn
