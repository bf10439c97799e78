SPECIFICATION Spec
CONSTANTS
  Record = 2
  NullLength = 4
  Line = 2
  Buffer = 4
  Entries <- FewEntries
  Amounts = {4}
  BlockSizes = {3}
  LastSizes <- DefaultLast
  MaxOpens = 1
  MaxEntries = 1
  MaxData = 1
  MaxShorts = 0
  Faults = {"write"}
CHECK_DEADLOCK FALSE
INVARIANT EveryErrorReported
