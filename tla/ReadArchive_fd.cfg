SPECIFICATION FairSpec
CONSTANTS
  Entries <- Declared
  Calls = {"data", "block", "fd"}
  Requests = {3}
  Extracting = TRUE
  Descriptors = {TRUE, FALSE}
  MaxOpens = 1
  MaxRetries = 0
  FdMax = 4
  Faults = {"nomem", "warn", "write"}
CHECK_DEADLOCK FALSE
INVARIANTS FdWithinDeclared FdFaithful
PROPERTY CallsReturn
