SPECIFICATION Spec
CONSTANTS
  Entries <- Mixed
  Calls = {"data", "block", "skip", "seek"}
  Requests = {1, 3}
  Extracting = FALSE
  Descriptors = {FALSE}
  MaxOpens = 2
  MaxRetries = 1
  FdMax = 0
  Faults = {"opener", "filter", "filters", "format", "header_warn", "header_failed", "header_retry", "header_fatal", "warn", "failed", "fatal", "seek", "skip_warn", "skip_eof", "skip_failed", "skip_fatal", "close"}
CHECK_DEADLOCK FALSE
INVARIANTS TypeOK StreamFaithful ZeroMeansEnd FormatInStep ClosedOnce
PROPERTIES EndIsFinal FailedEntryRefused
