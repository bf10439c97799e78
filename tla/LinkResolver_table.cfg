SPECIFICATION Spec
CONSTANTS
  Names <- MCNames
  Stats <- MCStats
  Hash <- MCHash
  InitialBuckets = 1
  Strategies = {"tar", "mtree", "old_cpio", "new_cpio"}
  Word = 8
INVARIANTS TableSound FreedOnce LinksResolved
CHECK_DEADLOCK FALSE
